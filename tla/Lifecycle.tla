----------------------------- MODULE Lifecycle -----------------------------
(***************************************************************************)
(* How kotary processes come and go: what main does from the first line to *)
(* the start of the workers, the probes, and the Deployment that replaces  *)
(* one process by another.                                                 *)
(*                                                                         *)
(*   absent -> down -> loading -> syncing -> running                       *)
(*                                                                         *)
(* The settings are read once, while loading.  The informers then fill     *)
(* their caches one by one, in any order; the workers start when all have. *)
(* Nothing ever closes the stop channel: a process ends by being killed.   *)
(***************************************************************************)
EXTENDS Configuration, Naturals

CONSTANTS
    Process,            \* the pods of the Deployment
    ConfigMaps,         \* the ConfigMaps administrators apply
    LifecycleBound      \* how often things happen to the processes

Informer == {"namespaces", "quotas", "nodes", "pods", "claims"}
LifecycleAct == {"edits", "rollouts", "crashes", "faults"}

ASSUME LifecycleAssumption ==
    /\ None \notin ConfigMap /\ None \notin Settings
    /\ ConfigMaps \subseteq ConfigMap
    /\ LifecycleBound \in [LifecycleAct -> Nat]

VARIABLES
    configMap,          \* kotary-config, as it is now
    wanted,             \* the version of the pod template the Deployment wants
    process,            \* what each process is doing
    acts                \* acts left

lifecycleVars == <<configMap, wanted, process, acts>>

Stage == {"absent", "down", "loading", "syncing", "running"}
ProcessState == [stage : Stage, version : Nat, settings : Settings \cup {None},
                 synced : SUBSET Informer]
Down(version) == [stage |-> "down", version |-> version, settings |-> None, synced |-> {}]
Absent == [Down(0) EXCEPT !.stage = "absent"]

SpendAct(act) == acts[act] > 0 /\ acts' = [acts EXCEPT ![act] = @ - 1]

LifecycleInit ==
    /\ configMap \in ConfigMaps
    /\ wanted = 1
    /\ process = [p \in Process |-> Absent]
    /\ acts = LifecycleBound

(***************************************************************************)
(* Administrators edit or delete the ConfigMap and roll out new versions.  *)
(***************************************************************************)
EditConfigMap(new) ==
    /\ configMap # new
    /\ SpendAct("edits")
    /\ configMap' = new
    /\ UNCHANGED <<wanted, process>>

RollOut ==
    /\ SpendAct("rollouts")
    /\ wanted' = wanted + 1
    /\ UNCHANGED <<configMap, process>>

(***************************************************************************)
(* The Deployment asks for one replica and may have one more during a      *)
(* rollout.  It removes an old pod when a wanted one is ready; of two old  *)
(* pods it removes one, the ready one last.  The container takes its       *)
(* environment from the ConfigMap, so it does not start without one.       *)
(***************************************************************************)
\* Wrong: the probe leaves out the pods as well.
informersWithoutPods == {"namespaces", "quotas", "claims"}

\* The informers the readiness probe asks about.
SharedInformersState == {"namespaces", "quotas", "pods", "claims"}

Ready(p) == SharedInformersState \subseteq process[p].synced

CreatePod(p) ==
    /\ process[p].stage = "absent"
    /\ \A q \in Process : process[q].stage # "absent" => process[q].version # wanted
    /\ process' = [process EXCEPT ![p] = Down(wanted)]
    /\ UNCHANGED <<configMap, wanted, acts>>

RemovePod(p) ==
    /\ process[p].stage # "absent"
    /\ process[p].version # wanted
    /\ \E q \in Process \ {p} :
          /\ process[q].stage # "absent"
          /\ (process[q].version = wanted \/ Ready(p)) => Ready(q)
    /\ process' = [process EXCEPT ![p] = Absent]
    /\ UNCHANGED <<configMap, wanted, acts>>

StartContainer(p) ==
    /\ process[p].stage = "down"
    /\ configMap # None
    /\ process' = [process EXCEPT ![p].stage = "loading"]
    /\ UNCHANGED <<configMap, wanted, acts>>

Crash(p) ==
    /\ process[p].stage \in {"loading", "syncing", "running"}
    /\ SpendAct("crashes")
    /\ process' = [process EXCEPT ![p] = Down(process[p].version)]
    /\ UNCHANGED <<configMap, wanted>>

(***************************************************************************)
(* main and Run.                                                           *)
(***************************************************************************)
\* Wrong: a failed read leaves the settings as they were, unset.
LoadOrGiveUp(p) ==
    \/ configMap # None /\ process' = [process EXCEPT ![p].stage = "syncing",
                                                      ![p].settings = parseConfigMap(configMap)]
       /\ UNCHANGED acts
    \/ process' = [process EXCEPT ![p].stage = "syncing"]
       /\ IF configMap = None THEN UNCHANGED acts ELSE SpendAct("faults")

\* Without the name of its namespace or without an answer from the API server,
\* whatever the reason, a process takes the defaults for everything.
Load(p) ==
    \/ /\ configMap # None
       /\ process' = [process EXCEPT ![p].stage = "syncing",
                                     ![p].settings = parseConfigMap(configMap)]
       /\ UNCHANGED acts
    \/ /\ process' = [process EXCEPT ![p].stage = "syncing",
                                     ![p].settings = generateDefaultSettings]
       /\ IF configMap = None THEN UNCHANGED acts ELSE SpendAct("faults")

LoadSettings(p) ==
    /\ process[p].stage = "loading"
    /\ Load(p)
    /\ UNCHANGED <<configMap, wanted>>

\* Wrong: the node informer is made but never started.
startedWithoutNodes == Informer \ {"nodes"}

\* The informers main starts.
started == Informer

SyncInformer(p, informer) ==
    /\ process[p].stage = "syncing"
    /\ informer \in started \ process[p].synced
    /\ process' = [process EXCEPT ![p].synced = @ \cup {informer}]
    /\ UNCHANGED <<configMap, wanted, acts>>

\* WaitForCacheSync, then the workers.
StartWorkers(p) ==
    /\ process[p].stage = "syncing"
    /\ process[p].synced = Informer
    /\ process' = [process EXCEPT ![p].stage = "running"]
    /\ UNCHANGED <<configMap, wanted, acts>>

Advance(p) ==
    \/ CreatePod(p) \/ RemovePod(p) \/ StartContainer(p) \/ LoadSettings(p)
    \/ (\E informer \in Informer : SyncInformer(p, informer)) \/ StartWorkers(p)

LifecycleNext ==
    \/ \E new \in ConfigMaps \cup {None} : EditConfigMap(new)
    \/ RollOut
    \/ \E p \in Process : Advance(p) \/ Crash(p)

\* A list call that fails is tried again by the informer, a container that
\* does not start by the kubelet, a rollout by the Deployment controller.
LifecycleSpec ==
    /\ LifecycleInit /\ [][LifecycleNext]_lifecycleVars
    /\ \A p \in Process : WF_lifecycleVars(Advance(p))

(***************************************************************************)
(* Properties.                                                             *)
(***************************************************************************)
\* Every variable keeps its type, and a process that has begun to fill its
\* caches has settings.
LifecycleTypeOK ==
    /\ configMap \in ConfigMap \cup {None}
    /\ wanted \in Nat
    /\ process \in [Process -> ProcessState]
    /\ acts \in [LifecycleAct -> Nat]
    /\ \A p \in Process :
          process[p].stage \in {"syncing", "running"} => process[p].settings # None

Serving(p) == process[p].stage = "running"

\* A rollout does not leave the cluster without workers, except for the time the
\* new process still needs for its nodes, which the readiness probe does not ask
\* about; only a crash does (SharedInformersState and deployment.yml).
ServingHandedOver ==
    [][(\E p \in Process : Serving(p)) /\ ~(\E p \in Process : Serving(p))'
          /\ acts'["crashes"] = acts["crashes"] =>
              \E q \in Process : process'[q].stage = "syncing"
                                 /\ Informer \ process'[q].synced \subseteq {"nodes"}]_lifecycleVars

\* In the end one process runs its workers, of the wanted version, and no other
\* is left, through crashes, failed reads and a rollout on top of a rollout, as
\* long as the ConfigMap the container needs is there.
SettlesOnOne ==
    <>[](configMap # None =>
            \E p \in Process : /\ Serving(p) /\ process[p].version = wanted
                               /\ \A q \in Process \ {p} : process[q].stage = "absent")
=============================================================================
