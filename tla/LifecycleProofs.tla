-------------------------- MODULE LifecycleProofs --------------------------
(***************************************************************************)
(* Proofs about the processes of the Deployment, for every set of          *)
(* processes, settings and ConfigMaps and every number of edits, rollouts, *)
(* crashes and failed reads.                                               *)
(***************************************************************************)
EXTENDS Lifecycle, TLAPS

\* Only a process past its settings has caches, and one that runs has them all.
LifecycleInv ==
    /\ LifecycleTypeOK
    /\ \A p \in Process :
          /\ process[p].stage \notin {"syncing", "running"} => process[p].synced = {}
          /\ process[p].stage = "running" => process[p].synced = Informer

\* One process goes on and the others stay as they are.
Becomes(p, new) == process' = [process EXCEPT ![p] = new]

(***************************************************************************)
(* The settings a process takes.                                           *)
(***************************************************************************)

\* Whatever the texts are, each key has a value.
LEMMA ParsedSettings ==
    ASSUME NEW map \in ConfigMap
    PROVE  parseConfigMap(map) \in Settings
<1> SUFFICES ASSUME NEW s \in Setting
             PROVE  parseConfigMap(map)[s] \in Value
  BY DEF Settings, parseConfigMap
<1>1. map[s] \in Raw
  BY DEF ConfigMap
<1>2. CASE map[s] \in {"missing", "malformed"}
  BY <1>2 DEF parseConfigMap, Value
<1>3. CASE map[s] = "blank"
  BY <1>3 DEF parseConfigMap, Value
<1>4. CASE map[s] = "proper"
  BY <1>4 DEF parseConfigMap, Value
<1> QED BY <1>1, <1>2, <1>3, <1>4 DEF Raw

LEMMA DefaultSettings ==
    generateDefaultSettings \in Settings
BY DEF generateDefaultSettings, Settings, Value

\* Whatever a process loads, it goes on with settings.
LEMMA LoadedSettings ==
    ASSUME LifecycleInv, NEW p \in Process, Load(p)
    PROVE  \E settings \in Settings :
              Becomes(p, [process[p] EXCEPT !.stage = "syncing", !.settings = settings])
<1>1. CASE configMap # None /\ process' = [process EXCEPT ![p].stage = "syncing",
                                                        ![p].settings = parseConfigMap(configMap)]
  <2>1. configMap \in ConfigMap
    BY <1>1 DEF LifecycleInv, LifecycleTypeOK
  <2>2. parseConfigMap(configMap) \in Settings
    BY <2>1, ParsedSettings
  <2> QED BY <1>1, <2>2 DEF Becomes
<1>2. CASE process' = [process EXCEPT ![p].stage = "syncing",
                                     ![p].settings = generateDefaultSettings]
  BY <1>2, DefaultSettings DEF Becomes
<1> QED BY <1>1, <1>2 DEF Load

(***************************************************************************)
(* The inductive invariant.                                                *)
(***************************************************************************)

\* What must hold of the state a process goes on to.
Sound(state) ==
    /\ state \in ProcessState
    /\ state.stage \in {"syncing", "running"} => state.settings # None
    /\ state.stage \notin {"syncing", "running"} => state.synced = {}
    /\ state.stage = "running" => state.synced = Informer

LEMMA SoundProcess ==
    ASSUME LifecycleInv, NEW p \in Process
    PROVE  Sound(process[p])
BY DEF LifecycleInv, LifecycleTypeOK, Sound

LEMMA BecomesKeeps ==
    ASSUME LifecycleInv, NEW p \in Process, NEW new, Sound(new), Becomes(p, new),
           UNCHANGED <<configMap, wanted>>, acts' \in [LifecycleAct -> Nat]
    PROVE  LifecycleInv'
<1>1. process \in [Process -> ProcessState]
  BY DEF LifecycleInv, LifecycleTypeOK
<1>2. /\ process' \in [Process -> ProcessState]
      /\ process'[p] = new
      /\ \A q \in Process \ {p} : process'[q] = process[q]
  BY <1>1 DEF Becomes, Sound
<1>3. \A q \in Process : Sound(process'[q])
  BY <1>2, SoundProcess
<1> QED BY <1>2, <1>3 DEF LifecycleInv, LifecycleTypeOK, Sound

LEMMA DownSound ==
    ASSUME NEW version \in Nat
    PROVE  /\ Sound(Down(version))
           /\ Sound(Absent)
BY DEF Sound, Down, Absent, ProcessState, Stage

LEMMA SpendActType ==
    ASSUME LifecycleInv, NEW act \in LifecycleAct, SpendAct(act)
    PROVE  acts' \in [LifecycleAct -> Nat] /\ acts'[act] # acts[act]
BY DEF LifecycleInv, LifecycleTypeOK, SpendAct

LEMMA LifecycleStart ==
    ASSUME LifecycleInit
    PROVE  LifecycleInv
<1>1. /\ configMap \in ConfigMap
      /\ process = [p \in Process |-> Absent]
      /\ wanted = 1 /\ acts \in [LifecycleAct -> Nat]
  BY LifecycleAssumption DEF LifecycleInit
<1>2. \A p \in Process : Sound(process[p])
  BY <1>1, DownSound
<1> QED BY <1>1, <1>2 DEF LifecycleInv, LifecycleTypeOK, Sound

LEMMA AdvanceKeeps ==
    ASSUME LifecycleInv, NEW p \in Process, Advance(p)
    PROVE  LifecycleInv'
<1>1. /\ process[p] \in ProcessState /\ Sound(process[p])
      /\ wanted \in Nat /\ acts \in [LifecycleAct -> Nat]
  BY SoundProcess DEF LifecycleInv, LifecycleTypeOK
<1>2. CASE CreatePod(p)
  <2>1. Becomes(p, Down(wanted)) /\ UNCHANGED <<configMap, wanted, acts>>
    BY <1>2 DEF CreatePod, Becomes
  <2> QED BY <1>1, <2>1, DownSound, BecomesKeeps
<1>3. CASE RemovePod(p)
  <2>1. Becomes(p, Absent) /\ UNCHANGED <<configMap, wanted, acts>>
    BY <1>3 DEF RemovePod, Becomes
  <2> QED BY <1>1, <2>1, DownSound, BecomesKeeps
<1>4. CASE StartContainer(p)
  <2> DEFINE new == [process[p] EXCEPT !.stage = "loading"]
  <2>1. Becomes(p, new) /\ UNCHANGED <<configMap, wanted, acts>> /\ process[p].stage = "down"
    BY <1>4 DEF StartContainer, Becomes
  <2>2. Sound(new)
    BY <1>1, <2>1 DEF Sound, ProcessState, Stage
  <2> QED BY <1>1, <2>1, <2>2, BecomesKeeps
<1>5. CASE LoadSettings(p)
  <2>1. process[p].stage = "loading" /\ Load(p) /\ UNCHANGED <<configMap, wanted>>
    BY <1>5 DEF LoadSettings
  <2>2. PICK settings \in Settings :
           Becomes(p, [process[p] EXCEPT !.stage = "syncing", !.settings = settings])
    BY <2>1, LoadedSettings
  <2> DEFINE new == [process[p] EXCEPT !.stage = "syncing", !.settings = settings]
  <2>3. Sound(new)
    <3>1. /\ new \in ProcessState /\ new.stage = "syncing" /\ new.settings = settings
          /\ settings # None
      BY <1>1, LifecycleAssumption DEF ProcessState, Stage
    <3> HIDE DEF new
    <3> QED BY <2>2, <3>1 DEF Sound
  <2>4. acts' \in [LifecycleAct -> Nat]
    <3>1. "faults" \in LifecycleAct
      BY DEF LifecycleAct
    <3> QED BY <1>1, <2>1, <3>1, SpendActType DEF Load
  <2> HIDE DEF new
  <2>5. Becomes(p, new)
    BY <2>2 DEF new
  <2> QED BY <2>1, <2>3, <2>4, <2>5, BecomesKeeps
<1>6. ASSUME NEW informer \in Informer, SyncInformer(p, informer)
      PROVE  LifecycleInv'
  <2> DEFINE new == [process[p] EXCEPT !.synced = @ \cup {informer}]
  <2>1. Becomes(p, new) /\ UNCHANGED <<configMap, wanted, acts>> /\ process[p].stage = "syncing"
    BY <1>6 DEF SyncInformer, Becomes
  <2>2. Sound(new)
    BY <1>1, <2>1 DEF Sound, ProcessState
  <2> QED BY <1>1, <2>1, <2>2, BecomesKeeps
<1>7. CASE StartWorkers(p)
  <2> DEFINE new == [process[p] EXCEPT !.stage = "running"]
  <2>1. /\ Becomes(p, new) /\ UNCHANGED <<configMap, wanted, acts>>
        /\ process[p].stage = "syncing" /\ process[p].synced = Informer
    BY <1>7 DEF StartWorkers, Becomes
  <2>2. Sound(new)
    BY <1>1, <2>1 DEF Sound, ProcessState, Stage
  <2> QED BY <1>1, <2>1, <2>2, BecomesKeeps
<1> QED BY <1>2, <1>3, <1>4, <1>5, <1>6, <1>7 DEF Advance

LEMMA LifecycleStep ==
    ASSUME LifecycleInv, [LifecycleNext]_lifecycleVars
    PROVE  LifecycleInv'
<1>1. ASSUME NEW new \in ConfigMaps \cup {None}, EditConfigMap(new)
      PROVE  LifecycleInv'
  <2>1. /\ configMap' \in ConfigMap \cup {None}
        /\ UNCHANGED <<wanted, process>>
    BY <1>1, LifecycleAssumption DEF EditConfigMap
  <2>2. acts' \in [LifecycleAct -> Nat]
    BY <1>1, SpendActType DEF EditConfigMap, LifecycleAct
  <2> QED BY <2>1, <2>2 DEF LifecycleInv, LifecycleTypeOK
<1>2. CASE RollOut
  <2>1. acts' \in [LifecycleAct -> Nat]
    BY <1>2, SpendActType DEF RollOut, LifecycleAct
  <2> QED BY <1>2, <2>1 DEF RollOut, LifecycleInv, LifecycleTypeOK
<1>3. ASSUME NEW p \in Process, Advance(p)
      PROVE  LifecycleInv'
  BY <1>3, AdvanceKeeps
<1>4. ASSUME NEW p \in Process, Crash(p)
      PROVE  LifecycleInv'
  <2>1. Becomes(p, Down(process[p].version)) /\ UNCHANGED <<configMap, wanted>>
    BY <1>4 DEF Crash, Becomes
  <2>2. process[p].version \in Nat
    BY DEF LifecycleInv, LifecycleTypeOK, ProcessState
  <2>3. acts' \in [LifecycleAct -> Nat]
    BY <1>4, SpendActType DEF Crash, LifecycleAct
  <2> QED BY <2>1, <2>2, <2>3, DownSound, BecomesKeeps
<1>5. CASE UNCHANGED lifecycleVars
  BY <1>5 DEF lifecycleVars, LifecycleInv, LifecycleTypeOK
<1> QED BY <1>1, <1>2, <1>3, <1>4, <1>5 DEF LifecycleNext

THEOREM LifecycleInvariant == LifecycleSpec => []LifecycleInv
<1>1. LifecycleInit => LifecycleInv
  BY LifecycleStart
<1>2. LifecycleInv /\ [LifecycleNext]_lifecycleVars => LifecycleInv'
  BY LifecycleStep
<1> QED BY <1>1, <1>2, PTL DEF LifecycleSpec

\* Every variable keeps its type, and a process that fills its caches has settings.
THEOREM LifecycleTypeCorrect == LifecycleSpec => []LifecycleTypeOK
<1>1. LifecycleInv => LifecycleTypeOK
  BY DEF LifecycleInv
<1> QED BY <1>1, LifecycleInvariant, PTL

(***************************************************************************)
(* Handing over.                                                           *)
(***************************************************************************)

\* Only a crash or the Deployment takes a process away from its workers.
LEMMA StopsServing ==
    ASSUME LifecycleInv, [LifecycleNext]_lifecycleVars, NEW p \in Process,
           Serving(p), ~Serving(p)'
    PROVE  RemovePod(p) \/ Crash(p)
<1>1. process \in [Process -> ProcessState] /\ process[p].stage = "running"
  BY DEF LifecycleInv, LifecycleTypeOK, Serving
<1>2. process'[p] # process[p]
  BY DEF Serving
<1>3. ~UNCHANGED process
  BY <1>2
<1>4. PICK q \in Process : Advance(q) \/ Crash(q)
  BY <1>3 DEF LifecycleNext, EditConfigMap, RollOut, lifecycleVars
<1>5. q = p
  <2>1. \E new : process' = [process EXCEPT ![q] = new]
    <3>1. CASE Load(q)
      BY <3>1, LoadedSettings DEF Becomes
    <3>2. CASE CreatePod(q) \/ RemovePod(q) \/ StartContainer(q) \/ StartWorkers(q) \/ Crash(q)
               \/ \E informer \in Informer : SyncInformer(q, informer)
      BY <3>2 DEF CreatePod, RemovePod, StartContainer, StartWorkers, Crash, SyncInformer
    <3> QED BY <1>4, <3>1, <3>2 DEF Advance, LoadSettings
  <2> QED BY <1>1, <1>2, <2>1
<1> QED BY <1>1, <1>4, <1>5
    DEF Advance, CreatePod, StartContainer, LoadSettings, SyncInformer, StartWorkers

\* The Deployment removes a process that serves only beside one whose probe is
\* ready: it lacks no cache but that of the nodes.
LEMMA RemovedBesideReady ==
    ASSUME LifecycleInv, NEW p \in Process, Serving(p), RemovePod(p)
    PROVE  \E q \in Process \ {p} :
              /\ process'[q] = process[q]
              /\ process[q].stage \in {"syncing", "running"}
              /\ Informer \ process[q].synced \subseteq {"nodes"}
<1>1. Ready(p)
  BY DEF LifecycleInv, Serving, Ready, SharedInformersState, Informer
<1>2. PICK q \in Process \ {p} : Ready(q)
  BY <1>1 DEF RemovePod
<1>3. process'[q] = process[q]
  BY DEF RemovePod, LifecycleInv, LifecycleTypeOK
<1>4. process[q].synced # {}
  BY <1>2 DEF Ready, SharedInformersState
<1>5. process[q].stage \in {"syncing", "running"}
  BY <1>4 DEF LifecycleInv
<1>6. Informer \ process[q].synced \subseteq {"nodes"}
  BY <1>2 DEF Ready, SharedInformersState, Informer
<1> QED BY <1>3, <1>5, <1>6

\* A rollout, or one rollout on top of another, leaves the cluster without
\* workers only for as long as a new process still fills its node cache.
THEOREM HandedOver == LifecycleSpec => ServingHandedOver
<1> DEFINE Step ==
       (\E p \in Process : Serving(p)) /\ ~(\E p \in Process : Serving(p))'
             /\ acts'["crashes"] = acts["crashes"] =>
                 \E q \in Process : process'[q].stage = "syncing"
                                    /\ Informer \ process'[q].synced \subseteq {"nodes"}
<1>1. LifecycleInv /\ [LifecycleNext]_lifecycleVars => [Step]_lifecycleVars
  <2> SUFFICES ASSUME LifecycleInv, [LifecycleNext]_lifecycleVars, NEW p \in Process, Serving(p),
                      ~(\E q \in Process : Serving(q))', acts'["crashes"] = acts["crashes"]
               PROVE  \E q \in Process : process'[q].stage = "syncing"
                                         /\ Informer \ process'[q].synced \subseteq {"nodes"}
    OBVIOUS
  <2>1. ~Crash(p)
    BY SpendActType DEF Crash, LifecycleAct
  <2>2. ~Serving(p)'
    OBVIOUS
  <2>3. RemovePod(p)
    BY <2>1, <2>2, StopsServing
  <2>4. PICK q \in Process \ {p} :
              /\ process'[q] = process[q]
              /\ process[q].stage \in {"syncing", "running"}
              /\ Informer \ process[q].synced \subseteq {"nodes"}
    BY <2>3, RemovedBesideReady
  <2>5. process'[q].stage # "running"
    BY DEF Serving
  <2> QED BY <2>4, <2>5
<1> HIDE DEF Step
<1>2. LifecycleSpec => [][Step]_lifecycleVars
  BY <1>1, LifecycleInvariant, PTL DEF LifecycleSpec
<1> QED BY <1>2 DEF ServingHandedOver, Step
=============================================================================
