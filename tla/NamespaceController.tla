------------------------ MODULE NamespaceController ------------------------
(***************************************************************************)
(* The namespace half of kotary: every namespace labelled quota=managed    *)
(* gets a claim with the default amounts when it has neither a quota nor a *)
(* claim that is still to be decided.                                      *)
(*                                                                         *)
(* A worker goes through syncHandlerNS one lookup or call at a time:       *)
(*                                                                         *)
(*   idle -> claims -> create -> idle                                      *)
(*                                                                         *)
(* The quota and the claims come from two caches that are fed by two       *)
(* streams and are looked at one after the other.  Taking a namespace and  *)
(* looking for it and its quota are one action: an event that came in      *)
(* between would either have been seen or put the namespace on the queue   *)
(* again.                                                                  *)
(***************************************************************************)
EXTENDS Cluster, WorkQueue

CONSTANTS
    NamespaceWorker,    \* the goroutines running runWorkerNS
    DefaultName,        \* the name of the claims kotary creates
    DefaultClaimSpec    \* the amounts it puts in them

ASSUME NamespaceAssumption ==
    /\ DefaultName \in ClaimName
    /\ DefaultClaimSpec \in Amount
    /\ None \notin Namespace

VARIABLES
    namespaceEvents,    \* the watch stream of namespaces
    namespaceCache,     \* their informer cache
    namespaceQueue,     \* namespaceWorkQueue
    namespaceWorker     \* what each worker is doing

namespaceStore == <<namespaces, namespaceEvents, namespaceCache>>
namespaceVars == <<namespaceStore, namespaceQueue, namespaceWorker>>

NamespacePc == {"idle", "claims", "create"}
IdleNamespaceWorker == [pc |-> "idle", ns |-> None]
Attending(w) == namespaceWorker[w].pc # "idle"

NamespaceTypeOK ==
    /\ namespaces \in [Namespace -> NamespaceState]
    /\ namespaceEvents \in Seq(Event(Namespace, NamespaceState))
    /\ namespaceCache \in [Namespace -> NamespaceState]
    /\ namespaceQueue \in QueueState(Namespace)
    /\ namespaceWorker \in [NamespaceWorker -> [pc : NamespacePc, ns : Namespace \cup {None}]]

NamespaceControllerInit ==
    /\ namespaceEvents = <<>>
    /\ namespaceCache = namespaces
    /\ namespaceQueue = AddAll(EmptyQueue, Present)
    /\ namespaceWorker = [w \in NamespaceWorker |-> IdleNamespaceWorker]

(***************************************************************************)
(* Users create namespaces, label them, take the label off, delete them.   *)
(* A namespace goes when nothing of what was in it is left in the API.     *)
(* The caches may still show what was there, also to a namespace that is   *)
(* created again.                                                          *)
(***************************************************************************)
Emptied(ns) ==
    /\ \A k \in Key : k[1] = ns => claims[k] = None
    /\ quotas[ns] = None
    /\ \A p \in PodsOf(ns) : pods[p] = "Absent"

ChangeNamespace(ns, state) ==
    /\ namespaces[ns] # state
    /\ state = "absent" => Emptied(ns)
    /\ Spend("namespaces")
    /\ namespaces' = [namespaces EXCEPT ![ns] = state]
    /\ namespaceEvents' = Append(namespaceEvents, [name |-> ns, object |-> state])
    /\ UNCHANGED <<claimStore, quotaStore, podStore, nodeStore, caches,
                   namespaceCache, namespaceQueue, namespaceWorker>>

(***************************************************************************)
(* Handlers.  A namespace is queued when it appears, when it changes, and  *)
(* at every resync, for its update handler does not compare versions.      *)
(***************************************************************************)
\* Wrong: the namespace is queued under the key of its default claim.
enqueueDefault(ns) == namespaceQueue' = Add(namespaceQueue, <<ns, DefaultName>>)

enqueueNamespace(ns) == namespaceQueue' = Add(namespaceQueue, ns)

DeliverNamespace ==
    /\ namespaceEvents # <<>>
    /\ namespaceCache' = Deliver(namespaceCache, namespaceEvents)
    /\ namespaceEvents' = Tail(namespaceEvents)
    /\ LET event == Head(namespaceEvents)
       IN  IF event.object # "absent" THEN enqueueNamespace(event.name)
           ELSE UNCHANGED namespaceQueue
    /\ UNCHANGED <<clusterVars, namespaces, namespaceWorker>>

\* Wrong: a namespace that has not changed is not queued again.
ResyncChanged(ns) ==
    /\ namespaceCache[ns] # "absent"
    /\ IF claimEvents = <<>> /\ quotaEvents = <<>> THEN UNCHANGED budget ELSE Spend("resyncs")
    /\ UNCHANGED <<claimStore, quotaStore, podStore, nodeStore, caches,
                   namespaceStore, namespaceQueue, namespaceWorker>>

\* A resync comes every half hour.  The bound "resyncs" counts only those that
\* overtake a claim or quota event.
Resync(ns) ==
    /\ namespaceCache[ns] # "absent"
    /\ enqueueNamespace(ns)
    /\ IF claimEvents = <<>> /\ quotaEvents = <<>> THEN UNCHANGED budget ELSE Spend("resyncs")
    /\ UNCHANGED <<claimStore, quotaStore, podStore, nodeStore, caches,
                   namespaceStore, namespaceWorker>>

RetryNamespace(ns) ==
    /\ ns \in namespaceQueue.waiting
    /\ namespaceQueue' = AddAfterBackoff(namespaceQueue, ns)
    /\ UNCHANGED <<clusterVars, namespaceStore, namespaceWorker>>

(***************************************************************************)
(* processNextWorkNS and syncHandlerNS: take a namespace, handle it, and   *)
(* afterwards either forget it or put it back with a back-off.             *)
(***************************************************************************)
hasTargetedLabel(ns) == namespaceCache[ns] = "managed"

hasResourceQuota(ns) == quotaCache[ns] # None /\ quotaCache[ns].labelled

\* Wrong: a claim that was refused keeps the default away.
hasClaim(ns) == \E k \in Key : k[1] = ns /\ claimCache[k] # None

\* A claim is unevaluated while it has no verdict or is PENDING.
hasUnevaluatedClaim(ns) ==
    \E k \in Key : /\ k[1] = ns
                   /\ claimCache[k] # None
                   /\ claimCache[k].status.phase \notin {"REJECTED", "ACCEPTED"}

\* The first lookups: not there, not labelled, or served already.
NothingToDo(ns) == ~hasTargetedLabel(ns) \/ hasResourceQuota(ns)

TakeNamespace(w, ns) ==
    /\ ~Attending(w)
    /\ ns \in Queued(namespaceQueue)
    /\ \/ /\ ~NothingToDo(ns)
          /\ namespaceQueue' = Get(namespaceQueue, ns)
          /\ namespaceWorker' = [namespaceWorker EXCEPT ![w] = [pc |-> "claims", ns |-> ns]]
       \/ /\ NothingToDo(ns)
          /\ namespaceQueue' = Done(Get(namespaceQueue, ns), ns)
          /\ UNCHANGED namespaceWorker
    /\ UNCHANGED <<clusterVars, namespaceStore>>

Leave(w) ==
    /\ namespaceWorker' = [namespaceWorker EXCEPT ![w] = IdleNamespaceWorker]
    /\ namespaceQueue' = Done(namespaceQueue, namespaceWorker[w].ns)

LeaveForRetry(w) ==
    /\ namespaceWorker' = [namespaceWorker EXCEPT ![w] = IdleNamespaceWorker]
    /\ namespaceQueue' = Done(AddRateLimited(namespaceQueue, namespaceWorker[w].ns),
                              namespaceWorker[w].ns)

LookForClaims(w) ==
    LET ns == namespaceWorker[w].ns
    IN  /\ namespaceWorker[w].pc = "claims"
        /\ \/ hasUnevaluatedClaim(ns) /\ Leave(w)
           \/ /\ ~hasUnevaluatedClaim(ns)
              /\ namespaceWorker' = [namespaceWorker EXCEPT ![w].pc = "create"]
              /\ UNCHANGED namespaceQueue
        /\ UNCHANGED <<clusterVars, namespaceStore>>

defaultKey(w) == <<namespaceWorker[w].ns, DefaultName>>

\* Wrong: a default that is already there counts as a failure.
RetryExisting(w) ==
    /\ claims[defaultKey(w)] # None
    /\ LeaveForRetry(w)
    /\ UNCHANGED <<claimStore, budget>>

\* A default that is already there is left as it is.
SkipExisting(w) ==
    /\ claims[defaultKey(w)] # None
    /\ Leave(w)
    /\ UNCHANGED <<claimStore, budget>>

newDefaultResourceQuotaClaim(w) == PutClaim(defaultKey(w), DefaultClaimSpec, NoStatus)

\* The call may take effect and have its answer lost.
CreateDefault(w) ==
    /\ claims[defaultKey(w)] = None
    /\ namespaceWorker[w].ns \in Present
    /\ newDefaultResourceQuotaClaim(w)
    /\ \/ Leave(w) /\ UNCHANGED budget
       \/ LeaveForRetry(w) /\ Spend("faults")

\* The call has no effect: the namespace is gone, or the call fails.
FailToCreate(w) ==
    /\ LeaveForRetry(w)
    /\ IF namespaceWorker[w].ns \in Present THEN Spend("faults") ELSE UNCHANGED budget
    /\ UNCHANGED claimStore

CallCreate(w) ==
    /\ namespaceWorker[w].pc = "create"
    /\ CreateDefault(w) \/ SkipExisting(w) \/ FailToCreate(w)
    /\ UNCHANGED <<quotaStore, podStore, nodeStore, caches, namespaceStore>>

NamespaceWorkerStep(w) == LookForClaims(w) \/ CallCreate(w)

NamespaceControllerStep ==
    \/ \E ns \in Namespace : \/ \E state \in NamespaceState : ChangeNamespace(ns, state)
                             \/ Resync(ns) \/ RetryNamespace(ns)
    \/ DeliverNamespace
    \/ \E w \in NamespaceWorker : \/ \E ns \in Namespace : TakeNamespace(w, ns)
                                  \/ NamespaceWorkerStep(w)

\* The process dies and comes back: every namespace is reported as new.
RestartNamespaces ==
    /\ namespaceEvents' = <<>>
    /\ namespaceCache' = namespaces
    /\ namespaceQueue' = AddAll(EmptyQueue, Present)
    /\ namespaceWorker' = [w \in NamespaceWorker |-> IdleNamespaceWorker]
    /\ UNCHANGED namespaces
=============================================================================
