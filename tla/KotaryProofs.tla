---------------------------- MODULE KotaryProofs ----------------------------
(***************************************************************************)
(* Proofs about the whole controller.  What the claim half promises it     *)
(* promises beside the namespace half as well: to the claim half a step of *)
(* the namespace half is one that creates the default claim of a namespace *)
(* and touches nothing else, or one that only uses up an act.              *)
(***************************************************************************)
EXTENDS Kotary, HandlingProofs, SightingProofs, LedgerProofs

(***************************************************************************)
(* The namespace half.  A worker holds its namespace in the queue's        *)
(* processing set, and no two workers hold the same one.                   *)
(***************************************************************************)
NamespaceHeld ==
    \A w \in NamespaceWorker :
        Attending(w) => namespaceWorker[w].ns \in namespaceQueue.processing

NamespacesApart ==
    \A v, w \in NamespaceWorker :
        v # w /\ Attending(v) /\ Attending(w) => namespaceWorker[v].ns # namespaceWorker[w].ns

NamespaceInv == NamespaceTypeOK /\ NamespaceHeld /\ NamespacesApart

NamespaceWorkerState == [pc : NamespacePc, ns : Namespace \cup {None}]

LEMMA NamespaceQueueTypes ==
    ASSUME NEW q \in QueueState(Namespace), NEW ns \in Namespace
    PROVE  /\ Add(q, ns) \in QueueState(Namespace)
           /\ AddAfterBackoff(q, ns) \in QueueState(Namespace)
           /\ Get(q, ns) \in QueueState(Namespace)
           /\ Done(q, ns) \in QueueState(Namespace)
           /\ AddRateLimited(q, ns) \in QueueState(Namespace)
BY DEF QueueState, AddAll, Add, Get, Done, AddRateLimited, AddAfterBackoff

LEMMA NamespaceQueueProcessing ==
    ASSUME NEW q \in QueueState(Namespace), NEW ns \in Namespace
    PROVE  /\ Add(q, ns).processing = q.processing
           /\ AddAfterBackoff(q, ns).processing = q.processing
           /\ Get(q, ns).processing = q.processing \cup {ns}
           /\ Done(q, ns).processing = q.processing \ {ns}
           /\ AddRateLimited(q, ns).processing = q.processing
BY DEF QueueState, AddAll, Add, Get, Done, AddRateLimited, AddAfterBackoff

\* Nobody gains or loses a namespace.
LEMMA WorkersStay ==
    ASSUME NamespaceInv, UNCHANGED namespaceWorker,
           namespaceQueue' \in QueueState(Namespace),
           namespaceQueue'.processing = namespaceQueue.processing,
           namespaces' \in [Namespace -> NamespaceState],
           namespaceEvents' \in Seq(Event(Namespace, NamespaceState)),
           namespaceCache' \in [Namespace -> NamespaceState]
    PROVE  NamespaceInv'
BY DEF NamespaceInv, NamespaceTypeOK, NamespaceHeld, NamespacesApart, Attending

\* A worker that attends to a namespace leaves it.
LEMMA WorkerLeaves ==
    ASSUME NamespaceInv, NEW w \in NamespaceWorker, Attending(w), Leave(w) \/ LeaveForRetry(w),
           UNCHANGED namespaceStore
    PROVE  NamespaceInv'
<1> DEFINE ns == namespaceWorker[w].ns
<1>1. /\ namespaceQueue \in QueueState(Namespace)
      /\ namespaceWorker \in [NamespaceWorker -> NamespaceWorkerState]
      /\ ns \in namespaceQueue.processing
  BY DEF NamespaceInv, NamespaceTypeOK, NamespaceHeld, NamespaceWorkerState
<1>2. ns \in Namespace
  BY <1>1 DEF QueueState
<1>3. /\ namespaceQueue' \in QueueState(Namespace)
      /\ namespaceQueue'.processing = namespaceQueue.processing \ {ns}
  <2>1. CASE Leave(w)
    BY <1>1, <1>2, <2>1, NamespaceQueueTypes, NamespaceQueueProcessing DEF Leave
  <2>2. CASE LeaveForRetry(w)
    <3> DEFINE later == AddRateLimited(namespaceQueue, ns)
    <3>1. later \in QueueState(Namespace) /\ later.processing = namespaceQueue.processing
      BY <1>1, <1>2, NamespaceQueueTypes, NamespaceQueueProcessing
    <3>2. namespaceQueue' = Done(later, ns)
      BY <2>2 DEF LeaveForRetry
    <3> HIDE DEF later
    <3>3. Done(later, ns) \in QueueState(Namespace)
      BY <1>2, <3>1, NamespaceQueueTypes
    <3>4. Done(later, ns).processing = later.processing \ {ns}
      BY <1>2, <3>1, NamespaceQueueProcessing
    <3> QED BY <3>1, <3>2, <3>3, <3>4
  <2> QED BY <2>1, <2>2
<1>4. namespaceWorker' = [namespaceWorker EXCEPT ![w] = IdleNamespaceWorker]
  BY DEF Leave, LeaveForRetry
<1>5. IdleNamespaceWorker \in NamespaceWorkerState /\ IdleNamespaceWorker.pc = "idle"
  BY DEF IdleNamespaceWorker, NamespaceWorkerState, NamespacePc
<1>6. /\ namespaceWorker' \in [NamespaceWorker -> NamespaceWorkerState]
      /\ namespaceWorker'[w].pc = "idle"
      /\ \A v \in NamespaceWorker \ {w} : namespaceWorker'[v] = namespaceWorker[v]
  BY <1>1, <1>4, <1>5
<1>7. NamespaceTypeOK'
  BY <1>3, <1>6 DEF NamespaceInv, NamespaceTypeOK, NamespaceWorkerState, namespaceStore
<1>8. NamespaceHeld'
  <2> SUFFICES ASSUME NEW v \in NamespaceWorker \ {w}, Attending(v)
               PROVE  namespaceWorker[v].ns \in namespaceQueue'.processing
    BY <1>6 DEF NamespaceHeld, Attending
  <2> QED BY <1>3 DEF NamespaceInv, NamespaceHeld, NamespacesApart
<1>9. NamespacesApart'
  BY <1>6 DEF NamespaceInv, NamespacesApart, Attending
<1> QED BY <1>7, <1>8, <1>9 DEF NamespaceInv

\* An idle worker takes a namespace nobody attends to.
LEMMA WorkerTakes ==
    ASSUME NamespaceInv, NEW w \in NamespaceWorker, NEW ns \in Namespace, TakeNamespace(w, ns)
    PROVE  NamespaceInv'
<1> DEFINE taken == Get(namespaceQueue, ns)
           new == [pc |-> "claims", ns |-> ns]
<1>1. /\ namespaceQueue \in QueueState(Namespace)
      /\ namespaceWorker \in [NamespaceWorker -> NamespaceWorkerState]
      /\ ns \notin namespaceQueue.processing
      /\ UNCHANGED namespaceStore
  BY DEF NamespaceInv, NamespaceTypeOK, NamespaceWorkerState, TakeNamespace, Queued
<1>2. taken \in QueueState(Namespace) /\ taken.processing = namespaceQueue.processing \cup {ns}
  BY <1>1, NamespaceQueueTypes, NamespaceQueueProcessing
<1>3. new \in NamespaceWorkerState /\ new.pc = "claims" /\ new.ns = ns
  BY DEF NamespaceWorkerState, NamespacePc
<1>4. \/ namespaceQueue' = taken /\ namespaceWorker' = [namespaceWorker EXCEPT ![w] = new]
      \/ namespaceQueue' = Done(taken, ns) /\ UNCHANGED namespaceWorker
  BY DEF TakeNamespace
<1> HIDE DEF taken, new
<1>5. CASE namespaceQueue' = taken /\ namespaceWorker' = [namespaceWorker EXCEPT ![w] = new]
  <2>1. /\ namespaceWorker' \in [NamespaceWorker -> NamespaceWorkerState]
        /\ namespaceWorker'[w] = new
        /\ \A v \in NamespaceWorker \ {w} : namespaceWorker'[v] = namespaceWorker[v]
    BY <1>1, <1>3, <1>5
  <2>2. NamespaceTypeOK'
    BY <1>1, <1>2, <1>5, <2>1
       DEF NamespaceInv, NamespaceTypeOK, NamespaceWorkerState, namespaceStore
  <2>3. NamespaceHeld'
    <3> SUFFICES ASSUME NEW v \in NamespaceWorker, Attending(v)'
                 PROVE  namespaceWorker'[v].ns \in namespaceQueue'.processing
      BY DEF NamespaceHeld
    <3>1. CASE v = w
      BY <1>2, <1>3, <1>5, <2>1, <3>1
    <3>2. CASE v # w
      BY <1>2, <1>5, <2>1, <3>2 DEF NamespaceInv, NamespaceHeld, Attending
    <3> QED BY <3>1, <3>2
  <2>4. \A v \in NamespaceWorker \ {w} : Attending(v) => namespaceWorker[v].ns # ns
    BY <1>1 DEF NamespaceInv, NamespaceHeld
  <2>5. NamespacesApart'
    BY <1>3, <2>1, <2>4 DEF NamespaceInv, NamespacesApart, Attending
  <2> QED BY <2>2, <2>3, <2>5 DEF NamespaceInv
<1>6. CASE namespaceQueue' = Done(taken, ns) /\ UNCHANGED namespaceWorker
  <2>1. /\ namespaceQueue' \in QueueState(Namespace)
        /\ namespaceQueue'.processing = namespaceQueue.processing
    <3>1. Done(taken, ns) \in QueueState(Namespace)
      BY <1>2, NamespaceQueueTypes
    <3>2. Done(taken, ns).processing = taken.processing \ {ns}
      BY <1>2, NamespaceQueueProcessing
    <3> QED BY <1>1, <1>2, <1>6, <3>1, <3>2
  <2> QED BY <1>1, <1>6, <2>1, WorkersStay DEF NamespaceInv, NamespaceTypeOK, namespaceStore
<1> QED BY <1>4, <1>5, <1>6

LEMMA NamespaceStepKeeps ==
    ASSUME NamespaceInv, NamespaceControllerStep
    PROVE  NamespaceInv'
<1>1. /\ namespaces \in [Namespace -> NamespaceState]
      /\ namespaceEvents \in Seq(Event(Namespace, NamespaceState))
      /\ namespaceCache \in [Namespace -> NamespaceState]
      /\ namespaceQueue \in QueueState(Namespace)
      /\ namespaceWorker \in [NamespaceWorker -> NamespaceWorkerState]
  BY DEF NamespaceInv, NamespaceTypeOK, NamespaceWorkerState
<1>2. ASSUME NEW ns \in Namespace, NEW state \in NamespaceState, ChangeNamespace(ns, state)
      PROVE  NamespaceInv'
  <2>1. [name |-> ns, object |-> state] \in Event(Namespace, NamespaceState)
    BY DEF Event
  <2>2. /\ namespaces' \in [Namespace -> NamespaceState]
        /\ namespaceEvents' \in Seq(Event(Namespace, NamespaceState))
    BY <1>1, <1>2, <2>1, AppendProperties DEF ChangeNamespace
  <2> QED BY <1>1, <1>2, <2>2, WorkersStay DEF ChangeNamespace
<1>3. ASSUME NEW ns \in Namespace, Resync(ns) \/ RetryNamespace(ns)
      PROVE  NamespaceInv'
  <2>1. UNCHANGED <<namespaceStore, namespaceWorker>>
    BY <1>3 DEF Resync, RetryNamespace
  <2>2. /\ namespaceQueue' \in QueueState(Namespace)
        /\ namespaceQueue'.processing = namespaceQueue.processing
    <3>1. \/ namespaceQueue' = Add(namespaceQueue, ns)
          \/ namespaceQueue' = AddAfterBackoff(namespaceQueue, ns)
      BY <1>3 DEF Resync, RetryNamespace, enqueueNamespace
    <3>2. namespaceQueue' \in QueueState(Namespace)
      BY <1>1, <3>1, NamespaceQueueTypes
    <3>3. namespaceQueue'.processing = namespaceQueue.processing
      BY <1>1, <3>1, NamespaceQueueProcessing
    <3> QED BY <3>2, <3>3
  <2> QED BY <1>1, <2>1, <2>2, WorkersStay DEF namespaceStore
<1>4. CASE DeliverNamespace
  <2>1. /\ namespaceCache' \in [Namespace -> NamespaceState]
        /\ namespaceEvents' \in Seq(Event(Namespace, NamespaceState))
        /\ Head(namespaceEvents).name \in Namespace
    BY <1>1, <1>4, DeliverType DEF DeliverNamespace
  <2>2. /\ namespaceQueue' \in QueueState(Namespace)
        /\ namespaceQueue'.processing = namespaceQueue.processing
    <3> DEFINE ns == Head(namespaceEvents).name
    <3>1. namespaceQueue' = Add(namespaceQueue, ns) \/ UNCHANGED namespaceQueue
      BY <1>4 DEF DeliverNamespace, enqueueNamespace
    <3> HIDE DEF ns
    <3>2. ns \in Namespace
      BY <2>1 DEF ns
    <3>3. namespaceQueue' \in QueueState(Namespace)
      BY <1>1, <3>1, <3>2, NamespaceQueueTypes
    <3>4. namespaceQueue'.processing = namespaceQueue.processing
      BY <1>1, <3>1, <3>2, NamespaceQueueProcessing
    <3> QED BY <3>3, <3>4
  <2> QED BY <1>1, <1>4, <2>1, <2>2, WorkersStay DEF DeliverNamespace
<1>5. ASSUME NEW w \in NamespaceWorker, LookForClaims(w)
      PROVE  NamespaceInv'
  <2>1. namespaceWorker[w].pc = "claims" /\ Attending(w) /\ UNCHANGED namespaceStore
    BY <1>5 DEF LookForClaims, Attending
  <2>2. CASE Leave(w)
    BY <2>1, <2>2, WorkerLeaves
  <2>3. CASE namespaceWorker' = [namespaceWorker EXCEPT ![w].pc = "create"] /\ UNCHANGED namespaceQueue
    <3>1. /\ namespaceWorker' \in [NamespaceWorker -> NamespaceWorkerState]
          /\ \A v \in NamespaceWorker : /\ namespaceWorker'[v].ns = namespaceWorker[v].ns
                                        /\ Attending(v)' => Attending(v)
      BY <1>1, <2>1, <2>3 DEF NamespaceWorkerState, NamespacePc, Attending
    <3> QED BY <2>1, <2>3, <3>1 DEF NamespaceInv, NamespaceTypeOK, NamespaceWorkerState,
                                     NamespaceHeld, NamespacesApart, namespaceStore
  <2> QED BY <1>5, <2>2, <2>3 DEF LookForClaims
<1>6. ASSUME NEW w \in NamespaceWorker, CallCreate(w)
      PROVE  NamespaceInv'
  <2>1. /\ Attending(w) /\ UNCHANGED namespaceStore
        /\ Leave(w) \/ LeaveForRetry(w)
    BY <1>6 DEF CallCreate, CreateDefault, SkipExisting, FailToCreate, Attending
  <2> QED BY <2>1, WorkerLeaves
<1> QED BY <1>2, <1>3, <1>4, <1>5, <1>6, WorkerTakes DEF NamespaceControllerStep, NamespaceWorkerStep

LEMMA NamespacesRelisted ==
    ASSUME namespaces' \in [Namespace -> NamespaceState],
           namespaceEvents' = <<>>, namespaceCache' = namespaces',
           namespaceQueue' = AddAll(EmptyQueue, Present)',
           namespaceWorker' = [w \in NamespaceWorker |-> IdleNamespaceWorker]
    PROVE  NamespaceInv'
<1>1. namespaceQueue' \in QueueState(Namespace)
  BY DEF QueueState, AddAll, EmptyQueue, Present
<1>2. \A w \in NamespaceWorker : /\ namespaceWorker'[w] \in NamespaceWorkerState
                                 /\ namespaceWorker'[w].pc = "idle"
  BY DEF IdleNamespaceWorker, NamespaceWorkerState, NamespacePc
<1>3. NamespaceTypeOK'
  BY <1>1, <1>2, EmptySeq DEF NamespaceTypeOK, NamespaceWorkerState
<1> QED BY <1>2, <1>3 DEF NamespaceInv, NamespaceHeld, NamespacesApart, Attending

LEMMA NamespaceInit ==
    ASSUME KotaryInit
    PROVE  NamespaceInv
<1>1. namespaceQueue \in QueueState(Namespace)
  BY DEF KotaryInit, NamespaceControllerInit, QueueState, AddAll, EmptyQueue, Present
<1>2. \A w \in NamespaceWorker : /\ namespaceWorker[w] \in NamespaceWorkerState
                                 /\ namespaceWorker[w].pc = "idle"
  BY DEF KotaryInit, NamespaceControllerInit, IdleNamespaceWorker, NamespaceWorkerState, NamespacePc
<1>3. NamespaceTypeOK
  BY <1>1, <1>2, EmptySeq, ClusterAssumption
     DEF KotaryInit, ClaimControllerInit, ClusterInit, NamespaceControllerInit, NamespaceTypeOK, NamespaceWorkerState
<1> QED BY <1>2, <1>3 DEF NamespaceInv, NamespaceHeld, NamespacesApart, Attending

LEMMA NamespaceStep ==
    ASSUME NamespaceInv, [KotaryNext]_kotaryVars
    PROVE  NamespaceInv'
<1>1. CASE UNCHANGED namespaceVars
  BY <1>1, WorkersStay DEF NamespaceInv, NamespaceTypeOK, namespaceVars, namespaceStore
<1>2. CASE RestartNamespaces
  <2>1. AddAll(EmptyQueue, Present) = AddAll(EmptyQueue, Present)'
    BY <1>2 DEF RestartNamespaces, AddAll, EmptyQueue, Present
  <2> QED BY <1>2, <2>1, NamespacesRelisted DEF RestartNamespaces, NamespaceInv, NamespaceTypeOK
<1> QED BY <1>1, <1>2, NamespaceStepKeeps DEF KotaryNext, kotaryVars

(***************************************************************************)
(* What the claim half sees of a step.                                     *)
(***************************************************************************)

\* The default claim of a namespace that has no claim of that name.
DefaultStep(key) ==
    /\ claims[key] = None
    /\ PutClaim(key, DefaultClaimSpec, NoStatus)
    /\ UNCHANGED <<quotaStore, podStore, nodeStore, caches, controllerVars>>
    /\ budget' \in [Act -> Nat]

\* An act of the environment on a namespace.
BudgetStep ==
    /\ UNCHANGED <<claimStore, quotaStore, podStore, nodeStore, caches, controllerVars>>
    /\ budget' \in [Act -> Nat]

LEMMA HalfStep ==
    ASSUME ClusterTypeOK, NamespaceInv, [KotaryNext]_kotaryVars
    PROVE  \/ [ClaimControllerNext]_vars
           \/ BudgetStep
           \/ \E key \in Key : DefaultStep(key)
<1>1. {"namespaces", "resyncs", "faults"} \subseteq Act /\ budget \in [Act -> Nat]
  BY DEF Act, ClusterTypeOK
<1>2. ASSUME NEW ns \in Namespace, NEW state \in NamespaceState, ChangeNamespace(ns, state),
             UNCHANGED controllerVars
      PROVE  BudgetStep
  <2>1. budget' \in [Act -> Nat]
    BY <1>1, <1>2, SpendType DEF ChangeNamespace
  <2> QED BY <1>2, <2>1 DEF ChangeNamespace, BudgetStep
<1>3. ASSUME NEW ns \in Namespace, Resync(ns), UNCHANGED controllerVars
      PROVE  BudgetStep
  <2>1. budget' \in [Act -> Nat]
    BY <1>1, <1>3, SpendType DEF Resync
  <2> QED BY <1>3, <2>1 DEF Resync, BudgetStep
<1>4. ASSUME NEW w \in NamespaceWorker, CallCreate(w), UNCHANGED controllerVars
      PROVE  BudgetStep \/ \E key \in Key : DefaultStep(key)
  <2>1. defaultKey(w) \in Key
    <3>1. namespaceWorker[w].ns \in Namespace
      BY <1>4 DEF CallCreate, NamespaceInv, NamespaceTypeOK, NamespaceHeld, Attending, QueueState
    <3> QED BY <3>1, NamespaceAssumption DEF defaultKey, Key
  <2>2. budget' \in [Act -> Nat]
    BY <1>1, <1>4, SpendType DEF CallCreate, CreateDefault, SkipExisting, FailToCreate
  <2>3. CASE CreateDefault(w)
    <3>1. DefaultStep(defaultKey(w))
      BY <1>4, <2>2, <2>3 DEF CallCreate, CreateDefault, newDefaultResourceQuotaClaim, DefaultStep
    <3> QED BY <2>1, <3>1
  <2>4. CASE SkipExisting(w) \/ FailToCreate(w)
    BY <1>4, <2>2, <2>4 DEF CallCreate, SkipExisting, FailToCreate, BudgetStep
  <2> QED BY <1>4, <2>3, <2>4 DEF CallCreate
<1>5. CASE /\ \/ \E ns \in Namespace : RetryNamespace(ns)
              \/ DeliverNamespace
              \/ \E w \in NamespaceWorker, ns \in Namespace : TakeNamespace(w, ns)
              \/ \E w \in NamespaceWorker : LookForClaims(w)
           /\ UNCHANGED controllerVars
  <2>1. UNCHANGED vars
    BY <1>5 DEF RetryNamespace, DeliverNamespace, TakeNamespace, LookForClaims,
                vars, claimVars, namespaceStore
  <2> QED BY <2>1
<1>6. CASE NamespaceControllerStep /\ UNCHANGED controllerVars
  BY <1>2, <1>3, <1>4, <1>5, <1>6 DEF NamespaceControllerStep, NamespaceWorkerStep
<1> QED BY <1>6 DEF KotaryNext, ClaimControllerNext, RestartNamespaces,
                    kotaryVars, namespaceVars, namespaceStore

(***************************************************************************)
(* Types, mutual exclusion and the limit.                                  *)
(***************************************************************************)
BothInv == CoreInv /\ NamespaceInv

LEMMA WorkKept ==
    ASSUME CoreInv, UNCHANGED controllerVars
    PROVE  WorkInv'
BY DEF CoreInv, WorkInv, ControllerTypeOK, WorkerHolds, NeverConcurrent, Busy, controllerVars

LEMMA DefaultKeepsCore ==
    ASSUME CoreInv, NEW key \in Key, DefaultStep(key)
    PROVE  CoreInv'
<1>1. /\ claims' \in [Key -> Claim \cup {None}]
      /\ revision' \in [Key -> Nat]
      /\ claimEvents' \in Seq(Event(Key, Claim \cup {None}))
  BY NamespaceAssumption, StatusTypes, PutClaimType DEF DefaultStep, CoreInv
<1>2. ClusterTypeOK'
  BY <1>1 DEF DefaultStep, CoreInv, ClusterTypeOK, quotaStore, podStore, nodeStore, caches
<1> QED BY <1>2, WorkKept DEF DefaultStep, CoreInv

LEMMA BudgetKeepsCore ==
    ASSUME CoreInv, BudgetStep
    PROVE  CoreInv'
<1>1. ClusterTypeOK'
  BY DEF BudgetStep, CoreInv, ClusterTypeOK, claimStore, quotaStore, podStore, nodeStore, caches
<1> QED BY <1>1, WorkKept DEF BudgetStep, CoreInv

LEMMA BothStep ==
    ASSUME BothInv, [KotaryNext]_kotaryVars
    PROVE  BothInv'
BY HalfStep, CoreStep, DefaultKeepsCore, BudgetKeepsCore, NamespaceStep DEF BothInv, CoreInv

THEOREM BothInvariant == KotarySafety => []BothInv
<1>1. KotaryInit => BothInv
  BY CoreInit, NamespaceInit DEF KotaryInit, BothInv
<1>2. BothInv /\ [KotaryNext]_kotaryVars => BothInv'
  BY BothStep
<1> QED BY <1>1, <1>2, PTL DEF KotarySafety

\* Every variable of both halves keeps its type, whatever the users, the API
\* server and the other half do.
THEOREM KotaryTypeCorrect == KotarySafety => []KotaryTypeOK
<1>1. BothInv => KotaryTypeOK
  BY DEF BothInv, CoreInv, WorkInv, NamespaceInv, KotaryTypeOK
<1> QED BY <1>1, BothInvariant, PTL

\* Two workers never handle the same claim, nor the same namespace.
THEOREM WorkersApart == KotarySafety => [](NeverConcurrent /\ NamespacesApart)
<1>1. BothInv => NeverConcurrent /\ NamespacesApart
  BY DEF BothInv, CoreInv, WorkInv, NamespaceInv
<1> QED BY <1>1, BothInvariant, PTL

LEMMA LimitHalfStep ==
    ASSUME BothInv, LimitInv, [KotaryNext]_kotaryVars
    PROVE  LimitInv'
<1>1. CASE UNCHANGED <<quotas, worker>>
  BY <1>1 DEF LimitInv, QuotaWithinAllocationLimit
<1> QED BY <1>1, HalfStep, LimitStep
        DEF BothInv, CoreInv, DefaultStep, BudgetStep, quotaStore, controllerVars

\* No quota exceeds the limit of one namespace, default claims included.
THEOREM KotaryLimitHolds == KotarySafety => []QuotaWithinAllocationLimit
<1>1. KotaryInit => LimitInv
  BY LimitInit DEF KotaryInit
<1>2. BothInv /\ LimitInv /\ [KotaryNext]_kotaryVars => LimitInv'
  BY LimitHalfStep
<1>3. LimitInv => QuotaWithinAllocationLimit
  BY DEF LimitInv
<1> QED BY <1>1, <1>2, <1>3, BothInvariant, PTL DEF KotarySafety

(***************************************************************************)
(* No claim is forgotten, the default claims among them.                   *)
(***************************************************************************)
LEMMA HandledHalfStep ==
    ASSUME BothInv, HandledInv, [KotaryNext]_kotaryVars
    PROVE  HandledInv'
<1>1. ASSUME UNCHANGED <<claimCache, claimQueue, worker, judged>>, StreamInv'
      PROVE  HandledInv'
  BY <1>1 DEF HandledInv, StaleInv, KnownInv, PastReading
<1>2. ASSUME NEW key \in Key, DefaultStep(key)
      PROVE  HandledInv'
  <2> DEFINE object == [spec |-> DefaultClaimSpec, status |-> NoStatus, version |-> revision[key] + 1]
  <2>1. object \in Claim \cup {None}
    BY NamespaceAssumption, StatusTypes DEF BothInv, CoreInv, ClusterTypeOK, Claim
  <2>2. /\ claims' = [claims EXCEPT ![key] = object]
        /\ claimEvents' = Append(claimEvents, [name |-> key, object |-> object])
        /\ UNCHANGED <<claimCache, claimQueue, worker, judged>>
    BY <1>2 DEF DefaultStep, PutClaim, caches, controllerVars
  <2> HIDE DEF object
  <2>3. StreamInv'
    BY <2>1, <2>2, WriteKeepsStream DEF BothInv, HandledInv
  <2> QED BY <1>1, <2>2, <2>3
<1>3. CASE BudgetStep
  <2>1. UNCHANGED <<claims, claimEvents, claimCache, claimQueue, worker, judged>>
    BY <1>3 DEF BudgetStep, claimStore, caches, controllerVars
  <2> QED BY <1>1, <2>1 DEF HandledInv, StreamInv
<1>4. CASE [ClaimControllerNext]_vars
  BY <1>4, StreamStep, QueueStep DEF BothInv, HandledInv, QueueInv
<1> QED BY <1>2, <1>3, <1>4, HalfStep DEF BothInv, CoreInv

\* A claim whose latest version has not been handled is on its way to a worker,
\* whether a user wrote it or the namespace half.
THEOREM KotaryForgetsNothing == KotarySafety => []NoForgottenClaim
<1>1. KotaryInit => HandledInv
  BY HandledInit DEF KotaryInit
<1>2. BothInv /\ HandledInv /\ [KotaryNext]_kotaryVars => HandledInv'
  BY HandledHalfStep
<1>3. BothInv /\ HandledInv => NoForgottenClaim
  BY HandledMeansKnown DEF BothInv
<1> QED BY <1>1, <1>2, <1>3, BothInvariant, PTL DEF KotarySafety

(***************************************************************************)
(* Verdicts land on the spec they were reached for.                        *)
(***************************************************************************)
LEMMA DefaultKeepsVersions ==
    ASSUME CoreInv, VersionInv, NEW key \in Key, DefaultStep(key)
    PROVE  VersionInv'
<1> SUFFICES ASSUME NEW k \in Key, NEW x, NEW y, Seen(k, x)', Seen(k, y)'
             PROVE  /\ x.version <= revision'[k]
                    /\ x.version = y.version => x.spec = y.spec
  BY DEF VersionInv
<1>1. UNCHANGED <<claimCache, worker>>
  BY DEF DefaultStep, caches, controllerVars
<1>2. revision[k] \in Nat /\ revision'[k] \in Nat /\ revision[k] <= revision'[k]
  BY DEF DefaultStep, PutClaim, CoreInv, ClusterTypeOK
<1>3. ASSUME NEW z, Seen(k, z)'
      PROVE  Seen(k, z) \/ Written(k, z)
  <2>1. Held(k, z)' => Held(k, z)
    BY <1>1 DEF Held, Busy
  <2>2. Shown(k, z)' => Shown(k, z) \/ Written(k, z)
    BY <1>1, NamespaceAssumption, StatusTypes, PutStored DEF DefaultStep, CoreInv
  <2> QED BY <1>3, <2>1, <2>2 DEF Seen
<1>4. ASSUME NEW z, Seen(k, z)
      PROVE  z.version \in Nat /\ z.version <= revision[k]
  <2>1. z \in Claim
    BY <1>4, SeenIsClaim
  <2> QED BY <1>4, <2>1 DEF VersionInv, Claim
<1>5. CASE Seen(k, x) /\ Seen(k, y)
  BY <1>2, <1>4, <1>5 DEF VersionInv
<1>6. CASE Written(k, x) /\ Written(k, y)
  BY <1>2, <1>6 DEF Written
<1>7. CASE Written(k, x) /\ Seen(k, y)
  BY <1>2, <1>4, <1>7 DEF Written
<1>8. CASE Written(k, y) /\ Seen(k, x)
  BY <1>2, <1>4, <1>8 DEF Written
<1> QED BY <1>3, <1>5, <1>6, <1>7, <1>8

LEMMA VersionHalfStep ==
    ASSUME BothInv, VersionInv, [KotaryNext]_kotaryVars
    PROVE  VersionInv'
<1>1. CASE BudgetStep
  <2>1. UNCHANGED <<claims, revision, claimEvents, claimCache, worker>>
    BY <1>1 DEF BudgetStep, claimStore, caches, controllerVars
  <2> QED BY <2>1 DEF VersionInv, Seen, Shown, Held, Busy
<1> QED BY <1>1, HalfStep, VersionStep, DefaultKeepsVersions DEF BothInv, CoreInv

\* A verdict is written only on the spec it was reached for, when a default claim
\* takes the place of one that was handled as well.
THEOREM KotaryVerdictsAreCurrent == KotarySafety => VerdictIsForCurrentSpec
<1>1. KotaryInit => VersionInv
  BY VersionInit DEF KotaryInit
<1>2. BothInv /\ VersionInv /\ [KotaryNext]_kotaryVars => VersionInv'
  BY VersionHalfStep
<1>3. BothInv /\ VersionInv /\ [KotaryNext]_kotaryVars => [VerdictStep]_vars
  <2> SUFFICES ASSUME BothInv, VersionInv, [KotaryNext]_kotaryVars PROVE VerdictStep
    OBVIOUS
  <2>1. ASSUME NEW key \in Key, DefaultStep(key)
        PROVE  VerdictStep
    BY <2>1 DEF DefaultStep, PutClaim, VerdictStep, BothInv, CoreInv, ClusterTypeOK
  <2>2. CASE BudgetStep
    BY <2>2 DEF BudgetStep, claimStore, VerdictStep
  <2> QED BY <2>1, <2>2, HalfStep, VerdictsMatch DEF BothInv, CoreInv
<1>4. KotarySafety => [][VerdictStep]_vars
  BY <1>1, <1>2, <1>3, BothInvariant, PTL DEF KotarySafety
<1> QED BY <1>4 DEF VerdictStep, VerdictIsForCurrentSpec

(***************************************************************************)
(* The cluster and the ledger, with one claim worker.                      *)
(***************************************************************************)
LEMMA FitHalfStep ==
    ASSUME \A v, w \in ClaimWorker : v = w,
           BothInv, BothInv', FitInv, [KotaryNext]_kotaryVars
    PROVE  FitInv'
<1>1. CASE UNCHANGED <<quotas, worker, lagged>>
  BY <1>1 DEF FitInv, NeverOvercommitted, Reserved, ReservedBeside, totalResourceQuota, hardOf,
              NamespaceOf
<1> QED BY <1>1, HalfStep, FitStep
        DEF BothInv, CoreInv, DefaultStep, BudgetStep, quotaStore, controllerVars

\* With one claim worker the quotas outgrow the cluster only after a check that
\* the cache misled, however many namespaces ask for their defaults meanwhile.
THEOREM KotaryReservationHolds ==
    ASSUME \A v, w \in ClaimWorker : v = w
    PROVE  KotarySafety => []OvercommittedOnlyByLag
<1>1. KotaryInit => FitInv
  BY FitInit DEF KotaryInit
<1>2. BothInv /\ BothInv' /\ FitInv /\ [KotaryNext]_kotaryVars => FitInv'
  BY FitHalfStep
<1>3. FitInv => OvercommittedOnlyByLag
  BY DEF FitInv, OvercommittedOnlyByLag
<1> QED BY <1>1, <1>2, <1>3, BothInvariant, PTL DEF KotarySafety

LEMMA RoomHalfStep ==
    ASSUME BothInv, RoomInv, [KotaryNext]_kotaryVars
    PROVE  RoomInv'
<1>1. CASE UNCHANGED worker
  BY <1>1 DEF RoomInv
<1> QED BY <1>1, HalfStep, RoomStep DEF BothInv, CoreInv, DefaultStep, BudgetStep, controllerVars

\* A claim that lowers the quota it was compared with leaves room for the pods its
\* check counted, the default claim of a namespace like any other, with any number
\* of workers.
THEOREM KotaryShrinkHolds == KotarySafety => ShrinkCoversCounted
<1>1. KotaryInit => RoomInv
  BY RoomInit DEF KotaryInit
<1>2. BothInv /\ RoomInv /\ [KotaryNext]_kotaryVars => RoomInv'
  BY RoomHalfStep
<1>3. BothInv /\ RoomInv /\ [KotaryNext]_kotaryVars => [ShrinkStep]_vars
  <2>1. CASE UNCHANGED worker
    BY <2>1 DEF ShrinkStep
  <2> QED BY <2>1, HalfStep, ShrinkLeaves DEF BothInv, CoreInv, DefaultStep, BudgetStep, controllerVars
<1> HIDE DEF ShrinkStep
<1>4. KotarySafety => [][ShrinkStep]_vars
  BY <1>1, <1>2, <1>3, BothInvariant, PTL DEF KotarySafety
<1> QED BY <1>4 DEF ShrinkCoversCounted, ShrinkStep

\* A default claim is one more request in the ledger.
LEMMA DefaultAsks ==
    ASSUME CoreInv, NEW key \in Key, DefaultStep(key)
    PROVE  Ledger!Ask
<1> DEFINE request == <<key[1], DefaultClaimSpec>>
<1>1. UNCHANGED <<claimCache, worker, quotas, lagged>>
  BY DEF DefaultStep, caches, quotaStore, controllerVars
<1>2. request \in RequestsMade'
  <2>1. claims'[key] = [spec |-> DefaultClaimSpec, status |-> NoStatus, version |-> revision[key] + 1]
    BY DEF DefaultStep, PutClaim, CoreInv, ClusterTypeOK
  <2>2. claims'[key] # None /\ claims'[key].spec = DefaultClaimSpec
    BY <2>1, DefaultKeepsCore, ClusterAssumption, NamespaceAssumption, StatusTypes
       DEF CoreInv, ClusterTypeOK, Claim
  <2>3. <<key[1], claims'[key]>> \in ClaimsAnywhere'
    BY DEF ClaimsAnywhere
  <2> HIDE DEF request
  <2>4. <<key[1], claims'[key]>>[1] = key[1] /\ <<key[1], claims'[key]>>[2] = claims'[key]
    OBVIOUS
  <2> QED BY <2>2, <2>3, <2>4 DEF RequestsMade, request
<1>3. \A x \in RequestsMade' : x \in RequestsMade \/ x = request
  <2> SUFFICES ASSUME NEW x \in RequestsMade' PROVE x \in RequestsMade \/ x = request
    OBVIOUS
  <2>1. x = <<x[1], x[2]>> /\ Asked(x[1], x[2])'
    BY RequestIsAskedNext
  <2>2. CASE InHand(x[1], x[2])'
    BY <1>1, <2>1, <2>2, AskedIsRequest DEF Asked, InHand, Busy, NamespaceOf
  <2>3. CASE Stored(x[1], x[2])'
    <3>1. Stored(x[1], x[2]) \/ <<x[1], x[2]>> = request
      BY <1>1, <2>3, NamespaceAssumption, StatusTypes, PutClaimStored DEF DefaultStep, CoreInv
    <3> HIDE DEF request
    <3> QED BY <2>1, <3>1, AskedIsRequest DEF Asked
  <2> QED BY <2>1, <2>2, <2>3 DEF Asked
<1>4. request \in Namespace \X Amount
  BY NamespaceAssumption DEF Key
<1>5. UNCHANGED <<QuotasGranted, lagged>>
  BY <1>1 DEF QuotasGranted
<1> HIDE DEF request
<1> QED BY <1>2, <1>3, <1>4, <1>5 DEF Ledger!Ask

LEMMA LedgerHalfStep ==
    ASSUME \A v, w \in ClaimWorker : v = w,
           BothInv, BothInv', LimitInv, FitInv, FitInv', [KotaryNext]_kotaryVars
    PROVE  [Ledger!LedgerNext]_(Ledger!ledgerVars)
<1>1. CASE BudgetStep
  <2>1. UNCHANGED <<claims, claimEvents, claimCache, worker, quotas, lagged>>
    BY <1>1 DEF BudgetStep, claimStore, caches, quotaStore, controllerVars
  <2>2. UNCHANGED <<RequestsMade, QuotasGranted, lagged>>
    BY <2>1 DEF RequestsMade, ClaimsAnywhere, QuotasGranted, Busy, NamespaceOf
  <2> QED BY <2>2 DEF Ledger!ledgerVars
<1>2. ASSUME NEW key \in Key, DefaultStep(key)
      PROVE  Ledger!LedgerNext
  BY <1>2, DefaultAsks DEF BothInv, Ledger!LedgerNext
<1>3. CASE [ClaimControllerNext]_vars
  BY <1>3, LedgerMoves DEF BothInv
<1> QED BY <1>1, <1>2, <1>3, HalfStep DEF BothInv, CoreInv

\* The whole controller implements the ledger: quotas appear only for claims that
\* a user or the namespace half made.
THEOREM KotaryImplementsLedger ==
    ASSUME \A v, w \in ClaimWorker : v = w
    PROVE  KotarySafety => ImplementsLedger
<1>1. KotaryInit => LimitInv /\ FitInv /\ Ledger!LedgerInit
  BY LimitInit, FitInit, LedgerStarts DEF KotaryInit
<1>2. BothInv /\ LimitInv /\ [KotaryNext]_kotaryVars => LimitInv'
  BY LimitHalfStep
<1>3. BothInv /\ BothInv' /\ FitInv /\ [KotaryNext]_kotaryVars => FitInv'
  BY FitHalfStep
<1>4. BothInv /\ BothInv' /\ LimitInv /\ FitInv /\ FitInv' /\ [KotaryNext]_kotaryVars
         => [Ledger!LedgerNext]_(Ledger!ledgerVars)
  BY LedgerHalfStep
<1> QED BY <1>1, <1>2, <1>3, <1>4, BothInvariant, PTL
        DEF KotarySafety, ImplementsLedger, Ledger!LedgerSpec
=============================================================================
