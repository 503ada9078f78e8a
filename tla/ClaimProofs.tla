---------------------------- MODULE ClaimProofs ----------------------------
(***************************************************************************)
(* Proofs about the claim controller, for every set of namespaces, names,  *)
(* pods, nodes and workers, every amount and every bound.                  *)
(***************************************************************************)
EXTENDS ClaimProperties, QuotaPolicyProofs, SequenceTheorems

(***************************************************************************)
(* A worker that has a key holds it in the queue's processing set, and     *)
(* from the first check on it also has the claim it read.                  *)
(***************************************************************************)
WorkerHolds ==
    \A w \in ClaimWorker :
        /\ Busy(w) => worker[w].key \in claimQueue.processing
        /\ worker[w].pc \notin {"idle", "read"} => worker[w].claim # None

WorkInv == ControllerTypeOK /\ WorkerHolds /\ NeverConcurrent
CoreInv == ClusterTypeOK /\ WorkInv

(***************************************************************************)
(* The writes keep the types of what they write.                           *)
(***************************************************************************)
LEMMA StatusTypes ==
    /\ NoStatus \in Status
    /\ \A phase \in Phase, message \in Message :
          [phase |-> phase, details |-> message] \in Status
BY EmptyMessage DEF NoStatus, Status, Phase

LEMMA IdleType == Idle \in WorkerState
BY StatusTypes DEF Idle, WorkerState, Pc

LEMMA PutClaimType ==
    ASSUME ClusterTypeOK, NEW key \in Key, NEW spec \in Amount, NEW status \in Status,
           PutClaim(key, spec, status)
    PROVE  /\ claims' \in [Key -> Claim \cup {None}]
           /\ revision' \in [Key -> Nat]
           /\ claimEvents' \in Seq(Event(Key, Claim \cup {None}))
<1> DEFINE object == [spec |-> spec, status |-> status, version |-> revision[key] + 1]
           event == [name |-> key, object |-> object]
<1>1. object \in Claim
  BY DEF ClusterTypeOK, Claim
<1>2. event \in Event(Key, Claim \cup {None})
  BY <1>1 DEF Event
<1>3. /\ claims' = [claims EXCEPT ![key] = object]
      /\ revision' = [revision EXCEPT ![key] = @ + 1]
      /\ claimEvents' = Append(claimEvents, event)
  BY DEF PutClaim
<1>4. claims \in [Key -> Claim \cup {None}] /\ revision \in [Key -> Nat]
      /\ claimEvents \in Seq(Event(Key, Claim \cup {None}))
  BY DEF ClusterTypeOK
<1> HIDE DEF object, event
<1> QED BY <1>1, <1>2, <1>3, <1>4, AppendProperties

LEMMA RemoveClaimType ==
    ASSUME ClusterTypeOK, NEW key \in Key, RemoveClaim(key)
    PROVE  /\ claims' \in [Key -> Claim \cup {None}]
           /\ revision' \in [Key -> Nat]
           /\ claimEvents' \in Seq(Event(Key, Claim \cup {None}))
<1>1. [name |-> key, object |-> None] \in Event(Key, Claim \cup {None})
  BY DEF Event
<1> QED BY <1>1, AppendProperties DEF ClusterTypeOK, RemoveClaim

LEMMA PutQuotaType ==
    ASSUME ClusterTypeOK, NEW ns \in Namespace, NEW object \in Quota \cup {None},
           PutQuota(ns, object)
    PROVE  /\ quotas' \in [Namespace -> Quota \cup {None}]
           /\ quotaEvents' \in Seq(Event(Namespace, Quota \cup {None}))
<1>1. [name |-> ns, object |-> object] \in Event(Namespace, Quota \cup {None})
  BY DEF Event
<1>2. /\ quotas \in [Namespace -> Quota \cup {None}]
      /\ quotaEvents \in Seq(Event(Namespace, Quota \cup {None}))
  BY DEF ClusterTypeOK
<1>3. CASE quotas[ns] = object
  BY <1>2, <1>3 DEF PutQuota, quotaStore
<1>4. CASE quotas[ns] # object
  <2>1. /\ quotas' = [quotas EXCEPT ![ns] = object]
        /\ quotaEvents' = Append(quotaEvents, [name |-> ns, object |-> object])
    BY <1>4 DEF PutQuota
  <2> QED BY <1>1, <1>2, <2>1, AppendProperties
<1> QED BY <1>3, <1>4

LEMMA PutPodType ==
    ASSUME ClusterTypeOK, NEW p \in Pod, NEW phase \in PodPhase, PutPod(p, phase)
    PROVE  /\ pods' \in [Pod -> PodPhase]
           /\ podEvents' \in Seq(Event(Pod, PodPhase))
<1>1. [name |-> p, object |-> phase] \in Event(Pod, PodPhase)
  BY DEF Event
<1> QED BY <1>1, AppendProperties DEF ClusterTypeOK, PutPod

LEMMA SpendType ==
    ASSUME ClusterTypeOK, NEW act \in Act, Spend(act)
    PROVE  budget' \in [Act -> Nat]
BY DEF ClusterTypeOK, Spend

\* The oldest event of a stream has the type of its cache.
LEMMA DeliverType ==
    ASSUME NEW N, NEW O, NEW cache \in [N -> O], NEW stream \in Seq(Event(N, O)),
           stream # <<>>
    PROVE  /\ Deliver(cache, stream) \in [N -> O]
           /\ Tail(stream) \in Seq(Event(N, O))
           /\ Head(stream).name \in N
           /\ Head(stream).object \in O
<1>1. Head(stream) \in Event(N, O) /\ Tail(stream) \in Seq(Event(N, O))
  BY HeadTailProperties
<1>2. Head(stream).name \in N /\ Head(stream).object \in O
  BY <1>1 DEF Event
<1> QED BY <1>1, <1>2 DEF Deliver

\* The elements of a stream after a write and after a delivery.
LEMMA AppendedElements ==
    ASSUME NEW S, NEW s \in Seq(S), NEW e \in S, NEW i \in DOMAIN Append(s, e)
    PROVE  Append(s, e)[i] = e \/ \E j \in DOMAIN s : Append(s, e)[i] = s[j]
<1>1. DOMAIN Append(s, e) = 1 .. Len(s) + 1 /\ DOMAIN s = 1 .. Len(s) /\ Len(s) \in Nat
  BY AppendProperties, LenProperties
<1> QED BY <1>1, AppendProperties

LEMMA RemainingElements ==
    ASSUME NEW S, NEW s \in Seq(S), s # <<>>
    PROVE  /\ 1 \in DOMAIN s /\ Head(s) = s[1]
           /\ \A i \in DOMAIN Tail(s) : \E j \in DOMAIN s : Tail(s)[i] = s[j]
<1>1. /\ Tail(s) \in Seq(S) /\ Len(Tail(s)) = Len(s) - 1
      /\ \A i \in 1 .. Len(Tail(s)) : Tail(s)[i] = s[i + 1]
  BY HeadTailProperties
<1>2. DOMAIN s = 1 .. Len(s) /\ DOMAIN Tail(s) = 1 .. Len(Tail(s)) /\ Len(s) \in Nat /\ Len(s) > 0
  BY <1>1, LenProperties, EmptySeq
<1> QED BY <1>1, <1>2

(***************************************************************************)
(* Acts of the environment keep the types.                                 *)
(***************************************************************************)
LEMMA EnvironmentType ==
    ASSUME ClusterTypeOK, Environment
    PROVE  ClusterTypeOK'
<1>1. ASSUME NEW key \in Key, NEW spec \in ClaimSpec, CreateClaim(key, spec)
      PROVE  ClusterTypeOK'
  <2>1. spec \in Amount /\ NoStatus \in Status /\ "claims" \in Act
    BY ClusterAssumption, StatusTypes DEF Act
  <2>2. PutClaim(key, spec, NoStatus) /\ Spend("claims")
    BY <1>1 DEF CreateClaim
  <2> QED BY <1>1, <2>1, <2>2, PutClaimType, SpendType
          DEF CreateClaim, ClusterTypeOK, quotaStore, podStore, nodeStore, caches
<1>2. ASSUME NEW key \in Key, NEW spec \in ClaimSpec, EditClaim(key, spec)
      PROVE  ClusterTypeOK'
  <2>1. spec \in Amount /\ claims[key].status \in Status /\ "edits" \in Act
    BY <1>2, ClusterAssumption DEF Act, EditClaim, ClusterTypeOK, Claim
  <2>2. PutClaim(key, spec, claims[key].status) /\ Spend("edits")
    BY <1>2 DEF EditClaim
  <2> QED BY <1>2, <2>1, <2>2, PutClaimType, SpendType
          DEF EditClaim, ClusterTypeOK, quotaStore, podStore, nodeStore, caches
<1>3. ASSUME NEW key \in Key, DeleteClaim(key)
      PROVE  ClusterTypeOK'
  <2>1. RemoveClaim(key) /\ Spend("claims") /\ "claims" \in Act
    BY <1>3 DEF DeleteClaim, Act
  <2> QED BY <1>3, <2>1, RemoveClaimType, SpendType
          DEF DeleteClaim, ClusterTypeOK, quotaStore, podStore, nodeStore, caches
<1>4. ASSUME NEW ns \in Namespace, DeleteQuota(ns)
      PROVE  ClusterTypeOK'
  <2>1. PutQuota(ns, None) /\ Spend("quotas") /\ "quotas" \in Act
    BY <1>4 DEF DeleteQuota, Act
  <2> QED BY <1>4, <2>1, PutQuotaType, SpendType
          DEF DeleteQuota, ClusterTypeOK, claimStore, podStore, nodeStore, caches
<1>5. ASSUME NEW ns \in Namespace, SyncQuotaStatus(ns)
      PROVE  ClusterTypeOK'
  <2> DEFINE object == [quotas[ns] EXCEPT !.statusHard = quotas[ns].hard]
  <2>1. quotas[ns] \in Quota
    BY <1>5 DEF SyncQuotaStatus, ClusterTypeOK
  <2>2. object \in Quota
    BY <2>1 DEF Quota
  <2>3. PutQuota(ns, object)
    BY <1>5 DEF SyncQuotaStatus
  <2> HIDE DEF object
  <2> QED BY <1>5, <2>2, <2>3, PutQuotaType
          DEF SyncQuotaStatus, ClusterTypeOK, claimStore, podStore, nodeStore, caches
<1>6. ASSUME NEW p \in Pod, CreatePod(p) \/ RunPod(p) \/ CompletePod(p) \/ DeletePod(p)
      PROVE  ClusterTypeOK'
  <2>1. PICK phase \in PodPhase : PutPod(p, phase)
    BY <1>6 DEF CreatePod, RunPod, CompletePod, DeletePod, PodPhase
  <2>2. budget' \in [Act -> Nat]
    <3>1. "pods" \in Act /\ "completions" \in Act
      BY DEF Act
    <3> QED BY <1>6, <3>1, SpendType
            DEF CreatePod, RunPod, CompletePod, DeletePod, ClusterTypeOK
  <2>3. UNCHANGED <<claimStore, quotaStore, nodeStore, caches>>
    BY <1>6 DEF CreatePod, RunPod, CompletePod, DeletePod
  <2> QED BY <2>1, <2>2, <2>3, PutPodType
          DEF ClusterTypeOK, claimStore, quotaStore, nodeStore, caches
<1>7. ASSUME NEW n \in Node, NEW state \in NodeStates, ChangeNode(n, state)
      PROVE  ClusterTypeOK'
  <2>1. state \in NodeState /\ "nodes" \in Act /\ Spend("nodes")
    BY <1>7, ClusterAssumption DEF Act, ChangeNode
  <2>2. [name |-> n, object |-> state] \in Event(Node, NodeState)
    BY <2>1 DEF Event
  <2>3. /\ nodes' \in [Node -> NodeState]
        /\ nodeEvents' \in Seq(Event(Node, NodeState))
    BY <1>7, <2>1, <2>2, AppendProperties DEF ChangeNode, ClusterTypeOK
  <2> QED BY <1>7, <2>1, <2>3, SpendType
          DEF ChangeNode, ClusterTypeOK, claimStore, quotaStore, podStore, caches
<1> QED BY <1>1, <1>2, <1>3, <1>4, <1>5, <1>6, <1>7 DEF Environment

(***************************************************************************)
(* Deliveries and restarts keep the types of the cluster.                  *)
(***************************************************************************)
LEMMA InformerClusterType ==
    ASSUME ClusterTypeOK, Informers
    PROVE  ClusterTypeOK'
<1>1. CASE DeliverClaim
  <2>1. /\ claimCache' \in [Key -> Claim \cup {None}]
        /\ claimEvents' \in Seq(Event(Key, Claim \cup {None}))
    BY <1>1, DeliverType DEF DeliverClaim, ClusterTypeOK
  <2> QED BY <1>1, <2>1 DEF DeliverClaim, ClusterTypeOK, quotaStore, podStore, nodeStore
<1>2. CASE DeliverPod
  <2>1. podCache' \in [Pod -> PodPhase] /\ podEvents' \in Seq(Event(Pod, PodPhase))
    BY <1>2, DeliverType DEF DeliverPod, ClusterTypeOK
  <2> QED BY <1>2, <2>1 DEF DeliverPod, ClusterTypeOK, claimStore, quotaStore, nodeStore
<1>3. CASE DeliverQuota
  <2>1. /\ quotaCache' \in [Namespace -> Quota \cup {None}]
        /\ quotaEvents' \in Seq(Event(Namespace, Quota \cup {None}))
    BY <1>3, DeliverType DEF DeliverQuota, ClusterTypeOK
  <2> QED BY <1>3, <2>1 DEF DeliverQuota, ClusterTypeOK, claimStore, podStore, nodeStore
<1>4. CASE DeliverNode
  <2>1. nodeCache' \in [Node -> NodeState] /\ nodeEvents' \in Seq(Event(Node, NodeState))
    BY <1>4, DeliverType DEF DeliverNode, ClusterTypeOK
  <2> QED BY <1>4, <2>1 DEF DeliverNode, ClusterTypeOK, claimStore, quotaStore, podStore
<1> QED BY <1>1, <1>2, <1>3, <1>4 DEF Informers

LEMMA StutterType ==
    ASSUME ClusterTypeOK, UNCHANGED clusterVars
    PROVE  ClusterTypeOK'
BY DEF ClusterTypeOK, clusterVars, claimStore, quotaStore, podStore, nodeStore, caches

LEMMA RestartType ==
    ASSUME ClusterTypeOK, Restart
    PROVE  ClusterTypeOK'
<1>1. "restarts" \in Act /\ Spend("restarts")
  BY DEF Act, Restart
<1>2. budget' \in [Act -> Nat]
  BY <1>1, SpendType
<1> QED BY <1>2 DEF Restart, Relist, ClusterTypeOK

(***************************************************************************)
(* What a worker computes has its type.                                    *)
(***************************************************************************)
LEMMA RequestsType ==
    ASSUME NEW S \in SUBSET Pod
    PROVE  TotalRequestNS(S, PodRequest) \in NatAmount
<1>1. IsFiniteSet(Pod) /\ PodRequest \in [Pod -> NatAmount]
  BY ClusterAssumption
<1>2. IsFiniteSet(S) /\ [p \in S |-> PodRequest[p]] \in [S -> NatAmount]
  BY <1>1, FS_Subset
<1> QED BY <1>2, TotalType DEF TotalRequestNS

LEMMA HardType ==
    ASSUME NEW quotaOf \in [Namespace -> Quota \cup {None}], NEW S \in SUBSET Namespace
    PROVE  /\ IsFiniteSet(DOMAIN hardOf(quotaOf, S))
           /\ hardOf(quotaOf, S) \in [DOMAIN hardOf(quotaOf, S) -> NatAmount]
           /\ Total(hardOf(quotaOf, S)) \in NatAmount
<1> DEFINE D == {ns \in S : quotaOf[ns] # None}
           hard == hardOf(quotaOf, S)
<1>1. D \in SUBSET Namespace /\ IsFiniteSet(D)
  BY ClusterAssumption, FS_Subset
<1>2. \A ns \in D : quotaOf[ns].hard \in NatAmount
  BY <1>1 DEF Quota
<1>3. DOMAIN hard = D /\ hard \in [D -> NatAmount]
  BY <1>2 DEF hardOf
<1> HIDE DEF hard
<1> QED BY <1>1, <1>3, TotalType DEF hard

LEMMA DownscaleMessageType ==
    ASSUME NEW running \in SUBSET Pod, NEW spec \in Amount, NEW managedQuota
    PROVE  downscaleMessage(spec, managedQuota, running) \in Message
BY RequestsType, DownscaleType, EmptyMessage DEF downscaleMessage

LEMMA CapacityType ==
    ASSUME ClusterTypeOK
    PROVE  /\ nodesTotalCapacity(nodeCache, NodeCapacity) \in NatAmount
           /\ WholeCluster \in NatAmount
           /\ Covers(WholeCluster, nodesTotalCapacity(nodeCache, NodeCapacity))
BY ClusterAssumption, CapacityBounded DEF ClusterTypeOK, WholeCluster

LEMMA CapacityMessageType ==
    ASSUME ClusterTypeOK, NEW ns \in Namespace, NEW spec \in Amount
    PROVE  capacityMessage(ns, spec) \in Message
<1> DEFINE available == nodesTotalCapacity(nodeCache, NodeCapacity)
           reserved == totalResourceQuota(ns, quotaCache)
<1>1. available \in NatAmount
  BY CapacityType
<1>2. Namespace \ {ns} \in SUBSET Namespace /\ quotaCache \in [Namespace -> Quota \cup {None}]
  BY DEF ClusterTypeOK
<1>3. reserved \in NatAmount
  BY <1>2, HardType DEF totalResourceQuota
<1>4. checkAllocationLimit(spec, available) \in Message
  BY <1>1, AllocationLimitCheck
<1>5. checkResourceFit(spec, available, reserved) \in Message
  BY <1>1, <1>3, ResourceFitType
<1> QED BY <1>4, <1>5 DEF capacityMessage

(***************************************************************************)
(* Taking a key and giving it back.                                        *)
(***************************************************************************)
LEMMA QueueTypes ==
    ASSUME NEW q \in QueueState(Key), NEW key \in Key
    PROVE  /\ Add(q, key) \in QueueState(Key)
           /\ Get(q, key) \in QueueState(Key)
           /\ Done(q, key) \in QueueState(Key)
           /\ AddRateLimited(q, key) \in QueueState(Key)
           /\ AddAfterBackoff(q, key) \in QueueState(Key)
BY DEF QueueState, AddAll, Add, Get, Done, AddRateLimited, AddAfterBackoff

\* What is being processed changes only by Get and Done.
LEMMA QueueProcessing ==
    ASSUME NEW q \in QueueState(Key), NEW key \in Key
    PROVE  /\ Add(q, key).processing = q.processing
           /\ Get(q, key).processing = q.processing \cup {key}
           /\ Done(q, key).processing = q.processing \ {key}
           /\ AddRateLimited(q, key).processing = q.processing
           /\ AddAfterBackoff(q, key).processing = q.processing
BY DEF QueueState, AddAll, Add, Get, Done, AddRateLimited, AddAfterBackoff

LEMMA AddAllKeeps ==
    ASSUME NEW q \in QueueState(Key), NEW keys \in SUBSET Key
    PROVE  /\ AddAll(q, keys) \in QueueState(Key)
           /\ AddAll(q, keys).processing = q.processing
BY DEF QueueState, AddAll

(***************************************************************************)
(* The ways a step may move the workers and the queue.                     *)
(***************************************************************************)

\* Nothing moves but the queue, and nobody gains or loses what it holds.
LEMMA QueueOnly ==
    ASSUME WorkInv, claimQueue' \in QueueState(Key),
           claimQueue'.processing = claimQueue.processing,
           UNCHANGED <<worker, judged, lagged>>
    PROVE  WorkInv'
BY DEF WorkInv, ControllerTypeOK, WorkerHolds, NeverConcurrent, Busy

\* A worker that is busy goes on, with the key it has.
LEMMA Advance ==
    ASSUME WorkInv, NEW w \in ClaimWorker, Busy(w),
           NEW new \in WorkerState, new.key = worker[w].key,
           new.pc \notin {"idle", "read"}, new.claim # None,
           worker' = [worker EXCEPT ![w] = new],
           UNCHANGED <<claimQueue, judged>>, lagged' \in BOOLEAN
    PROVE  WorkInv'
<1>1. worker \in [ClaimWorker -> WorkerState]
  BY DEF WorkInv, ControllerTypeOK
<1>2. /\ worker' \in [ClaimWorker -> WorkerState]
      /\ worker'[w] = new
      /\ \A v \in ClaimWorker \ {w} : worker'[v] = worker[v]
      /\ \A v \in ClaimWorker : worker'[v].key = worker[v].key
      /\ \A v \in ClaimWorker : Busy(v)' => Busy(v)
  BY <1>1 DEF Busy
<1>3. ControllerTypeOK'
  BY <1>2 DEF WorkInv, ControllerTypeOK
<1>4. WorkerHolds'
  <2> SUFFICES ASSUME NEW v \in ClaimWorker
               PROVE  /\ Busy(v)' => worker'[v].key \in claimQueue'.processing
                      /\ worker'[v].pc \notin {"idle", "read"} => worker'[v].claim # None
    BY DEF WorkerHolds
  <2>1. worker'[v].key = worker[v].key /\ (Busy(v)' => Busy(v)) /\ claimQueue' = claimQueue
    BY <1>2
  <2>2. CASE v = w
    BY <1>2, <2>1, <2>2 DEF WorkInv, WorkerHolds
  <2>3. CASE v # w
    BY <1>2, <2>1, <2>3 DEF WorkInv, WorkerHolds
  <2> QED BY <2>2, <2>3
<1>5. NeverConcurrent'
  BY <1>2 DEF WorkInv, NeverConcurrent
<1> QED BY <1>3, <1>4, <1>5 DEF WorkInv

\* A worker that is idle takes a key nobody is processing.
LEMMA Take ==
    ASSUME WorkInv, NEW w \in ClaimWorker, NEW key \in Key, TakeClaim(w, key)
    PROVE  WorkInv'
<1> DEFINE new == [Idle EXCEPT !.pc = "read", !.key = key]
<1>1. new \in WorkerState /\ new.pc = "read" /\ new.key = key
  BY IdleType DEF Idle, WorkerState, Pc
<1>2. /\ worker \in [ClaimWorker -> WorkerState]
      /\ claimQueue \in QueueState(Key)
  BY DEF WorkInv, ControllerTypeOK
<1>3. /\ claimQueue' \in QueueState(Key)
      /\ claimQueue'.processing = claimQueue.processing \cup {key}
  BY <1>2, QueueTypes, QueueProcessing DEF TakeClaim
<1>4. key \notin claimQueue.processing
  BY DEF TakeClaim, Queued
<1>5. worker' = [worker EXCEPT ![w] = new] /\ UNCHANGED <<judged, lagged>>
  BY DEF TakeClaim
<1> HIDE DEF new
<1>6. /\ worker' \in [ClaimWorker -> WorkerState]
      /\ worker'[w] = new
      /\ \A v \in ClaimWorker \ {w} : worker'[v] = worker[v]
  BY <1>1, <1>2, <1>5
<1>7. ControllerTypeOK'
  BY <1>3, <1>5, <1>6 DEF WorkInv, ControllerTypeOK
<1>8. WorkerHolds'
  <2> SUFFICES ASSUME NEW v \in ClaimWorker
               PROVE  /\ Busy(v)' => worker'[v].key \in claimQueue'.processing
                      /\ worker'[v].pc \notin {"idle", "read"} => worker'[v].claim # None
    BY DEF WorkerHolds
  <2>1. CASE v = w
    BY <1>1, <1>3, <1>6, <2>1
  <2>2. CASE v # w
    BY <1>3, <1>6, <2>2 DEF WorkInv, WorkerHolds, Busy
  <2> QED BY <2>1, <2>2
<1>9. \A v \in ClaimWorker \ {w} : Busy(v) => worker[v].key # key
  BY <1>4 DEF WorkInv, WorkerHolds
<1>10. NeverConcurrent'
  BY <1>1, <1>6, <1>9 DEF WorkInv, NeverConcurrent, Busy
<1> QED BY <1>7, <1>8, <1>10 DEF WorkInv

\* A worker that is done gives its key back, to be forgotten or tried again.
LEMMA GiveBack ==
    ASSUME WorkInv, NEW w \in ClaimWorker, Busy(w), Forget(w) \/ Requeue(w),
           UNCHANGED lagged
    PROVE  WorkInv'
<1> DEFINE key == worker[w].key
<1>1. /\ worker \in [ClaimWorker -> WorkerState]
      /\ claimQueue \in QueueState(Key)
      /\ judged \in [Key -> Nat]
      /\ worker[w].claim \in Claim \cup {None}
      /\ lagged \in BOOLEAN
  BY DEF WorkInv, ControllerTypeOK, WorkerState
<1>2. key \in claimQueue.processing
  BY DEF WorkInv, WorkerHolds
<1>3. key \in Key
  BY <1>1, <1>2 DEF QueueState
<1>4. /\ claimQueue' \in QueueState(Key)
      /\ claimQueue'.processing = claimQueue.processing \ {key}
  <2>1. CASE Forget(w)
    BY <1>1, <1>3, <2>1, QueueTypes, QueueProcessing DEF Forget
  <2>2. CASE Requeue(w)
    <3> DEFINE later == AddRateLimited(claimQueue, key)
    <3>1. later \in QueueState(Key) /\ later.processing = claimQueue.processing
      BY <1>1, <1>3, QueueTypes, QueueProcessing
    <3>2. claimQueue' = Done(later, key)
      BY <2>2 DEF Requeue
    <3> HIDE DEF later
    <3>3. Done(later, key) \in QueueState(Key)
      BY <1>3, <3>1, QueueTypes
    <3>4. Done(later, key).processing = later.processing \ {key}
      BY <1>3, <3>1, QueueProcessing
    <3> QED BY <3>1, <3>2, <3>3, <3>4
  <2> QED BY <2>1, <2>2
<1>5. judged' \in [Key -> Nat]
  BY <1>1 DEF Forget, Requeue, Judge, Claim
<1>6. worker' = [worker EXCEPT ![w] = Idle]
  BY DEF Forget, Requeue
<1>7. /\ worker' \in [ClaimWorker -> WorkerState]
      /\ worker'[w].pc = "idle"
      /\ \A v \in ClaimWorker \ {w} : worker'[v] = worker[v]
  BY <1>1, <1>6, IdleType DEF Idle
<1>8. ControllerTypeOK'
  BY <1>1, <1>4, <1>5, <1>7 DEF ControllerTypeOK
<1>9. WorkerHolds'
  <2> SUFFICES ASSUME NEW v \in ClaimWorker \ {w}
               PROVE  /\ Busy(v) => worker[v].key \in claimQueue'.processing
                      /\ worker[v].pc \notin {"idle", "read"} => worker[v].claim # None
    BY <1>7 DEF WorkerHolds, Busy
  <2> QED BY <1>4 DEF WorkInv, WorkerHolds, NeverConcurrent
<1>10. NeverConcurrent'
  BY <1>7 DEF WorkInv, NeverConcurrent, Busy
<1> QED BY <1>8, <1>9, <1>10 DEF WorkInv

(***************************************************************************)
(* Each step of a worker keeps CoreInv.                                    *)
(***************************************************************************)

\* What is known of a worker that is in the middle of a claim.
LEMMA InTheMiddle ==
    ASSUME CoreInv, NEW w \in ClaimWorker, worker[w].pc \notin {"idle", "read"}
    PROVE  /\ Busy(w)
           /\ worker[w] \in WorkerState
           /\ worker[w].key \in Key
           /\ NamespaceOf(w) \in Namespace
           /\ worker[w].claim \in Claim
           /\ worker[w].claim.spec \in Amount
<1>1. worker[w] \in WorkerState /\ claimQueue \in QueueState(Key)
  BY DEF CoreInv, WorkInv, ControllerTypeOK
<1>2. Busy(w)
  BY DEF Busy
<1>3. worker[w].key \in Key
  BY <1>1, <1>2 DEF CoreInv, WorkInv, WorkerHolds, QueueState
<1>4. worker[w].claim \in Claim
  BY <1>1 DEF CoreInv, WorkInv, WorkerHolds, WorkerState
<1> QED BY <1>1, <1>2, <1>3, <1>4 DEF NamespaceOf, Key, Claim

\* A worker moves on to another check or call without a verdict.
LEMMA GotoKeeps ==
    ASSUME CoreInv, NEW w \in ClaimWorker, worker[w].pc \notin {"idle", "read"},
           NEW pc \in Pc \ {"idle", "read"}, Goto(w, pc),
           UNCHANGED <<claimQueue, judged>>, lagged' \in BOOLEAN
    PROVE  WorkInv'
<1> DEFINE new == [worker[w] EXCEPT !.pc = pc]
<1>1. Busy(w) /\ worker[w] \in WorkerState /\ worker[w].claim # None
  BY InTheMiddle DEF CoreInv, WorkInv, WorkerHolds
<1>2. /\ new \in WorkerState /\ new.key = worker[w].key
      /\ new.pc = pc /\ new.claim = worker[w].claim
  BY <1>1 DEF WorkerState
<1>3. worker' = [worker EXCEPT ![w] = new]
  BY DEF Goto
<1> HIDE DEF new
<1> QED BY <1>1, <1>2, <1>3, Advance DEF CoreInv

LEMMA VerdictKeeps ==
    ASSUME CoreInv, NEW w \in ClaimWorker, worker[w].pc \notin {"idle", "read"},
           NEW phase \in Phase, NEW message \in Message, Verdict(w, phase, message),
           UNCHANGED <<claimQueue, judged, lagged>>
    PROVE  WorkInv'
<1> DEFINE status == [phase |-> phase, details |-> message]
           new == [worker[w] EXCEPT !.pc = "status", !.status = status]
<1>1. Busy(w) /\ worker[w] \in WorkerState /\ worker[w].claim # None
  BY InTheMiddle DEF CoreInv, WorkInv, WorkerHolds
<1>2. status \in Status /\ lagged' \in BOOLEAN
  BY StatusTypes DEF CoreInv, WorkInv, ControllerTypeOK
<1>3. worker' = [worker EXCEPT ![w] = new]
  BY DEF Verdict
<1> HIDE DEF status
<1>4. /\ new \in WorkerState /\ new.key = worker[w].key
      /\ new.pc = "status" /\ new.claim = worker[w].claim
  BY <1>1, <1>2 DEF WorkerState, Pc
<1> HIDE DEF new
<1> QED BY <1>1, <1>2, <1>3, <1>4, Advance DEF CoreInv

LEMMA ReadClaimKeeps ==
    ASSUME CoreInv, NEW w \in ClaimWorker, ReadClaim(w)
    PROVE  CoreInv'
<1>1. ClusterTypeOK'
  BY StutterType DEF ReadClaim, CoreInv
<1>2. Busy(w) /\ worker[w] \in WorkerState /\ worker[w].key \in Key /\ lagged' \in BOOLEAN
  BY DEF ReadClaim, Busy, CoreInv, WorkInv, ControllerTypeOK, WorkerHolds, QueueState
<1>3. CASE claimCache[worker[w].key] = None
  BY <1>1, <1>2, <1>3, GiveBack DEF ReadClaim, CoreInv
<1>4. CASE claimCache[worker[w].key] # None
  <2> DEFINE new == [worker[w] EXCEPT !.pc = "downscale", !.claim = claimCache[worker[w].key]]
  <2>1. worker' = [worker EXCEPT ![w] = new] /\ UNCHANGED <<claimQueue, judged>>
    BY <1>4 DEF ReadClaim
  <2>2. claimCache[worker[w].key] \in Claim
    BY <1>2, <1>4 DEF CoreInv, ClusterTypeOK
  <2>3. /\ new \in WorkerState /\ new.key = worker[w].key
        /\ new.pc = "downscale" /\ new.claim # None
    BY <1>2, <1>4, <2>2 DEF WorkerState, Pc
  <2> HIDE DEF new
  <2> QED BY <1>1, <1>2, <2>1, <2>3, Advance DEF CoreInv
<1> QED BY <1>3, <1>4

LEMMA CheckDownscaleKeeps ==
    ASSUME CoreInv, NEW w \in ClaimWorker, CheckDownscale(w)
    PROVE  CoreInv'
<1> DEFINE ns == NamespaceOf(w)
           hard == IF quotaCache[ns] = None THEN None ELSE quotaCache[ns].hard
           running == FilterRunningPods(podCache, PodsOf(ns))
           message == downscaleMessage(worker[w].claim.spec, quotaCache[ns], running)
<1>1. ClusterTypeOK' /\ worker[w].pc = "downscale" /\ UNCHANGED <<claimQueue, judged>>
  BY StutterType DEF CheckDownscale, CoreInv
<1>2. message \in Message /\ "PENDING" \in Phase /\ running \in SUBSET Pod
  BY <1>1, InTheMiddle, DownscaleMessageType DEF Phase, FilterRunningPods, PodsOf
<1>3. CASE Verdict(w, "PENDING", message) /\ UNCHANGED lagged
  BY <1>1, <1>2, <1>3, VerdictKeeps DEF CoreInv
<1>4. CASE PassDownscale(w, hard, running) /\ Relied({ns})
  <2> DEFINE new == [worker[w] EXCEPT !.pc = "capacity", !.compared = hard, !.counted = running]
  <2>1. Busy(w) /\ worker[w] \in WorkerState /\ worker[w].claim # None /\ ns \in Namespace
    BY <1>1, InTheMiddle DEF CoreInv, WorkInv, WorkerHolds
  <2>2. hard \in NatAmount \cup {None}
    BY <2>1 DEF CoreInv, ClusterTypeOK, Quota
  <2>3. worker' = [worker EXCEPT ![w] = new] /\ lagged' \in BOOLEAN
    BY <1>4 DEF PassDownscale, Relied
  <2> HIDE DEF hard, running
  <2>4. /\ new \in WorkerState /\ new.key = worker[w].key
        /\ new.pc = "capacity" /\ new.claim = worker[w].claim
    BY <1>2, <2>1, <2>2 DEF WorkerState, Pc
  <2> HIDE DEF new
  <2> QED BY <1>1, <2>1, <2>3, <2>4, Advance DEF CoreInv
<1> QED BY <1>3, <1>4 DEF CheckDownscale

LEMMA CheckCapacityKeeps ==
    ASSUME CoreInv, NEW w \in ClaimWorker, CheckCapacity(w)
    PROVE  CoreInv'
<1> DEFINE ns == NamespaceOf(w)
           message == capacityMessage(ns, worker[w].claim.spec)
<1>1. ClusterTypeOK' /\ worker[w].pc = "capacity" /\ UNCHANGED <<claimQueue, judged>>
  BY StutterType DEF CheckCapacity, CoreInv
<1>2. message \in Message /\ "REJECTED" \in Phase
  BY <1>1, InTheMiddle, CapacityMessageType DEF Phase, CoreInv
<1>3. CASE Verdict(w, "REJECTED", message) /\ UNCHANGED lagged
  BY <1>1, <1>2, <1>3, VerdictKeeps DEF CoreInv
<1>4. CASE Goto(w, "apply") /\ Relied(Namespace \ {ns})
  BY <1>1, <1>4, GotoKeeps DEF CoreInv, Relied, Pc
<1> QED BY <1>3, <1>4 DEF CheckCapacity

\* A refused call changes nothing in the cluster but the faults left.
LEMMA RefusedKeeps ==
    ASSUME CoreInv, NEW w \in ClaimWorker, Busy(w), NEW valid \in BOOLEAN, Refused(w, valid),
           UNCHANGED <<podStore, nodeStore, caches, lagged>>
    PROVE  CoreInv'
<1>1. "faults" \in Act
  BY DEF Act
<1>2. budget' \in [Act -> Nat]
  <2>1. CASE valid
    BY <1>1, <2>1, SpendType DEF Refused, CoreInv
  <2>2. CASE ~valid
    BY <2>2 DEF Refused, CoreInv, ClusterTypeOK
  <2> QED BY <2>1, <2>2
<1>3. ClusterTypeOK'
  BY <1>2 DEF Refused, CoreInv, ClusterTypeOK, claimStore, quotaStore, podStore, nodeStore, caches
<1>4. WorkInv'
  BY GiveBack DEF Refused, CoreInv
<1> QED BY <1>3, <1>4 DEF CoreInv

LEMMA UpdateStatusKeeps ==
    ASSUME CoreInv, NEW w \in ClaimWorker, UpdateStatus(w)
    PROVE  CoreInv'
<1> DEFINE key == worker[w].key
<1>1. /\ worker[w].pc = "status"
      /\ UNCHANGED <<podStore, nodeStore, caches, lagged>>
  BY DEF UpdateStatus
<1>2. Busy(w) /\ key \in Key /\ worker[w].status \in Status
  BY <1>1, InTheMiddle DEF WorkerState
<1>3. CASE /\ statusAccepted(w)
           /\ IF claims[key].status = worker[w].status THEN UNCHANGED claimStore
              ELSE PutClaim(key, claims[key].spec, worker[w].status)
           /\ Answered(w, Forget(w))
           /\ UNCHANGED quotaStore
  <2>1. claims[key] \in Claim /\ claims[key].spec \in Amount
    BY <1>2, <1>3 DEF statusAccepted, CoreInv, ClusterTypeOK, Claim
  <2>2. /\ claims' \in [Key -> Claim \cup {None}]
        /\ revision' \in [Key -> Nat]
        /\ claimEvents' \in Seq(Event(Key, Claim \cup {None}))
    <3>1. CASE UNCHANGED claimStore
      BY <3>1 DEF CoreInv, ClusterTypeOK, claimStore
    <3>2. CASE PutClaim(key, claims[key].spec, worker[w].status)
      BY <1>2, <2>1, <3>2, PutClaimType DEF CoreInv
    <3> QED BY <1>3, <3>1, <3>2
  <2>3. budget' \in [Act -> Nat]
    <3>1. "faults" \in Act
      BY DEF Act
    <3> QED BY <1>3, <3>1, SpendType DEF Answered, CoreInv, ClusterTypeOK
  <2>4. ClusterTypeOK'
    BY <1>1, <1>3, <2>2, <2>3 DEF CoreInv, ClusterTypeOK, quotaStore, podStore, nodeStore, caches
  <2>5. WorkInv'
    BY <1>1, <1>2, <1>3, GiveBack DEF Answered, CoreInv
  <2> QED BY <2>4, <2>5 DEF CoreInv
<1>4. CASE Refused(w, statusAccepted(w))
  <2>1. statusAccepted(w) \in BOOLEAN
    BY DEF statusAccepted
  <2> QED BY <1>1, <1>2, <1>4, <2>1, RefusedKeeps
<1> QED BY <1>3, <1>4 DEF UpdateStatus

LEMMA UpdateQuotaKeeps ==
    ASSUME CoreInv, NEW w \in ClaimWorker, updateResourceQuota(w)
    PROVE  CoreInv'
<1> DEFINE ns == NamespaceOf(w)
<1>1. /\ worker[w].pc = "apply"
      /\ UNCHANGED <<claimStore, podStore, nodeStore, caches, lagged>>
  BY DEF updateResourceQuota
<1>2. Busy(w) /\ ns \in Namespace /\ lagged' \in BOOLEAN
  BY <1>1, InTheMiddle DEF CoreInv, WorkInv, ControllerTypeOK
<1>3. CASE Goto(w, "delete") /\ UNCHANGED <<quotaStore, budget, claimQueue, judged>>
  <2>1. ClusterTypeOK'
    BY <1>1, <1>3 DEF CoreInv, ClusterTypeOK, claimStore, quotaStore, podStore, nodeStore, caches
  <2>2. WorkInv'
    BY <1>1, <1>2, <1>3, GotoKeeps DEF Pc
  <2> QED BY <2>1, <2>2 DEF CoreInv
<1>4. CASE /\ quotaAccepted(w)
           /\ PutQuota(ns, newResourceQuota(w))
           /\ Answered(w, Goto(w, "delete") /\ UNCHANGED <<claimQueue, judged>>)
  <2>1. newResourceQuota(w) \in Quota
    BY <1>2, <1>4 DEF newResourceQuota, quotaAccepted, CoreInv, ClusterTypeOK, Quota
  <2>2. /\ quotas' \in [Namespace -> Quota \cup {None}]
        /\ quotaEvents' \in Seq(Event(Namespace, Quota \cup {None}))
    BY <1>2, <1>4, <2>1, PutQuotaType DEF CoreInv
  <2>3. budget' \in [Act -> Nat]
    <3>1. "faults" \in Act
      BY DEF Act
    <3> QED BY <1>4, <3>1, SpendType DEF Answered, CoreInv, ClusterTypeOK
  <2>4. ClusterTypeOK'
    BY <1>1, <2>2, <2>3 DEF CoreInv, ClusterTypeOK, claimStore, podStore, nodeStore, caches
  <2>5. WorkInv'
    <3>1. CASE Goto(w, "delete") /\ UNCHANGED <<claimQueue, judged>>
      BY <1>1, <1>2, <3>1, GotoKeeps DEF Pc
    <3>2. CASE Requeue(w)
      BY <1>1, <1>2, <3>2, GiveBack DEF CoreInv
    <3> QED BY <1>4, <3>1, <3>2 DEF Answered
  <2> QED BY <2>4, <2>5 DEF CoreInv
<1>5. CASE Refused(w, quotaAccepted(w))
  <2>1. quotaAccepted(w) \in BOOLEAN
    BY DEF quotaAccepted
  <2> QED BY <1>1, <1>2, <1>5, <2>1, RefusedKeeps
<1> QED BY <1>3, <1>4, <1>5 DEF updateResourceQuota

LEMMA DeleteClaimKeeps ==
    ASSUME CoreInv, NEW w \in ClaimWorker, deleteResourceQuotaClaim(w)
    PROVE  CoreInv'
<1> DEFINE key == worker[w].key
<1>1. /\ worker[w].pc = "delete"
      /\ UNCHANGED <<podStore, nodeStore, caches, lagged>>
  BY DEF deleteResourceQuotaClaim
<1>2. Busy(w) /\ key \in Key
  BY <1>1, InTheMiddle
<1>3. CASE RemoveClaim(key) /\ Answered(w, Forget(w)) /\ UNCHANGED quotaStore
  <2>1. budget' \in [Act -> Nat]
    <3>1. "faults" \in Act
      BY DEF Act
    <3> QED BY <1>3, <3>1, SpendType DEF Answered, CoreInv, ClusterTypeOK
  <2>2. ClusterTypeOK'
    BY <1>1, <1>2, <1>3, <2>1, RemoveClaimType
       DEF CoreInv, ClusterTypeOK, quotaStore, podStore, nodeStore, caches
  <2>3. WorkInv'
    BY <1>1, <1>2, <1>3, GiveBack DEF Answered, CoreInv
  <2> QED BY <2>2, <2>3 DEF CoreInv
<1>4. CASE Refused(w, claims[key] # None)
  BY <1>1, <1>2, <1>4, RefusedKeeps
<1> QED BY <1>3, <1>4 DEF deleteResourceQuotaClaim

(***************************************************************************)
(* Steps of the informers, the queue and the process.                      *)
(***************************************************************************)
LEMMA InformersKeep ==
    ASSUME CoreInv, Informers
    PROVE  CoreInv'
<1>1. ClusterTypeOK' /\ claimQueue \in QueueState(Key)
  BY InformerClusterType DEF CoreInv, WorkInv, ControllerTypeOK
<1>2. CASE DeliverClaim
  <2>1. Head(claimEvents).name \in Key
    BY <1>2, DeliverType DEF DeliverClaim, CoreInv, ClusterTypeOK
  <2> QED BY <1>1, <1>2, <2>1, QueueTypes, QueueProcessing, QueueOnly DEF DeliverClaim, CoreInv
<1>3. CASE DeliverPod
  <2>1. handlePod(PodNamespace[Head(podEvents).name]) \in SUBSET Key
    BY DEF handlePod
  <2> QED BY <1>1, <1>3, <2>1, AddAllKeeps, QueueOnly DEF DeliverPod, CoreInv
<1>4. CASE DeliverQuota \/ DeliverNode
  BY <1>1, <1>4, QueueOnly DEF DeliverQuota, DeliverNode, CoreInv, controllerVars
<1> QED BY <1>2, <1>3, <1>4 DEF Informers

LEMMA RetryKeeps ==
    ASSUME CoreInv, NEW key \in Key, RetryAfterBackoff(key)
    PROVE  CoreInv'
<1>1. claimQueue \in QueueState(Key) /\ ClusterTypeOK'
  BY StutterType DEF CoreInv, WorkInv, ControllerTypeOK, RetryAfterBackoff
<1> QED BY <1>1, QueueTypes, QueueProcessing, QueueOnly DEF RetryAfterBackoff, CoreInv

\* After a restart every worker is idle and holds nothing.
LEMMA RestartKeeps ==
    ASSUME CoreInv, Restart
    PROVE  CoreInv'
<1>1. ClusterTypeOK'
  BY RestartType DEF CoreInv
<1>2. /\ claimQueue' \in QueueState(Key)
      /\ worker' = [w \in ClaimWorker |-> Idle]
      /\ UNCHANGED <<judged, lagged>>
  BY DEF Restart, QueueState, EmptyQueue, AddAll
<1>3. \A w \in ClaimWorker : worker'[w] \in WorkerState /\ worker'[w].pc = "idle"
  BY <1>2, IdleType DEF Idle
<1>4. WorkInv'
  BY <1>2, <1>3 DEF CoreInv, WorkInv, ControllerTypeOK, WorkerHolds, NeverConcurrent, Busy
<1> QED BY <1>1, <1>4 DEF CoreInv

LEMMA CoreInit ==
    ASSUME ClaimControllerInit
    PROVE  CoreInv
<1>1. ClusterTypeOK
  <2>1. quotas \in [Namespace -> Quota \cup {None}]
    BY ClusterAssumption DEF ClaimControllerInit, ClusterInit, Quota
  <2>2. nodes \in [Node -> NodeState] /\ pods \in [Pod -> PodPhase] /\ budget \in [Act -> Nat]
    BY ClusterAssumption DEF ClaimControllerInit, ClusterInit
  <2> QED BY <2>1, <2>2, EmptySeq DEF ClaimControllerInit, ClusterInit, ClusterTypeOK
<1>2. \A w \in ClaimWorker : worker[w] \in WorkerState /\ worker[w].pc = "idle"
  BY IdleType DEF ClaimControllerInit, Idle
<1>3. WorkInv
  BY <1>2 DEF ClaimControllerInit, WorkInv, ControllerTypeOK, WorkerHolds, NeverConcurrent,
              Busy, QueueState, EmptyQueue
<1> QED BY <1>1, <1>3 DEF CoreInv

LEMMA CoreStep ==
    ASSUME CoreInv, [ClaimControllerNext]_vars
    PROVE  CoreInv'
<1>1. CASE Environment /\ UNCHANGED controllerVars
  <2>1. WorkInv'
    BY <1>1, QueueOnly DEF CoreInv, WorkInv, ControllerTypeOK, controllerVars
  <2> QED BY <1>1, <2>1, EnvironmentType DEF CoreInv
<1>2. CASE Informers
  BY <1>2, InformersKeep
<1>3. ASSUME NEW key \in Key, RetryAfterBackoff(key) PROVE CoreInv'
  BY <1>3, RetryKeeps
<1>4. ASSUME NEW w \in ClaimWorker, NEW key \in Key, TakeClaim(w, key) PROVE CoreInv'
  BY <1>4, Take, StutterType DEF TakeClaim, CoreInv
<1>5. ASSUME NEW w \in ClaimWorker, WorkerStep(w) PROVE CoreInv'
  BY <1>5, ReadClaimKeeps, CheckDownscaleKeeps, CheckCapacityKeeps,
     UpdateStatusKeeps, UpdateQuotaKeeps, DeleteClaimKeeps DEF WorkerStep
<1>6. CASE Restart
  BY <1>6, RestartKeeps
<1>7. CASE UNCHANGED vars
  <2>1. WorkInv'
    BY <1>7, QueueOnly DEF CoreInv, WorkInv, ControllerTypeOK, vars, claimVars, controllerVars
  <2> QED BY <1>7, <2>1, StutterType DEF CoreInv, vars, claimVars
<1> QED BY <1>1, <1>2, <1>3, <1>4, <1>5, <1>6, <1>7 DEF ClaimControllerNext, ClaimControllerStep

THEOREM CoreInvariant == SafetySpec => []CoreInv
<1>1. ClaimControllerInit => CoreInv
  BY CoreInit
<1>2. CoreInv /\ [ClaimControllerNext]_vars => CoreInv'
  BY CoreStep
<1> QED BY <1>1, <1>2, PTL DEF SafetySpec

\* Every variable keeps its type, whatever the API server, the informers and
\* the users do.
THEOREM TypeCorrect == SafetySpec => []TypeOK
<1> DEFINE Typed == namespaces \in [Namespace -> NamespaceState]
<1>1. ClaimControllerInit => Typed
  BY ClusterAssumption DEF ClaimControllerInit, ClusterInit
<1>2. Typed /\ [ClaimControllerNext]_vars => Typed'
  BY DEF ClaimControllerNext, vars
<1>3. CoreInv /\ Typed => TypeOK
  BY DEF CoreInv, WorkInv, TypeOK
<1> HIDE DEF Typed
<1> QED BY <1>1, <1>2, <1>3, CoreInvariant, PTL DEF SafetySpec

\* Two workers never handle the same claim at the same time.
THEOREM MutualExclusion == SafetySpec => []NeverConcurrent
<1>1. CoreInv => NeverConcurrent
  BY DEF CoreInv, WorkInv
<1> QED BY <1>1, CoreInvariant, PTL

(***************************************************************************)
(* How a worker comes to apply a claim, and how a quota comes by its       *)
(* amounts: what the theorems about quotas need to know of a step.         *)
(***************************************************************************)
PassesChecks(w) ==
    /\ worker[w].pc = "capacity"
    /\ capacityMessage(NamespaceOf(w), worker[w].claim.spec) = EmptyMsg
    /\ Relied(Namespace \ {NamespaceOf(w)})
    /\ UNCHANGED quotas
    /\ worker'[w] = [worker[w] EXCEPT !.pc = "apply"]

LEMMA EntersApply ==
    ASSUME CoreInv, [ClaimControllerNext]_vars, NEW w \in ClaimWorker, worker'[w].pc = "apply"
    PROVE  worker'[w] = worker[w] \/ PassesChecks(w)
<1>1. worker \in [ClaimWorker -> WorkerState]
  BY DEF CoreInv, WorkInv, ControllerTypeOK
<1>2. CASE UNCHANGED worker
  BY <1>2
<1>3. ASSUME NEW v \in ClaimWorker, Forget(v) \/ Requeue(v)
      PROVE  worker'[w] = worker[w]
  <2>1. worker' = [worker EXCEPT ![v] = Idle]
    BY <1>3 DEF Forget, Requeue
  <2> QED BY <1>1, <2>1 DEF Idle
<1>4. ASSUME NEW v \in ClaimWorker, NEW phase, NEW message, Verdict(v, phase, message)
      PROVE  worker'[w] = worker[w]
  BY <1>1, <1>4 DEF Verdict, WorkerState
<1>5. ASSUME NEW v \in ClaimWorker, NEW key \in Key, TakeClaim(v, key)
      PROVE  worker'[w] = worker[w]
  <2>1. worker' = [worker EXCEPT ![v] = [Idle EXCEPT !.pc = "read", !.key = key]]
    BY <1>5 DEF TakeClaim
  <2> QED BY <1>1, <2>1 DEF Idle
<1>6. ASSUME NEW v \in ClaimWorker, ReadClaim(v)
      PROVE  worker'[w] = worker[w]
  <2>1. CASE Forget(v)
    BY <1>3, <2>1
  <2>2. CASE worker' = [worker EXCEPT ![v].pc = "downscale",
                                      ![v].claim = claimCache[worker[v].key]]
    BY <1>1, <2>2 DEF WorkerState
  <2> QED BY <1>6, <2>1, <2>2 DEF ReadClaim
<1>7. ASSUME NEW v \in ClaimWorker, CheckDownscale(v)
      PROVE  worker'[w] = worker[w]
  <2>1. ASSUME NEW hard, NEW running, PassDownscale(v, hard, running)
        PROVE  worker'[w] = worker[w]
    BY <1>1, <2>1 DEF PassDownscale, WorkerState
  <2> QED BY <1>4, <1>7, <2>1 DEF CheckDownscale
<1>8. ASSUME NEW v \in ClaimWorker, CheckCapacity(v)
      PROVE  worker'[w] = worker[w] \/ PassesChecks(w)
  <2>1. CASE /\ capacityMessage(NamespaceOf(v), worker[v].claim.spec) = EmptyMsg
             /\ Goto(v, "apply")
             /\ Relied(Namespace \ {NamespaceOf(v)})
    <3>1. CASE v = w
      <4>1. worker'[w] = [worker[w] EXCEPT !.pc = "apply"]
        BY <1>1, <2>1, <3>1 DEF Goto
      <4>2. worker[w].pc = "capacity" /\ UNCHANGED quotas
        BY <1>8, <3>1 DEF CheckCapacity, clusterVars, quotaStore
      <4> QED BY <2>1, <3>1, <4>1, <4>2 DEF PassesChecks
    <3>2. CASE v # w
      BY <1>1, <2>1, <3>2 DEF Goto
    <3> QED BY <3>1, <3>2
  <2> QED BY <1>4, <1>8, <2>1 DEF CheckCapacity
<1>9. ASSUME NEW v \in ClaimWorker, updateResourceQuota(v)
      PROVE  worker'[w] = worker[w]
  <2>1. CASE Goto(v, "delete")
    BY <1>1, <2>1 DEF Goto, WorkerState
  <2> QED BY <1>3, <1>9, <2>1 DEF updateResourceQuota, Answered, Refused
<1>10. ASSUME NEW v \in ClaimWorker, UpdateStatus(v) \/ deleteResourceQuotaClaim(v)
       PROVE  worker'[w] = worker[w]
  BY <1>3, <1>10 DEF UpdateStatus, deleteResourceQuotaClaim, Answered, Refused
<1>11. CASE Restart
  BY <1>11 DEF Restart, Idle
<1>12. CASE \/ Environment /\ UNCHANGED controllerVars
            \/ Informers
            \/ \E key \in Key : RetryAfterBackoff(key)
            \/ UNCHANGED vars
  BY <1>2, <1>12 DEF Informers, DeliverClaim, DeliverPod, DeliverQuota, DeliverNode,
                     RetryAfterBackoff, controllerVars, vars, claimVars
<1> QED BY <1>5, <1>6, <1>7, <1>8, <1>9, <1>10, <1>11, <1>12 DEF ClaimControllerNext, ClaimControllerStep, WorkerStep

\* A quota has the amounts it had, or is gone, or has just been given those of
\* the claim a worker applies.
Applies(w, ns) ==
    /\ worker[w].pc = "apply"
    /\ ns = NamespaceOf(w)
    /\ quotas'[ns].hard = worker[w].claim.spec
    /\ worker[w].claim.spec \in NatAmount
    /\ \A m \in Namespace \ {ns} : quotas'[m] = quotas[m]
    /\ worker'[w].pc \in {"idle", "delete"}
    /\ \A v \in ClaimWorker \ {w} : worker'[v] = worker[v]

LEMMA QuotaStep ==
    ASSUME CoreInv, [ClaimControllerNext]_vars, NEW ns \in Namespace, quotas'[ns] # None
    PROVE  \/ quotas[ns] # None /\ quotas'[ns].hard = quotas[ns].hard
           \/ \E w \in ClaimWorker : Applies(w, ns)
<1>1. quotas \in [Namespace -> Quota \cup {None}]
  BY DEF CoreInv, ClusterTypeOK
<1>2. CASE UNCHANGED quotas
  BY <1>2
<1>3. ASSUME NEW m \in Namespace, DeleteQuota(m)
      PROVE  quotas[ns] # None /\ quotas'[ns].hard = quotas[ns].hard
  BY <1>1, <1>3 DEF DeleteQuota, PutQuota, quotaStore
<1>4. ASSUME NEW m \in Namespace, SyncQuotaStatus(m)
      PROVE  quotas[ns] # None /\ quotas'[ns].hard = quotas[ns].hard
  <2> DEFINE object == [quotas[m] EXCEPT !.statusHard = quotas[m].hard]
  <2>1. quotas[m] \in Quota /\ quotas[m] # None
    BY <1>1, <1>4 DEF SyncQuotaStatus
  <2>2. object.hard = quotas[m].hard
    BY <2>1 DEF Quota
  <2>3. quotas' = quotas \/ quotas' = [quotas EXCEPT ![m] = object]
    BY <1>4 DEF SyncQuotaStatus, PutQuota, quotaStore
  <2> HIDE DEF object
  <2> QED BY <1>1, <2>1, <2>2, <2>3
<1>5. ASSUME NEW w \in ClaimWorker, updateResourceQuota(w)
      PROVE  UNCHANGED quotas \/ quotas'[ns] = quotas[ns] \/ Applies(w, ns)
  <2>1. worker[w].pc = "apply" /\ NamespaceOf(w) \in Namespace
    BY <1>5, InTheMiddle DEF updateResourceQuota
  <2>2. CASE /\ quotaAccepted(w)
             /\ PutQuota(NamespaceOf(w), newResourceQuota(w))
             /\ Answered(w, Goto(w, "delete") /\ UNCHANGED <<claimQueue, judged>>)
    <3>1. newResourceQuota(w).hard = worker[w].claim.spec
      BY DEF newResourceQuota
    <3>2. \/ quotas' = quotas
          \/ quotas' = [quotas EXCEPT ![NamespaceOf(w)] = newResourceQuota(w)]
      BY <2>2 DEF PutQuota, quotaStore
    <3>3. worker \in [ClaimWorker -> WorkerState]
      BY DEF CoreInv, WorkInv, ControllerTypeOK
    <3>4. /\ worker'[w].pc \in {"idle", "delete"}
          /\ \A v \in ClaimWorker \ {w} : worker'[v] = worker[v]
      BY <2>2, <3>3 DEF Answered, Goto, Requeue, Idle, WorkerState
    <3> QED BY <1>1, <2>1, <2>2, <3>1, <3>2, <3>4 DEF Applies, quotaAccepted
  <2> QED BY <1>5, <2>2 DEF updateResourceQuota, Refused, quotaStore
<1>6. ASSUME NEW w \in ClaimWorker,
             \/ ReadClaim(w) \/ CheckDownscale(w) \/ CheckCapacity(w)
             \/ UpdateStatus(w) \/ deleteResourceQuotaClaim(w)
      PROVE  UNCHANGED quotas
  BY <1>6 DEF ReadClaim, CheckDownscale, CheckCapacity, UpdateStatus,
              deleteResourceQuotaClaim, Refused, clusterVars, quotaStore
<1>7. CASE \/ Informers
           \/ \E key \in Key : RetryAfterBackoff(key)
           \/ \E w \in ClaimWorker, key \in Key : TakeClaim(w, key)
           \/ Restart
           \/ UNCHANGED vars
  <2>1. UNCHANGED quotas
    BY <1>7 DEF Informers, DeliverClaim, DeliverPod, DeliverQuota, DeliverNode,
                RetryAfterBackoff, TakeClaim, Restart, vars, claimVars, clusterVars, quotaStore
  <2> QED BY <1>2, <2>1
<1>8. CASE Environment
  <2>1. \/ UNCHANGED quotas
        \/ \E m \in Namespace : DeleteQuota(m) \/ SyncQuotaStatus(m)
    BY <1>8 DEF Environment, CreateClaim, EditClaim, DeleteClaim, CreatePod, RunPod,
                CompletePod, DeletePod, ChangeNode, quotaStore
  <2> QED BY <1>2, <1>3, <1>4, <2>1
<1> QED BY <1>2, <1>5, <1>6, <1>7, <1>8 DEF ClaimControllerNext, ClaimControllerStep, WorkerStep

(***************************************************************************)
(* The allocation limit.                                                   *)
(***************************************************************************)

\* A claim that is being applied passed the limit check when its worker looked,
\* and the limit of the whole cluster bounds the limit of any view of it.
LimitInv ==
    /\ QuotaWithinAllocationLimit
    /\ \A w \in ClaimWorker : worker[w].pc = "apply" =>
          Covers(allocationLimit(WholeCluster), worker[w].claim.spec)

LEMMA PassedLimit ==
    ASSUME CoreInv, NEW ns, NEW spec \in Amount, capacityMessage(ns, spec) = EmptyMsg
    PROVE  Covers(allocationLimit(WholeCluster), spec)
<1> DEFINE available == nodesTotalCapacity(nodeCache, NodeCapacity)
<1>1. available \in NatAmount /\ WholeCluster \in NatAmount /\ Covers(WholeCluster, available)
  BY CapacityType DEF CoreInv
<1>2. checkAllocationLimit(spec, available) = EmptyMsg
  BY DEF capacityMessage
<1>3. Covers(allocationLimit(available), spec)
  BY <1>1, <1>2, AllocationLimitCheck
<1>4. /\ Covers(allocationLimit(WholeCluster), allocationLimit(available))
      /\ allocationLimit(WholeCluster) \in NatAmount /\ allocationLimit(available) \in NatAmount
  BY <1>1, LimitMonotone
<1> QED BY <1>3, <1>4 DEF Covers, NatAmount, Amount

LEMMA LimitStep ==
    ASSUME CoreInv, LimitInv, [ClaimControllerNext]_vars
    PROVE  LimitInv'
<1>1. ASSUME NEW ns \in Namespace, quotas'[ns] # None
      PROVE  Covers(allocationLimit(WholeCluster), quotas'[ns].hard)
  <2>1. CASE quotas[ns] # None /\ quotas'[ns].hard = quotas[ns].hard
    BY <2>1 DEF LimitInv, QuotaWithinAllocationLimit
  <2>2. ASSUME NEW w \in ClaimWorker, Applies(w, ns)
        PROVE  Covers(allocationLimit(WholeCluster), quotas'[ns].hard)
    BY <2>2 DEF Applies, LimitInv
  <2> QED BY <1>1, <2>1, <2>2, QuotaStep
<1>2. ASSUME NEW w \in ClaimWorker, worker'[w].pc = "apply"
      PROVE  Covers(allocationLimit(WholeCluster), worker'[w].claim.spec)
  <2>1. CASE worker'[w] = worker[w]
    BY <1>2, <2>1 DEF LimitInv
  <2>2. CASE PassesChecks(w)
    <3>1. worker[w].claim.spec \in Amount /\ worker'[w].claim = worker[w].claim
      BY <2>2, InTheMiddle DEF PassesChecks, WorkerState
    <3> QED BY <2>2, <3>1, PassedLimit DEF PassesChecks
  <2> QED BY <1>2, <2>1, <2>2, EntersApply
<1>3. WholeCluster' = WholeCluster
  BY DEF WholeCluster
<1> QED BY <1>1, <1>2, <1>3 DEF LimitInv, QuotaWithinAllocationLimit, allocationLimit, Covers

LEMMA LimitInit ==
    ASSUME ClaimControllerInit
    PROVE  LimitInv
BY InitialQuotaAssumption
   DEF ClaimControllerInit, ClusterInit, LimitInv, QuotaWithinAllocationLimit, Idle

\* No quota exceeds the share of the cluster a namespace may claim, although the
\* check reads lagging caches and the quota is written steps later.
THEOREM LimitHolds == SafetySpec => []QuotaWithinAllocationLimit
<1>1. ClaimControllerInit => LimitInv
  BY LimitInit
<1>2. CoreInv /\ LimitInv /\ [ClaimControllerNext]_vars => LimitInv'
  BY LimitStep
<1>3. LimitInv => QuotaWithinAllocationLimit
  BY DEF LimitInv
<1> QED BY <1>1, <1>2, <1>3, CoreInvariant, PTL DEF SafetySpec

(***************************************************************************)
(* What a worker holds after a step it held before, or took from the       *)
(* cache.                                                                  *)
(***************************************************************************)
Holds(w) == worker'[w].key = worker[w].key /\ worker'[w].claim = worker[w].claim /\ Busy(w)
HoldsNothing(w) == worker'[w].claim = None
HoldsCached(w) ==
    /\ worker[w].key \in Key
    /\ worker'[w].key = worker[w].key
    /\ worker'[w].claim = claimCache[worker[w].key]

LEMMA HandStep ==
    ASSUME CoreInv, [ClaimControllerNext]_vars, NEW w \in ClaimWorker
    PROVE  worker'[w] = worker[w] \/ Holds(w) \/ HoldsNothing(w) \/ HoldsCached(w)
<1>1. worker \in [ClaimWorker -> WorkerState]
  BY DEF CoreInv, WorkInv, ControllerTypeOK
<1>2. ASSUME NEW v \in ClaimWorker, Forget(v) \/ Requeue(v)
      PROVE  worker'[w] = worker[w] \/ HoldsNothing(w)
  <2>1. worker' = [worker EXCEPT ![v] = Idle]
    BY <1>2 DEF Forget, Requeue
  <2> QED BY <1>1, <2>1 DEF Idle, HoldsNothing
<1>3. ASSUME NEW v \in ClaimWorker, Busy(v), NEW pc, Goto(v, pc)
      PROVE  worker'[w] = worker[w] \/ Holds(w)
  BY <1>1, <1>3 DEF Goto, WorkerState, Holds
<1>4. ASSUME NEW v \in ClaimWorker, Busy(v), NEW phase, NEW message, Verdict(v, phase, message)
      PROVE  worker'[w] = worker[w] \/ Holds(w)
  BY <1>1, <1>4 DEF Verdict, WorkerState, Holds
<1>5. ASSUME NEW v \in ClaimWorker, NEW key \in Key, TakeClaim(v, key)
      PROVE  worker'[w] = worker[w] \/ HoldsNothing(w)
  <2>1. worker' = [worker EXCEPT ![v] = [Idle EXCEPT !.pc = "read", !.key = key]]
    BY <1>5 DEF TakeClaim
  <2> QED BY <1>1, <2>1 DEF Idle, HoldsNothing
<1>6. ASSUME NEW v \in ClaimWorker, ReadClaim(v)
      PROVE  worker'[w] = worker[w] \/ HoldsNothing(w) \/ HoldsCached(w)
  <2>1. CASE Forget(v)
    BY <1>2, <2>1
  <2>2. CASE worker' = [worker EXCEPT ![v].pc = "downscale",
                                      ![v].claim = claimCache[worker[v].key]]
    <3>1. worker[v].key \in Key
      BY <1>6 DEF ReadClaim, Busy, CoreInv, WorkInv, ControllerTypeOK, WorkerHolds, QueueState
    <3> QED BY <1>1, <2>2, <3>1 DEF WorkerState, HoldsCached
  <2> QED BY <1>6, <2>1, <2>2 DEF ReadClaim
<1>7. ASSUME NEW v \in ClaimWorker, CheckDownscale(v) \/ CheckCapacity(v)
      PROVE  worker'[w] = worker[w] \/ Holds(w)
  <2>1. Busy(v)
    BY <1>7 DEF CheckDownscale, CheckCapacity, Busy
  <2>2. ASSUME NEW hard, NEW running, PassDownscale(v, hard, running)
        PROVE  worker'[w] = worker[w] \/ Holds(w)
    BY <1>1, <2>1, <2>2 DEF PassDownscale, WorkerState, Holds
  <2> QED BY <1>3, <1>4, <1>7, <2>1, <2>2 DEF CheckDownscale, CheckCapacity
<1>8. ASSUME NEW v \in ClaimWorker,
             UpdateStatus(v) \/ updateResourceQuota(v) \/ deleteResourceQuotaClaim(v)
      PROVE  worker'[w] = worker[w] \/ Holds(w) \/ HoldsNothing(w)
  <2>1. Busy(v)
    BY <1>8 DEF UpdateStatus, updateResourceQuota, deleteResourceQuotaClaim, Busy
  <2> QED BY <1>2, <1>3, <1>8, <2>1
             DEF UpdateStatus, updateResourceQuota, deleteResourceQuotaClaim, Answered, Refused
<1>9. CASE Restart
  BY <1>9 DEF Restart, Idle, HoldsNothing
<1>10. CASE \/ Environment /\ UNCHANGED controllerVars
            \/ Informers
            \/ \E key \in Key : RetryAfterBackoff(key)
            \/ UNCHANGED vars
  BY <1>10 DEF Informers, DeliverClaim, DeliverPod, DeliverQuota, DeliverNode,
               RetryAfterBackoff, controllerVars, vars, claimVars
<1> QED BY <1>5, <1>6, <1>7, <1>8, <1>9, <1>10 DEF ClaimControllerNext, ClaimControllerStep, WorkerStep
=============================================================================
