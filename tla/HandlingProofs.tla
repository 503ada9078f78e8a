--------------------------- MODULE HandlingProofs ---------------------------
(***************************************************************************)
(* No claim is forgotten.  Three facts carry the argument: the stream of   *)
(* claim events ends, for each claim, with what the API server holds; a    *)
(* worker that works on an older version than the cache shows has its key  *)
(* marked dirty; and a version in the cache that has not been handled is   *)
(* known to the work queue.                                                *)
(***************************************************************************)
EXTENDS ClaimProofs

\* The cache shows what the API server holds, unless an event is on its way;
\* the last event about a claim carries what the API server holds.
StreamInv ==
    \A k \in Key :
        /\ (\A i \in 1 .. Len(claimEvents) : claimEvents[i].name # k) => claimCache[k] = claims[k]
        /\ \A i \in 1 .. Len(claimEvents) :
              /\ claimEvents[i].name = k
              /\ \A j \in (i + 1) .. Len(claimEvents) : claimEvents[j].name # k
              => claimEvents[i].object = claims[k]

PastReading(w) == worker[w].pc \notin {"idle", "read"}

StaleInv ==
    \A w \in ClaimWorker :
        LET k == worker[w].key
        IN  PastReading(w) /\ claimCache[k] # None =>
               worker[w].claim.version = claimCache[k].version \/ k \in claimQueue.dirty

KnownInv ==
    \A k \in Key :
        claimCache[k] # None /\ judged[k] # claimCache[k].version => k \in Known(claimQueue)

HandledInv == StreamInv /\ StaleInv /\ KnownInv

(***************************************************************************)
(* The stream of claim events.                                             *)
(***************************************************************************)
LEMMA WriteKeepsStream ==
    ASSUME CoreInv, StreamInv, NEW key \in Key, NEW object \in Claim \cup {None},
           claims' = [claims EXCEPT ![key] = object],
           claimEvents' = Append(claimEvents, [name |-> key, object |-> object]),
           UNCHANGED claimCache
    PROVE  StreamInv'
<1> DEFINE n == Len(claimEvents)
           event == [name |-> key, object |-> object]
<1>1. /\ claims \in [Key -> Claim \cup {None}]
      /\ claimEvents \in Seq(Event(Key, Claim \cup {None}))
      /\ n \in Nat
      /\ event \in Event(Key, Claim \cup {None})
  BY LenProperties DEF CoreInv, ClusterTypeOK, Event
<1>2. /\ Len(claimEvents') = n + 1
      /\ \A i \in 1 .. n : claimEvents'[i] = claimEvents[i]
      /\ claimEvents'[n + 1] = event
  BY <1>1, AppendProperties
<1>3. event.name = key /\ event.object = object
  OBVIOUS
<1> HIDE DEF event
<1> SUFFICES ASSUME NEW k \in Key
             PROVE  /\ (\A i \in 1 .. (n + 1) : claimEvents'[i].name # k)
                          => claimCache[k] = claims'[k]
                    /\ \A i \in 1 .. (n + 1) :
                          /\ claimEvents'[i].name = k
                          /\ \A j \in (i + 1) .. (n + 1) : claimEvents'[j].name # k
                          => claimEvents'[i].object = claims'[k]
  BY <1>2 DEF StreamInv
<1>4. n + 1 \in 1 .. (n + 1) /\ claimEvents'[n + 1].name = key
  BY <1>1, <1>2, <1>3
<1>5. CASE k = key
  <2>1. ASSUME NEW i \in 1 .. (n + 1), \A j \in (i + 1) .. (n + 1) : claimEvents'[j].name # k
        PROVE  i = n + 1
    BY <1>1, <1>4, <1>5, <2>1
  <2>2. claims'[k] = object
    BY <1>1, <1>5
  <2> QED BY <1>2, <1>3, <1>4, <1>5, <2>1, <2>2
<1>6. CASE k # key
  <2>1. claims'[k] = claims[k]
    BY <1>1, <1>6
  <2>2. 1 .. n \subseteq 1 .. (n + 1)
    BY <1>1
  <2>3. (\A i \in 1 .. (n + 1) : claimEvents'[i].name # k) => claimCache[k] = claims[k]
    BY <1>2, <2>2 DEF StreamInv
  <2>4. ASSUME NEW i \in 1 .. (n + 1), claimEvents'[i].name = k,
               \A j \in (i + 1) .. (n + 1) : claimEvents'[j].name # k
        PROVE  claimEvents'[i].object = claims[k]
    <3>1. i \in 1 .. n
      BY <1>1, <1>4, <1>6, <2>4
    <3>2. \A j \in (i + 1) .. n : claimEvents[j].name # k
      BY <1>1, <1>2, <2>4, <3>1
    <3> QED BY <1>2, <2>4, <3>1, <3>2 DEF StreamInv
  <2> QED BY <2>1, <2>3, <2>4
<1> QED BY <1>5, <1>6

LEMMA DeliverKeepsStream ==
    ASSUME CoreInv, StreamInv, DeliverClaim
    PROVE  StreamInv'
<1> DEFINE n == Len(claimEvents)
           head == Head(claimEvents)
<1>1. /\ claimEvents \in Seq(Event(Key, Claim \cup {None}))
      /\ claimCache \in [Key -> Claim \cup {None}]
      /\ claimEvents # <<>>
  BY DEF CoreInv, ClusterTypeOK, DeliverClaim
<1>2. /\ n \in Nat \ {0}
      /\ head = claimEvents[1]
      /\ Len(claimEvents') = n - 1
      /\ \A i \in 1 .. (n - 1) : claimEvents'[i] = claimEvents[i + 1]
  BY <1>1, HeadTailProperties, EmptySeq, LenProperties DEF DeliverClaim
<1>3. /\ head.name \in Key
      /\ claimCache' = [claimCache EXCEPT ![head.name] = head.object]
      /\ UNCHANGED claims
  BY <1>1, DeliverType DEF DeliverClaim, Deliver
<1> HIDE DEF head
<1> SUFFICES ASSUME NEW k \in Key
             PROVE  /\ (\A i \in 1 .. (n - 1) : claimEvents'[i].name # k)
                          => claimCache'[k] = claims[k]
                    /\ \A i \in 1 .. (n - 1) :
                          /\ claimEvents'[i].name = k
                          /\ \A j \in (i + 1) .. (n - 1) : claimEvents'[j].name # k
                          => claimEvents'[i].object = claims[k]
  BY <1>2, <1>3 DEF StreamInv
<1>4. ASSUME \A i \in 1 .. (n - 1) : claimEvents'[i].name # k
      PROVE  claimCache'[k] = claims[k]
  <2>1. \A i \in 2 .. n : claimEvents[i].name # k
    <3> SUFFICES ASSUME NEW i \in 2 .. n PROVE claimEvents[i].name # k
      OBVIOUS
    <3>1. i - 1 \in 1 .. (n - 1) /\ (i - 1) + 1 = i
      BY <1>2
    <3> QED BY <1>2, <1>4, <3>1
  <2>2. CASE head.name = k
    <3>1. claimEvents[1].object = claims[k]
      BY <1>2, <2>1, <2>2 DEF StreamInv
    <3> QED BY <1>1, <1>2, <1>3, <2>2, <3>1
  <2>3. CASE head.name # k
    <3>1. \A i \in 1 .. n : claimEvents[i].name # k
      <4> SUFFICES ASSUME NEW i \in 1 .. n PROVE claimEvents[i].name # k
        OBVIOUS
      <4>1. i = 1 \/ i \in 2 .. n
        BY <1>2
      <4> QED BY <1>2, <2>1, <2>3, <4>1
    <3>2. claimCache'[k] = claimCache[k]
      BY <1>1, <1>3, <2>3
    <3> QED BY <3>1, <3>2 DEF StreamInv
  <2> QED BY <2>2, <2>3
<1>5. ASSUME NEW i \in 1 .. (n - 1), claimEvents'[i].name = k,
             \A j \in (i + 1) .. (n - 1) : claimEvents'[j].name # k
      PROVE  claimEvents'[i].object = claims[k]
  <2>1. i + 1 \in 1 .. n /\ claimEvents'[i] = claimEvents[i + 1]
    BY <1>2
  <2>2. ASSUME NEW j \in (i + 1 + 1) .. n PROVE claimEvents[j].name # k
    <3>1. j - 1 \in (i + 1) .. (n - 1) /\ j - 1 \in 1 .. (n - 1) /\ (j - 1) + 1 = j
      BY <1>2
    <3> QED BY <1>2, <1>5, <3>1
  <2> QED BY <1>5, <2>1, <2>2 DEF StreamInv
<1> QED BY <1>4, <1>5

LEMMA StreamStep ==
    ASSUME CoreInv, StreamInv, [ClaimControllerNext]_vars
    PROVE  StreamInv'
<1>1. CASE UNCHANGED <<claims, claimEvents, claimCache>>
  BY <1>1 DEF StreamInv
<1>2. ASSUME NEW key \in Key, NEW spec \in Amount, NEW status \in Status,
             PutClaim(key, spec, status), UNCHANGED claimCache
      PROVE  StreamInv'
  <2> DEFINE object == [spec |-> spec, status |-> status, version |-> revision[key] + 1]
  <2>1. object \in Claim
    BY DEF CoreInv, ClusterTypeOK, Claim
  <2>2. /\ claims' = [claims EXCEPT ![key] = object]
        /\ claimEvents' = Append(claimEvents, [name |-> key, object |-> object])
    BY <1>2 DEF PutClaim
  <2> HIDE DEF object
  <2> QED BY <1>2, <2>1, <2>2, WriteKeepsStream
<1>3. ASSUME NEW key \in Key, RemoveClaim(key), UNCHANGED claimCache
      PROVE  StreamInv'
  BY <1>3, WriteKeepsStream DEF RemoveClaim
<1>4. CASE Environment
  <2>1. ASSUME NEW key \in Key, NEW spec \in ClaimSpec,
               CreateClaim(key, spec) \/ EditClaim(key, spec)
        PROVE  StreamInv'
    <3>1. spec \in Amount /\ NoStatus \in Status
      BY ClusterAssumption, StatusTypes
    <3>2. CASE CreateClaim(key, spec)
      BY <1>2, <3>1, <3>2 DEF CreateClaim, caches
    <3>3. CASE EditClaim(key, spec)
      <4>1. claims[key].status \in Status
        BY <3>3 DEF EditClaim, CoreInv, ClusterTypeOK, Claim
      <4> QED BY <1>2, <3>1, <3>3, <4>1 DEF EditClaim, caches
    <3> QED BY <2>1, <3>2, <3>3
  <2>2. ASSUME NEW key \in Key, DeleteClaim(key) PROVE StreamInv'
    BY <1>3, <2>2 DEF DeleteClaim, caches
  <2>3. CASE \/ \E ns \in Namespace : DeleteQuota(ns) \/ SyncQuotaStatus(ns)
             \/ \E p \in Pod : CreatePod(p) \/ RunPod(p) \/ CompletePod(p) \/ DeletePod(p)
             \/ \E n \in Node, state \in NodeStates : ChangeNode(n, state)
    BY <1>1, <2>3 DEF DeleteQuota, SyncQuotaStatus, CreatePod, RunPod, CompletePod,
                      DeletePod, ChangeNode, claimStore, caches
  <2> QED BY <1>4, <2>1, <2>2, <2>3 DEF Environment
<1>5. ASSUME NEW w \in ClaimWorker, UpdateStatus(w) PROVE StreamInv'
  <2>1. worker[w].pc = "status" /\ UNCHANGED claimCache
    BY <1>5 DEF UpdateStatus, caches
  <2>2. worker[w].key \in Key /\ worker[w].status \in Status
    BY <2>1, InTheMiddle DEF WorkerState
  <2>3. CASE statusAccepted(w) /\ PutClaim(worker[w].key, claims[worker[w].key].spec, worker[w].status)
    <3>1. claims[worker[w].key].spec \in Amount
      BY <2>2, <2>3 DEF statusAccepted, CoreInv, ClusterTypeOK, Claim
    <3> QED BY <1>2, <2>1, <2>2, <2>3, <3>1
  <2>4. CASE UNCHANGED claimStore
    BY <1>1, <2>1, <2>4 DEF claimStore
  <2> QED BY <1>5, <2>3, <2>4 DEF UpdateStatus, Refused
<1>6. ASSUME NEW w \in ClaimWorker, deleteResourceQuotaClaim(w) PROVE StreamInv'
  <2>1. worker[w].key \in Key /\ UNCHANGED claimCache
    BY <1>6, InTheMiddle DEF deleteResourceQuotaClaim, caches
  <2> QED BY <1>1, <1>3, <1>6, <2>1 DEF deleteResourceQuotaClaim, Refused, claimStore
<1>7. ASSUME NEW w \in ClaimWorker, ReadClaim(w) \/ CheckDownscale(w) \/ CheckCapacity(w)
                                     \/ updateResourceQuota(w)
      PROVE  StreamInv'
  BY <1>1, <1>7 DEF ReadClaim, CheckDownscale, CheckCapacity, updateResourceQuota,
                    clusterVars, claimStore, caches
<1>8. CASE DeliverClaim
  BY <1>8, DeliverKeepsStream
<1>9. CASE Restart
  <2>1. claimEvents' = <<>> /\ claimCache' = claims /\ claims' = claims
    BY <1>9 DEF Restart, Relist
  <2> QED BY <2>1, EmptySeq DEF StreamInv
<1>10. CASE \/ DeliverPod \/ DeliverQuota \/ DeliverNode
            \/ \E key \in Key : RetryAfterBackoff(key)
            \/ \E w \in ClaimWorker, key \in Key : TakeClaim(w, key)
            \/ UNCHANGED vars
  BY <1>1, <1>10 DEF DeliverPod, DeliverQuota, DeliverNode, RetryAfterBackoff, TakeClaim,
                     vars, claimVars, clusterVars, claimStore, caches
<1> QED BY <1>4, <1>5, <1>6, <1>7, <1>8, <1>9, <1>10 DEF ClaimControllerNext, ClaimControllerStep, WorkerStep, Informers

(***************************************************************************)
(* The work queue.  Each lemma is about one way a step may move the queue, *)
(* the workers and the cache of claims.                                    *)
(***************************************************************************)
QueueInv == StaleInv /\ KnownInv

LEMMA QueueSets ==
    ASSUME NEW q \in QueueState(Key), NEW key \in Key
    PROVE  /\ Add(q, key).dirty = q.dirty \cup {key}
           /\ Add(q, key).waiting = q.waiting
           /\ AddAfterBackoff(q, key).dirty = q.dirty \cup {key}
           /\ AddAfterBackoff(q, key).waiting = q.waiting \ {key}
           /\ Get(q, key).dirty = q.dirty \ {key}
           /\ Get(q, key).waiting = q.waiting
           /\ Done(q, key).dirty = q.dirty
           /\ Done(q, key).waiting = q.waiting
           /\ AddRateLimited(q, key).dirty = q.dirty
           /\ AddRateLimited(q, key).waiting = q.waiting \cup {key}
BY DEF QueueState, AddAll, Add, AddAfterBackoff, Get, Done, AddRateLimited

\* The queue only learns of more.
LEMMA MoreQueued ==
    ASSUME QueueInv, UNCHANGED <<claimCache, worker, judged>>,
           claimQueue.dirty \subseteq claimQueue'.dirty,
           Known(claimQueue) \subseteq Known(claimQueue')
    PROVE  QueueInv'
<1>1. StaleInv'
  BY DEF QueueInv, StaleInv, PastReading
<1>2. Known(claimQueue)' = Known(claimQueue')
  BY DEF Known
<1>3. KnownInv'
  BY <1>2 DEF QueueInv, KnownInv
<1> QED BY <1>1, <1>3 DEF QueueInv

\* A version that is new to the cache marks its key dirty.
LEMMA DeliverKeepsQueue ==
    ASSUME CoreInv, QueueInv, DeliverClaim
    PROVE  QueueInv'
<1> DEFINE key == Head(claimEvents).name
           old == claimCache[key]
           new == Head(claimEvents).object
<1>1. /\ claimCache \in [Key -> Claim \cup {None}]
      /\ claimQueue \in QueueState(Key)
      /\ key \in Key
      /\ claimCache' = [claimCache EXCEPT ![key] = new]
      /\ UNCHANGED <<worker, judged>>
  BY DeliverType DEF CoreInv, WorkInv, ControllerTypeOK, ClusterTypeOK, DeliverClaim, Deliver
<1>2. claimQueue' = IF new # None /\ (old = None \/ new.version # old.version)
                    THEN Add(claimQueue, key) ELSE claimQueue
  BY DEF DeliverClaim, enqueueOnClaimEvent
<1> HIDE DEF key, new
<1>3. /\ claimQueue.dirty \subseteq claimQueue'.dirty
      /\ Known(claimQueue) \subseteq Known(claimQueue')
  BY <1>1, <1>2, QueueSets, QueueProcessing DEF Known
<1>4. \/ new = None
      \/ key \in claimQueue'.dirty
      \/ old # None /\ new.version = old.version
  BY <1>1, <1>2, QueueSets
<1>5. claimCache'[key] = new /\ \A k \in Key \ {key} : claimCache'[k] = claimCache[k]
  BY <1>1
<1>6. StaleInv'
  <2> SUFFICES ASSUME NEW w \in ClaimWorker, PastReading(w), claimCache'[worker[w].key] # None
               PROVE  \/ worker[w].claim.version = claimCache'[worker[w].key].version
                      \/ worker[w].key \in claimQueue'.dirty
    BY <1>1 DEF StaleInv, PastReading
  <2>1. worker[w].key \in Key
    BY InTheMiddle DEF PastReading
  <2>2. CASE worker[w].key = key
    BY <1>3, <1>4, <1>5, <2>2 DEF QueueInv, StaleInv
  <2>3. CASE worker[w].key # key
    BY <1>3, <1>5, <2>1, <2>3 DEF QueueInv, StaleInv
  <2> QED BY <2>2, <2>3
<1>7. KnownInv'
  <2> SUFFICES ASSUME NEW k \in Key, claimCache'[k] # None, judged[k] # claimCache'[k].version
               PROVE  k \in Known(claimQueue')
    BY <1>1 DEF KnownInv, Known
  <2>1. CASE k = key
    BY <1>3, <1>4, <1>5, <2>1 DEF QueueInv, KnownInv, Known
  <2>2. CASE k # key
    BY <1>3, <1>5, <2>2 DEF QueueInv, KnownInv
  <2> QED BY <2>1, <2>2
<1> QED BY <1>6, <1>7 DEF QueueInv

\* Taking a key moves it from dirty to processing; no other worker holds it.
LEMMA TakeKeepsQueue ==
    ASSUME CoreInv, QueueInv, NEW w \in ClaimWorker, NEW key \in Key, TakeClaim(w, key)
    PROVE  QueueInv'
<1>1. /\ worker \in [ClaimWorker -> WorkerState]
      /\ claimQueue \in QueueState(Key)
      /\ UNCHANGED <<claimCache, judged>>
      /\ claimQueue' = Get(claimQueue, key)
  BY DEF CoreInv, WorkInv, ControllerTypeOK, TakeClaim, clusterVars, caches
<1>2. /\ claimQueue'.dirty = claimQueue.dirty \ {key}
      /\ Known(claimQueue) \subseteq Known(claimQueue')
  BY <1>1, QueueSets, QueueProcessing DEF Known
<1>3. worker'[w].pc = "read" /\ \A v \in ClaimWorker \ {w} : worker'[v] = worker[v]
  BY <1>1 DEF TakeClaim, Idle
<1>4. \A v \in ClaimWorker : PastReading(v) => worker[v].key # key
  BY DEF CoreInv, WorkInv, WorkerHolds, Busy, PastReading, TakeClaim, Queued
<1>5. StaleInv'
  <2> SUFFICES ASSUME NEW v \in ClaimWorker, worker'[v].pc \notin {"idle", "read"},
                      claimCache[worker'[v].key] # None
               PROVE  \/ worker'[v].claim.version = claimCache[worker'[v].key].version
                      \/ worker'[v].key \in claimQueue'.dirty
    BY <1>1 DEF StaleInv, PastReading
  <2>1. worker'[v] = worker[v]
    BY <1>3
  <2> QED BY <1>2, <1>4, <2>1 DEF QueueInv, StaleInv, PastReading
<1>6. KnownInv'
  BY <1>1, <1>2 DEF QueueInv, KnownInv, Known
<1> QED BY <1>5, <1>6 DEF QueueInv

\* A worker goes on with the claim it has, or with the one it has just read.
LEMMA AdvanceKeepsQueue ==
    ASSUME CoreInv, QueueInv, NEW w \in ClaimWorker, NEW new,
           worker' = [worker EXCEPT ![w] = new],
           new.key = worker[w].key,
           \/ PastReading(w) /\ new.claim = worker[w].claim
           \/ new.claim = claimCache[worker[w].key],
           UNCHANGED <<claimCache, claimQueue, judged>>
    PROVE  QueueInv'
<1>1. worker \in [ClaimWorker -> WorkerState]
  BY DEF CoreInv, WorkInv, ControllerTypeOK
<1>2. worker'[w] = new /\ \A v \in ClaimWorker \ {w} : worker'[v] = worker[v]
  BY <1>1
<1>3. StaleInv'
  <2> SUFFICES ASSUME NEW v \in ClaimWorker, worker'[v].pc \notin {"idle", "read"},
                      claimCache[worker'[v].key] # None
               PROVE  \/ worker'[v].claim.version = claimCache[worker'[v].key].version
                      \/ worker'[v].key \in claimQueue.dirty
    BY DEF StaleInv, PastReading
  <2>1. CASE v = w
    BY <1>2, <2>1 DEF QueueInv, StaleInv
  <2>2. CASE v # w
    BY <1>2, <2>2 DEF QueueInv, StaleInv, PastReading
  <2> QED BY <2>1, <2>2
<1>4. KnownInv'
  BY DEF QueueInv, KnownInv, Known
<1> QED BY <1>3, <1>4 DEF QueueInv

\* A worker gives its key back: what it handled is recorded, a newer version is
\* dirty, a failure waits for its back-off.
LEMMA GiveBackKeepsQueue ==
    ASSUME CoreInv, QueueInv, NEW w \in ClaimWorker, Busy(w),
           PastReading(w) \/ claimCache[worker[w].key] = None,
           Forget(w) \/ Requeue(w), UNCHANGED claimCache
    PROVE  QueueInv'
<1> DEFINE key == worker[w].key
<1>1. /\ worker \in [ClaimWorker -> WorkerState]
      /\ claimQueue \in QueueState(Key)
      /\ judged \in [Key -> Nat]
      /\ key \in Key
      /\ worker' = [worker EXCEPT ![w] = Idle]
  BY DEF CoreInv, WorkInv, ControllerTypeOK, WorkerHolds, QueueState, Forget, Requeue
<1>2. /\ claimQueue'.dirty = claimQueue.dirty
      /\ claimQueue.waiting \subseteq claimQueue'.waiting
      /\ claimQueue'.processing = claimQueue.processing \ {key}
      /\ Requeue(w) => key \in claimQueue'.waiting
  <2>1. CASE Forget(w) /\ ~Requeue(w)
    BY <1>1, <2>1, QueueSets, QueueProcessing DEF Forget
  <2>2. CASE Requeue(w)
    <3> DEFINE later == AddRateLimited(claimQueue, key)
    <3>1. /\ later \in QueueState(Key) /\ later.processing = claimQueue.processing
          /\ later.dirty = claimQueue.dirty /\ later.waiting = claimQueue.waiting \cup {key}
      BY <1>1, QueueTypes, QueueSets, QueueProcessing
    <3>2. claimQueue' = Done(later, key)
      BY <2>2 DEF Requeue
    <3> HIDE DEF later
    <3>3. /\ Done(later, key).dirty = later.dirty
          /\ Done(later, key).waiting = later.waiting
      BY <1>1, <3>1, QueueSets
    <3>4. Done(later, key).processing = later.processing \ {key}
      BY <1>1, <3>1, QueueProcessing
    <3> QED BY <3>1, <3>2, <3>3, <3>4
  <2> QED BY <2>1, <2>2
<1>3. worker'[w].pc = "idle" /\ \A v \in ClaimWorker \ {w} : worker'[v] = worker[v]
  BY <1>1 DEF Idle
<1>4. StaleInv'
  <2> SUFFICES ASSUME NEW v \in ClaimWorker, worker'[v].pc \notin {"idle", "read"},
                      claimCache[worker'[v].key] # None
               PROVE  \/ worker'[v].claim.version = claimCache[worker'[v].key].version
                      \/ worker'[v].key \in claimQueue'.dirty
    BY DEF StaleInv, PastReading
  <2> QED BY <1>2, <1>3 DEF QueueInv, StaleInv, PastReading
<1>5. \A k \in Key \ {key} : judged'[k] = judged[k]
  BY <1>1 DEF Forget, Requeue, Judge
<1>6. KnownInv'
  <2> SUFFICES ASSUME NEW k \in Key, claimCache[k] # None, judged'[k] # claimCache[k].version
               PROVE  k \in Known(claimQueue')
    BY DEF KnownInv, Known
  <2>1. CASE k # key
    BY <1>2, <1>5, <2>1 DEF QueueInv, KnownInv, Known
  <2>2. CASE k = key /\ Requeue(w)
    BY <1>2, <2>2 DEF Known
  <2>3. CASE k = key /\ Forget(w)
    <3>1. PastReading(w) /\ worker[w].claim # None
      BY <2>3 DEF CoreInv, WorkInv, WorkerHolds, PastReading
    <3>2. judged'[k] = worker[w].claim.version
      BY <1>1, <2>3, <3>1 DEF Forget, Judge
    <3>3. k \in claimQueue.dirty
      BY <2>3, <3>1, <3>2 DEF QueueInv, StaleInv
    <3> QED BY <1>2, <3>3 DEF Known
  <2> QED BY <2>1, <2>2, <2>3
<1> QED BY <1>4, <1>6 DEF QueueInv

LEMMA WorkerKeepsQueue ==
    ASSUME CoreInv, QueueInv, NEW w \in ClaimWorker, WorkerStep(w)
    PROVE  QueueInv'
<1>1. UNCHANGED claimCache
  BY DEF WorkerStep, ReadClaim, CheckDownscale, CheckCapacity, UpdateStatus,
         updateResourceQuota, deleteResourceQuotaClaim, clusterVars, caches
<1>2. worker \in [ClaimWorker -> WorkerState]
  BY DEF CoreInv, WorkInv, ControllerTypeOK
<1>3. CASE ReadClaim(w)
  <2>1. Busy(w)
    BY <1>3 DEF ReadClaim, Busy
  <2>2. CASE claimCache[worker[w].key] = None /\ Forget(w)
    BY <1>1, <2>1, <2>2, GiveBackKeepsQueue
  <2>3. CASE /\ worker' = [worker EXCEPT ![w].pc = "downscale",
                                         ![w].claim = claimCache[worker[w].key]]
             /\ UNCHANGED <<claimQueue, judged>>
    <3> DEFINE new == [worker[w] EXCEPT !.pc = "downscale", !.claim = claimCache[worker[w].key]]
    <3>1. /\ worker' = [worker EXCEPT ![w] = new]
          /\ new.key = worker[w].key /\ new.claim = claimCache[worker[w].key]
      BY <1>2, <2>3 DEF WorkerState
    <3> HIDE DEF new
    <3> QED BY <1>1, <2>3, <3>1, AdvanceKeepsQueue
  <2> QED BY <1>3, <2>2, <2>3 DEF ReadClaim
<1>4. ASSUME NEW pc, Goto(w, pc), PastReading(w), UNCHANGED <<claimQueue, judged>>
      PROVE  QueueInv'
  <2> DEFINE new == [worker[w] EXCEPT !.pc = pc]
  <2>1. /\ worker' = [worker EXCEPT ![w] = new]
        /\ new.key = worker[w].key /\ new.claim = worker[w].claim
    BY <1>2, <1>4 DEF Goto, WorkerState
  <2> HIDE DEF new
  <2> QED BY <1>1, <1>4, <2>1, AdvanceKeepsQueue
<1>5. ASSUME NEW phase, NEW message, Verdict(w, phase, message), PastReading(w),
             UNCHANGED <<claimQueue, judged>>
      PROVE  QueueInv'
  <2> DEFINE status == [phase |-> phase, details |-> message]
             new == [worker[w] EXCEPT !.pc = "status", !.status = status]
  <2>1. /\ worker' = [worker EXCEPT ![w] = new]
        /\ new.key = worker[w].key /\ new.claim = worker[w].claim
    BY <1>2, <1>5 DEF Verdict, WorkerState
  <2> HIDE DEF new
  <2> QED BY <1>1, <1>5, <2>1, AdvanceKeepsQueue
<1>6. CASE CheckDownscale(w) \/ CheckCapacity(w)
  <2>1. PastReading(w) /\ UNCHANGED <<claimQueue, judged>>
    BY <1>6 DEF CheckDownscale, CheckCapacity, PastReading
  <2>2. ASSUME NEW hard, NEW running, PassDownscale(w, hard, running)
        PROVE  QueueInv'
    <3> DEFINE new == [worker[w] EXCEPT !.pc = "capacity", !.compared = hard, !.counted = running]
    <3>1. /\ worker' = [worker EXCEPT ![w] = new]
          /\ new.key = worker[w].key /\ new.claim = worker[w].claim
      BY <1>2, <2>2 DEF PassDownscale, WorkerState
    <3> HIDE DEF new
    <3> QED BY <1>1, <2>1, <3>1, AdvanceKeepsQueue
  <2> QED BY <1>4, <1>5, <1>6, <2>1, <2>2 DEF CheckDownscale, CheckCapacity
<1>7. CASE UpdateStatus(w) \/ updateResourceQuota(w) \/ deleteResourceQuotaClaim(w)
  <2>1. PastReading(w) /\ Busy(w)
    BY <1>7 DEF UpdateStatus, updateResourceQuota, deleteResourceQuotaClaim, PastReading, Busy
  <2>2. \/ Forget(w) \/ Requeue(w)
        \/ Goto(w, "delete") /\ UNCHANGED <<claimQueue, judged>>
    BY <1>7 DEF UpdateStatus, updateResourceQuota, deleteResourceQuotaClaim, Answered, Refused
  <2> QED BY <1>1, <1>4, <2>1, <2>2, GiveBackKeepsQueue
<1> QED BY <1>3, <1>6, <1>7 DEF WorkerStep

LEMMA QueueStep ==
    ASSUME CoreInv, QueueInv, [ClaimControllerNext]_vars
    PROVE  QueueInv'
<1>1. claimQueue \in QueueState(Key)
  BY DEF CoreInv, WorkInv, ControllerTypeOK
<1>2. CASE \/ Environment /\ UNCHANGED controllerVars
           \/ DeliverQuota \/ DeliverNode
           \/ UNCHANGED vars
  <2>1. UNCHANGED <<claimCache, claimQueue, worker, judged>>
    BY <1>2 DEF Environment, CreateClaim, EditClaim, DeleteClaim, DeleteQuota, SyncQuotaStatus,
                CreatePod, RunPod, CompletePod, DeletePod, ChangeNode, DeliverQuota, DeliverNode,
                controllerVars, vars, claimVars, clusterVars, caches
  <2> QED BY <2>1, MoreQueued
<1>3. CASE DeliverPod
  <2>1. PICK keys \in SUBSET Key : claimQueue' = AddAll(claimQueue, keys)
    <3>1. handlePod(PodNamespace[Head(podEvents).name]) \in SUBSET Key
      BY DEF handlePod
    <3>2. claimQueue = AddAll(claimQueue, {})
      BY <1>1 DEF AddAll, QueueState
    <3> QED BY <1>3, <3>1, <3>2 DEF DeliverPod
  <2>2. /\ claimQueue.dirty \subseteq claimQueue'.dirty
        /\ Known(claimQueue) \subseteq Known(claimQueue')
    BY <1>1, <2>1 DEF AddAll, QueueState, Known
  <2> QED BY <1>3, <2>2, MoreQueued DEF DeliverPod
<1>4. ASSUME NEW key \in Key, RetryAfterBackoff(key) PROVE QueueInv'
  <2>1. /\ claimQueue' = AddAfterBackoff(claimQueue, key)
        /\ UNCHANGED <<claimCache, worker, judged>>
    BY <1>4 DEF RetryAfterBackoff, clusterVars, caches
  <2>2. /\ claimQueue'.dirty = claimQueue.dirty \cup {key}
        /\ claimQueue'.waiting = claimQueue.waiting \ {key}
        /\ claimQueue'.processing = claimQueue.processing
    BY <1>1, <2>1, QueueSets, QueueProcessing
  <2> QED BY <2>1, <2>2, MoreQueued DEF Known
<1>5. CASE DeliverClaim
  BY <1>5, DeliverKeepsQueue
<1>6. ASSUME NEW w \in ClaimWorker, NEW key \in Key, TakeClaim(w, key) PROVE QueueInv'
  BY <1>6, TakeKeepsQueue
<1>7. ASSUME NEW w \in ClaimWorker, WorkerStep(w) PROVE QueueInv'
  BY <1>7, WorkerKeepsQueue
<1>8. CASE Restart
  <2>1. /\ claimCache' = claims
        /\ \A w \in ClaimWorker : worker'[w].pc = "idle"
        /\ claimQueue'.dirty = {k \in Key : claims[k] # None}
    BY <1>8 DEF Restart, Relist, Idle, AddAll, EmptyQueue
  <2> QED BY <2>1 DEF QueueInv, StaleInv, KnownInv, Known, PastReading
<1> QED BY <1>2, <1>3, <1>4, <1>5, <1>6, <1>7, <1>8 DEF ClaimControllerNext, ClaimControllerStep, Informers

LEMMA HandledInit ==
    ASSUME ClaimControllerInit
    PROVE  HandledInv
<1>1. /\ claimEvents = <<>> /\ claimCache = claims
      /\ \A k \in Key : claims[k] = None
      /\ \A w \in ClaimWorker : worker[w].pc = "idle"
  BY DEF ClaimControllerInit, ClusterInit, Idle
<1> QED BY <1>1, EmptySeq DEF HandledInv, StreamInv, StaleInv, KnownInv, PastReading

LEMMA HandledMeansKnown ==
    ASSUME CoreInv, HandledInv
    PROVE  NoForgottenClaim
<1> SUFFICES ASSUME NEW k \in Key, claims[k] # None, judged[k] # claims[k].version,
                    \A i \in DOMAIN claimEvents : claimEvents[i].name # k
             PROVE  k \in Known(claimQueue)
  BY DEF NoForgottenClaim
<1>1. DOMAIN claimEvents = 1 .. Len(claimEvents)
  BY LenProperties DEF CoreInv, ClusterTypeOK
<1>2. claimCache[k] = claims[k]
  BY <1>1 DEF HandledInv, StreamInv
<1> QED BY <1>2 DEF HandledInv, KnownInv

\* A claim whose latest version has not been handled is on its way to a worker,
\* through edits, failed calls, lost answers and restarts, for any number of
\* workers.
THEOREM NothingForgotten == SafetySpec => []NoForgottenClaim
<1>1. ClaimControllerInit => HandledInv
  BY HandledInit
<1>2. CoreInv /\ HandledInv /\ [ClaimControllerNext]_vars => HandledInv'
  BY StreamStep, QueueStep DEF HandledInv, QueueInv
<1>3. CoreInv /\ HandledInv => NoForgottenClaim
  BY HandledMeansKnown
<1> QED BY <1>1, <1>2, <1>3, CoreInvariant, PTL DEF SafetySpec
=============================================================================
