--------------------------- MODULE SightingProofs ---------------------------
(***************************************************************************)
(* Verdicts land on the spec they were reached for.  The status is written *)
(* if the version is still the one the worker read, so what has to be      *)
(* shown is that a version stands for one spec wherever a claim of that    *)
(* version is still to be seen: in the API, in an event, in the cache or   *)
(* in the hands of a worker, through deletions and re-creations.           *)
(***************************************************************************)
EXTENDS ClaimProofs

Shown(k, object) ==
    \/ claims[k] = object
    \/ claimCache[k] = object
    \/ \E i \in DOMAIN claimEvents : claimEvents[i] = [name |-> k, object |-> object]

Held(k, object) ==
    \E w \in ClaimWorker : Busy(w) /\ worker[w].key = k /\ worker[w].claim = object

Seen(k, object) == object # None /\ (Shown(k, object) \/ Held(k, object))

VersionInv ==
    \A k \in Key :
        \A x, y : Seen(k, x) /\ Seen(k, y) =>
            /\ x.version <= revision[k]
            /\ x.version = y.version => x.spec = y.spec

(***************************************************************************)
(* How sightings come about.                                               *)
(***************************************************************************)
\* A write of a claim may show the object written, and nothing else new.
LEMMA WriteStored ==
    ASSUME ClusterTypeOK, NEW key \in Key, NEW new \in Claim \cup {None},
           claims' = [claims EXCEPT ![key] = new],
           claimEvents' = Append(claimEvents, [name |-> key, object |-> new]),
           UNCHANGED claimCache,
           NEW k \in Key, NEW object, Shown(k, object)'
    PROVE  Shown(k, object) \/ (k = key /\ object = new)
<1> DEFINE event == [name |-> key, object |-> new]
<1>1. /\ claims \in [Key -> Claim \cup {None}]
      /\ claimEvents \in Seq(Event(Key, Claim \cup {None}))
      /\ event \in Event(Key, Claim \cup {None})
  BY DEF ClusterTypeOK, Event
<1>2. CASE claims'[k] = object
  BY <1>1, <1>2 DEF Shown
<1>3. CASE claimCache'[k] = object
  BY <1>3 DEF Shown
<1>4. ASSUME NEW i \in DOMAIN claimEvents', claimEvents'[i] = [name |-> k, object |-> object]
      PROVE  Shown(k, object) \/ (k = key /\ object = new)
  <2>1. CASE claimEvents'[i] = event
    BY <1>4, <2>1
  <2>2. CASE claimEvents'[i] # event
    <3>1. DOMAIN claimEvents' = 1 .. Len(claimEvents) + 1 /\ DOMAIN claimEvents = 1 .. Len(claimEvents)
          /\ Len(claimEvents) \in Nat
      BY <1>1, AppendProperties, LenProperties
    <3>2. i \in DOMAIN claimEvents /\ claimEvents'[i] = claimEvents[i]
      BY <1>1, <1>4, <2>2, <3>1, AppendProperties
    <3> QED BY <1>4, <3>2 DEF Shown
  <2> QED BY <2>1, <2>2
<1> QED BY <1>2, <1>3, <1>4 DEF Shown

LEMMA DeliveryStored ==
    ASSUME ClusterTypeOK, DeliverClaim, NEW k \in Key, NEW object, Shown(k, object)'
    PROVE  Shown(k, object)
<1>1. /\ claimCache \in [Key -> Claim \cup {None}]
      /\ claimEvents \in Seq(Event(Key, Claim \cup {None})) /\ claimEvents # <<>>
      /\ claimEvents' = Tail(claimEvents) /\ UNCHANGED claims
      /\ claimCache' = [claimCache EXCEPT ![Head(claimEvents).name] = Head(claimEvents).object]
  BY DEF ClusterTypeOK, DeliverClaim, Deliver
<1>2. /\ DOMAIN claimEvents = 1 .. Len(claimEvents) /\ Len(claimEvents) \in Nat \ {0}
      /\ DOMAIN claimEvents' = 1 .. Len(claimEvents) - 1
      /\ Head(claimEvents) = claimEvents[1]
      /\ \A i \in DOMAIN claimEvents' : claimEvents'[i] = claimEvents[i + 1]
  BY <1>1, HeadTailProperties, LenProperties, EmptySeq
<1>3. 1 \in DOMAIN claimEvents /\ claimEvents[1] \in Event(Key, Claim \cup {None})
  BY <1>1, <1>2, ElementOfSeq
<1>4. CASE claimCache'[k] = object
  <2>1. CASE claimEvents[1].name = k
    <3>1. claimEvents[1] = [name |-> k, object |-> object]
      BY <1>1, <1>2, <1>3, <1>4, <2>1 DEF Event
    <3> QED BY <1>3, <3>1 DEF Shown
  <2>2. CASE claimEvents[1].name # k
    BY <1>1, <1>2, <1>4, <2>2 DEF Shown
  <2> QED BY <2>1, <2>2
<1>5. ASSUME NEW i \in DOMAIN claimEvents', claimEvents'[i] = [name |-> k, object |-> object]
      PROVE  Shown(k, object)
  <2>1. i + 1 \in DOMAIN claimEvents
    BY <1>2
  <2> QED BY <1>2, <1>5, <2>1 DEF Shown
<1> QED BY <1>1, <1>4, <1>5 DEF Shown

\* The newest version of a claim has just been written.
Written(k, object) ==
    /\ revision'[k] = revision[k] + 1
    /\ object = claims'[k]
    /\ object.version = revision'[k]

LEMMA PutStored ==
    ASSUME ClusterTypeOK, NEW key \in Key, NEW spec \in Amount, NEW status \in Status,
           PutClaim(key, spec, status), UNCHANGED claimCache,
           NEW k \in Key, NEW object, Shown(k, object)'
    PROVE  Shown(k, object) \/ Written(k, object)
<1> DEFINE new == [spec |-> spec, status |-> status, version |-> revision[key] + 1]
<1>1. /\ claims' = [claims EXCEPT ![key] = new]
      /\ claimEvents' = Append(claimEvents, [name |-> key, object |-> new])
      /\ revision' = [revision EXCEPT ![key] = @ + 1]
  BY DEF PutClaim
<1>2. /\ new \in Claim \cup {None} /\ new.version = revision[key] + 1
      /\ claims \in [Key -> Claim \cup {None}] /\ revision \in [Key -> Nat]
  BY DEF ClusterTypeOK, Claim
<1> HIDE DEF new
<1>3. Shown(k, object) \/ (k = key /\ object = new)
  BY <1>1, <1>2, WriteStored
<1>4. claims'[key] = new /\ revision'[key] = revision[key] + 1
  BY <1>1, <1>2
<1> QED BY <1>2, <1>3, <1>4 DEF Written

LEMMA RemoveStored ==
    ASSUME ClusterTypeOK, NEW key \in Key, RemoveClaim(key), UNCHANGED claimCache,
           NEW k \in Key, NEW object, object # None, Shown(k, object)'
    PROVE  Shown(k, object)
<1>1. Shown(k, object) \/ (k = key /\ object = None)
  BY WriteStored DEF RemoveClaim
<1> QED BY <1>1

LEMMA ShownStep ==
    ASSUME CoreInv, [ClaimControllerNext]_vars,
           NEW k \in Key, NEW object, object # None, Shown(k, object)'
    PROVE  Shown(k, object) \/ Written(k, object)
<1>1. CASE UNCHANGED <<claims, claimEvents, claimCache>>
  BY <1>1 DEF Shown
<1>2. ASSUME NEW key \in Key, RemoveClaim(key), UNCHANGED claimCache
      PROVE  Shown(k, object)
  BY <1>2, RemoveStored DEF CoreInv
<1>3. ASSUME NEW key \in Key, NEW spec \in Amount, NEW status \in Status,
             PutClaim(key, spec, status), UNCHANGED claimCache
      PROVE  Shown(k, object) \/ Written(k, object)
  BY <1>3, PutStored DEF CoreInv
<1>4. CASE Environment /\ UNCHANGED controllerVars
  <2>1. ASSUME NEW key \in Key, NEW spec \in ClaimSpec, CreateClaim(key, spec)
        PROVE  Shown(k, object) \/ Written(k, object)
    <3>1. spec \in Amount /\ NoStatus \in Status
      BY ClusterAssumption, StatusTypes
    <3> QED BY <1>3, <2>1, <3>1 DEF CreateClaim, caches
  <2>2. ASSUME NEW key \in Key, NEW spec \in ClaimSpec, EditClaim(key, spec)
        PROVE  Shown(k, object) \/ Written(k, object)
    <3>1. spec \in Amount /\ claims[key].status \in Status
      BY <2>2, ClusterAssumption DEF EditClaim, CoreInv, ClusterTypeOK, Claim
    <3> QED BY <1>3, <2>2, <3>1 DEF EditClaim, caches
  <2>3. ASSUME NEW key \in Key, DeleteClaim(key) PROVE Shown(k, object)
    BY <1>2, <2>3 DEF DeleteClaim, caches
  <2>4. CASE \/ \E m \in Namespace : DeleteQuota(m) \/ SyncQuotaStatus(m)
             \/ \E p \in Pod : CreatePod(p) \/ RunPod(p) \/ CompletePod(p) \/ DeletePod(p)
             \/ \E n \in Node, state \in NodeStates : ChangeNode(n, state)
    BY <1>1, <2>4 DEF DeleteQuota, SyncQuotaStatus, CreatePod, RunPod, CompletePod,
                      DeletePod, ChangeNode, claimStore, caches
  <2> QED BY <1>4, <2>1, <2>2, <2>3, <2>4 DEF Environment
<1>5. ASSUME NEW w \in ClaimWorker, UpdateStatus(w)
      PROVE  Shown(k, object) \/ Written(k, object)
  <2>1. worker[w].pc = "status" /\ UNCHANGED claimCache
    BY <1>5 DEF UpdateStatus, caches
  <2>2. worker[w].key \in Key /\ worker[w].status \in Status
    BY <2>1, InTheMiddle DEF WorkerState
  <2>3. CASE statusAccepted(w) /\ PutClaim(worker[w].key, claims[worker[w].key].spec, worker[w].status)
    <3>1. claims[worker[w].key].spec \in Amount
      BY <2>2, <2>3 DEF statusAccepted, CoreInv, ClusterTypeOK, Claim
    <3> QED BY <1>3, <2>1, <2>2, <2>3, <3>1
  <2>4. CASE UNCHANGED claimStore
    BY <1>1, <2>1, <2>4 DEF claimStore
  <2> QED BY <1>5, <2>3, <2>4 DEF UpdateStatus, Refused
<1>6. ASSUME NEW w \in ClaimWorker, deleteResourceQuotaClaim(w)
      PROVE  Shown(k, object) \/ Written(k, object)
  <2>1. worker[w].key \in Key /\ UNCHANGED claimCache
    BY <1>6, InTheMiddle DEF deleteResourceQuotaClaim, caches
  <2>2. RemoveClaim(worker[w].key) \/ UNCHANGED claimStore
    BY <1>6 DEF deleteResourceQuotaClaim, Refused
  <2>3. CASE UNCHANGED claimStore
    BY <1>1, <2>1, <2>3 DEF claimStore
  <2> QED BY <1>2, <2>1, <2>2, <2>3
<1>7. CASE DeliverClaim
  BY <1>7, DeliveryStored DEF CoreInv
<1>8. CASE Restart
  <2>1. claimEvents' = <<>> /\ claimCache' = claims /\ claims' = claims
    BY <1>8 DEF Restart, Relist
  <2> QED BY <2>1, EmptySeq DEF Shown
<1>9. CASE \/ DeliverPod \/ DeliverQuota \/ DeliverNode
           \/ \E key \in Key : RetryAfterBackoff(key)
           \/ \E w \in ClaimWorker, key \in Key : TakeClaim(w, key)
           \/ \E w \in ClaimWorker : \/ ReadClaim(w) \/ CheckDownscale(w) \/ CheckCapacity(w)
                                      \/ updateResourceQuota(w)
           \/ UNCHANGED vars
  BY <1>1, <1>9 DEF DeliverPod, DeliverQuota, DeliverNode, RetryAfterBackoff, TakeClaim, ReadClaim,
                    CheckDownscale, CheckCapacity, updateResourceQuota,
                    vars, claimVars, clusterVars, claimStore, caches
<1> QED BY <1>4, <1>5, <1>6, <1>7, <1>8, <1>9
           DEF ClaimControllerNext, ClaimControllerStep, WorkerStep, Informers

LEMMA SeenStep ==
    ASSUME CoreInv, [ClaimControllerNext]_vars, NEW k \in Key, NEW object, Seen(k, object)'
    PROVE  Seen(k, object) \/ Written(k, object)
<1>1. CASE Shown(k, object)'
  BY <1>1, ShownStep DEF Seen
<1>2. CASE Held(k, object)'
  <2>1. PICK w \in ClaimWorker : Busy(w)' /\ worker'[w].key = k /\ worker'[w].claim = object
    BY <1>2 DEF Held
  <2>2. CASE worker'[w] = worker[w] \/ Holds(w)
    BY <2>1, <2>2 DEF Holds, Busy, Held, Seen
  <2>3. CASE HoldsCached(w)
    BY <2>1, <2>3 DEF HoldsCached, Seen, Shown
  <2> QED BY <2>1, <2>2, <2>3, HandStep DEF HoldsNothing, Seen
<1> QED BY <1>1, <1>2 DEF Seen

(***************************************************************************)
(* Versions only grow, and stand for one spec each.                        *)
(***************************************************************************)
LEMMA RevisionStep ==
    ASSUME CoreInv, [ClaimControllerNext]_vars, NEW k \in Key
    PROVE  revision[k] \in Nat /\ revision'[k] \in Nat /\ revision[k] <= revision'[k]
<1>1. revision \in [Key -> Nat]
  BY DEF CoreInv, ClusterTypeOK
<1>2. CASE UNCHANGED revision
  BY <1>1, <1>2
<1>3. ASSUME NEW key \in Key, revision' = [revision EXCEPT ![key] = @ + 1]
      PROVE  revision'[k] \in Nat /\ revision[k] <= revision'[k]
  BY <1>1, <1>3
<1>4. CASE Environment /\ UNCHANGED controllerVars
  <2>1. CASE \E key \in Key : \/ \E spec \in ClaimSpec : CreateClaim(key, spec) \/ EditClaim(key, spec)
                              \/ DeleteClaim(key)
    BY <1>1, <1>2, <1>3, <2>1 DEF CreateClaim, EditClaim, DeleteClaim, PutClaim, RemoveClaim
  <2>2. CASE \/ \E m \in Namespace : DeleteQuota(m) \/ SyncQuotaStatus(m)
             \/ \E p \in Pod : CreatePod(p) \/ RunPod(p) \/ CompletePod(p) \/ DeletePod(p)
             \/ \E n \in Node, state \in NodeStates : ChangeNode(n, state)
    BY <1>2, <2>2 DEF DeleteQuota, SyncQuotaStatus, CreatePod, RunPod, CompletePod,
                      DeletePod, ChangeNode, claimStore
  <2> QED BY <1>4, <2>1, <2>2 DEF Environment
<1>5. ASSUME NEW w \in ClaimWorker, UpdateStatus(w) \/ deleteResourceQuotaClaim(w)
      PROVE  revision'[k] \in Nat /\ revision[k] <= revision'[k]
  <2>1. worker[w].key \in Key
    BY <1>5, InTheMiddle DEF UpdateStatus, deleteResourceQuotaClaim
  <2> QED BY <1>2, <1>3, <1>5, <2>1
             DEF UpdateStatus, deleteResourceQuotaClaim, PutClaim, RemoveClaim, Refused, claimStore
<1>6. CASE \/ Informers \/ Restart
           \/ \E key \in Key : RetryAfterBackoff(key)
           \/ \E w \in ClaimWorker, key \in Key : TakeClaim(w, key)
           \/ \E w \in ClaimWorker : \/ ReadClaim(w) \/ CheckDownscale(w) \/ CheckCapacity(w)
                                      \/ updateResourceQuota(w)
           \/ UNCHANGED vars
  BY <1>2, <1>6 DEF Informers, DeliverClaim, DeliverPod, DeliverQuota, DeliverNode, Restart,
                    RetryAfterBackoff, TakeClaim, ReadClaim, CheckDownscale, CheckCapacity,
                    updateResourceQuota, vars, claimVars, clusterVars, claimStore
<1> QED BY <1>1, <1>4, <1>5, <1>6 DEF ClaimControllerNext, ClaimControllerStep, WorkerStep

LEMMA VersionInit ==
    ASSUME ClaimControllerInit
    PROVE  VersionInv
<1> SUFFICES ASSUME NEW k \in Key, NEW x, Seen(k, x) PROVE FALSE
  BY DEF VersionInv
<1>1. claims[k] = None /\ claimCache[k] = None /\ claimEvents = <<>>
  BY DEF ClaimControllerInit, ClusterInit
<1>2. \A w \in ClaimWorker : ~Busy(w)
  BY DEF ClaimControllerInit, Idle, Busy
<1> QED BY <1>1, <1>2, EmptySeq DEF Seen, Shown, Held

LEMMA SeenIsClaim ==
    ASSUME CoreInv, NEW k \in Key, NEW object, Seen(k, object)
    PROVE  object \in Claim
<1>1. /\ claims[k] \in Claim \cup {None} /\ claimCache[k] \in Claim \cup {None}
      /\ claimEvents \in Seq(Event(Key, Claim \cup {None}))
      /\ worker \in [ClaimWorker -> WorkerState]
  BY DEF CoreInv, ClusterTypeOK, WorkInv, ControllerTypeOK
<1>2. ASSUME NEW i \in DOMAIN claimEvents, claimEvents[i] = [name |-> k, object |-> object]
      PROVE  object \in Claim \cup {None}
  <2>1. claimEvents[i] \in Event(Key, Claim \cup {None})
    BY <1>1, ElementOfSeq, LenProperties
  <2> QED BY <1>2, <2>1 DEF Event
<1>3. \A w \in ClaimWorker : worker[w].claim \in Claim \cup {None}
  BY <1>1 DEF WorkerState
<1> QED BY <1>1, <1>2, <1>3 DEF Seen, Shown, Held

LEMMA VersionStep ==
    ASSUME CoreInv, VersionInv, [ClaimControllerNext]_vars
    PROVE  VersionInv'
<1> SUFFICES ASSUME NEW k \in Key, NEW x, NEW y, Seen(k, x)', Seen(k, y)'
             PROVE  /\ x.version <= revision'[k]
                    /\ x.version = y.version => x.spec = y.spec
  BY DEF VersionInv
<1>1. revision[k] \in Nat /\ revision'[k] \in Nat /\ revision[k] <= revision'[k]
  BY RevisionStep
<1>2. ASSUME NEW z, Seen(k, z)'
      PROVE  \/ Seen(k, z) /\ z.version \in Nat /\ z.version <= revision[k]
             \/ Written(k, z)
  <2>1. Seen(k, z) => z \in Claim
    BY SeenIsClaim
  <2> QED BY <1>2, <2>1, SeenStep DEF VersionInv, Claim
<1>3. CASE Seen(k, x) /\ Seen(k, y)
  BY <1>1, <1>3, <1>2 DEF VersionInv, Written
<1>4. CASE Written(k, x) /\ Written(k, y)
  BY <1>1, <1>4 DEF Written
<1>5. CASE Written(k, x) /\ Seen(k, y) /\ y.version \in Nat /\ y.version <= revision[k]
  BY <1>1, <1>5 DEF Written
<1>6. CASE Written(k, y) /\ Seen(k, x) /\ x.version \in Nat /\ x.version <= revision[k]
  BY <1>1, <1>6 DEF Written
<1> QED BY <1>2, <1>3, <1>4, <1>5, <1>6

(***************************************************************************)
(* Who changes a status, and on which claim.                               *)
(***************************************************************************)
WritesVerdict(w, k) ==
    /\ worker[w].pc = "status"
    /\ worker[w].key = k
    /\ statusAccepted(w)
    /\ claims'[k].spec = claims[k].spec
    /\ claims'[k].status = worker[w].status

LEMMA StatusStep ==
    ASSUME CoreInv, [ClaimControllerNext]_vars, NEW k \in Key,
           claims[k] # None, claims'[k] # None, claims'[k].status # claims[k].status
    PROVE  \E w \in ClaimWorker : WritesVerdict(w, k)
<1>1. claims \in [Key -> Claim \cup {None}]
  BY DEF CoreInv, ClusterTypeOK
<1>2. claims' # claims
  OBVIOUS
<1>3. CASE Environment /\ UNCHANGED controllerVars
  <2>1. ASSUME NEW key \in Key, NEW spec \in ClaimSpec, CreateClaim(key, spec) PROVE FALSE
    BY <1>1, <2>1 DEF CreateClaim, PutClaim
  <2>2. ASSUME NEW key \in Key, NEW spec \in ClaimSpec, EditClaim(key, spec) PROVE FALSE
    BY <1>1, <2>2 DEF EditClaim, PutClaim
  <2>3. ASSUME NEW key \in Key, DeleteClaim(key) PROVE FALSE
    BY <1>1, <2>3 DEF DeleteClaim, RemoveClaim
  <2>4. CASE \/ \E m \in Namespace : DeleteQuota(m) \/ SyncQuotaStatus(m)
             \/ \E p \in Pod : CreatePod(p) \/ RunPod(p) \/ CompletePod(p) \/ DeletePod(p)
             \/ \E n \in Node, state \in NodeStates : ChangeNode(n, state)
    BY <1>2, <2>4 DEF DeleteQuota, SyncQuotaStatus, CreatePod, RunPod, CompletePod,
                      DeletePod, ChangeNode, claimStore
  <2> QED BY <1>3, <2>1, <2>2, <2>3, <2>4 DEF Environment
<1>4. ASSUME NEW w \in ClaimWorker, UpdateStatus(w) PROVE WritesVerdict(w, k)
  <2>1. worker[w].pc = "status" /\ worker[w].key \in Key
    BY <1>4, InTheMiddle DEF UpdateStatus
  <2>2. /\ statusAccepted(w)
        /\ PutClaim(worker[w].key, claims[worker[w].key].spec, worker[w].status)
    BY <1>2, <1>4 DEF UpdateStatus, Refused, claimStore
  <2> QED BY <1>1, <2>1, <2>2 DEF PutClaim, WritesVerdict
<1>5. ASSUME NEW w \in ClaimWorker, deleteResourceQuotaClaim(w) PROVE FALSE
  <2>1. worker[w].key \in Key
    BY <1>5, InTheMiddle DEF deleteResourceQuotaClaim
  <2> QED BY <1>1, <1>2, <1>5, <2>1 DEF deleteResourceQuotaClaim, RemoveClaim, Refused, claimStore
<1>6. CASE \/ Informers \/ Restart
           \/ \E key \in Key : RetryAfterBackoff(key)
           \/ \E w \in ClaimWorker, key \in Key : TakeClaim(w, key)
           \/ \E w \in ClaimWorker : \/ ReadClaim(w) \/ CheckDownscale(w) \/ CheckCapacity(w)
                                      \/ updateResourceQuota(w)
           \/ UNCHANGED vars
  BY <1>2, <1>6 DEF Informers, DeliverClaim, DeliverPod, DeliverQuota, DeliverNode, Restart,
                    RetryAfterBackoff, TakeClaim, ReadClaim, CheckDownscale, CheckCapacity,
                    updateResourceQuota, vars, claimVars, clusterVars, claimStore
<1> QED BY <1>3, <1>4, <1>5, <1>6 DEF ClaimControllerNext, ClaimControllerStep, WorkerStep

\* What VerdictIsForCurrentSpec says of one step.
VerdictStep ==
    \A k \in Key :
        claims[k] # None /\ claims'[k] # None /\ claims'[k].status # claims[k].status =>
            \E w \in ClaimWorker : /\ worker[w].pc = "status"
                                   /\ worker[w].key = k
                                   /\ worker[w].claim.spec = claims'[k].spec
                                   /\ worker[w].status = claims'[k].status

LEMMA VerdictsMatch ==
    ASSUME CoreInv, VersionInv, [ClaimControllerNext]_vars
    PROVE  VerdictStep
<1> SUFFICES ASSUME NEW k \in Key,
                    claims[k] # None, claims'[k] # None, claims'[k].status # claims[k].status
             PROVE  \E w \in ClaimWorker : /\ worker[w].pc = "status"
                                           /\ worker[w].key = k
                                           /\ worker[w].claim.spec = claims'[k].spec
                                           /\ worker[w].status = claims'[k].status
  BY DEF VerdictStep
<1>1. PICK w \in ClaimWorker : WritesVerdict(w, k)
  BY StatusStep
<1>2. Busy(w) /\ worker[w].claim # None
  BY <1>1, InTheMiddle, ClusterAssumption DEF WritesVerdict
<1>3. Seen(k, claims[k]) /\ Seen(k, worker[w].claim)
  BY <1>1, <1>2 DEF Seen, Shown, Held, WritesVerdict
<1>4. claims[k].spec = worker[w].claim.spec
  BY <1>1, <1>3 DEF VersionInv, WritesVerdict, statusAccepted
<1> QED BY <1>1, <1>4 DEF WritesVerdict

\* A verdict is written only on the spec it was reached for, whatever users and
\* other workers do while a claim is checked, deletion and re-creation included.
THEOREM VerdictsAreCurrent == SafetySpec => VerdictIsForCurrentSpec
<1>1. ClaimControllerInit => VersionInv
  BY VersionInit
<1>2. CoreInv /\ VersionInv /\ [ClaimControllerNext]_vars => VersionInv'
  BY VersionStep
<1>3. CoreInv /\ VersionInv /\ [ClaimControllerNext]_vars => VerdictStep
  BY VerdictsMatch
<1>4. SafetySpec => [][VerdictStep]_vars
  BY <1>1, <1>2, <1>3, CoreInvariant, PTL DEF SafetySpec
<1> QED BY <1>4 DEF VerdictStep, VerdictIsForCurrentSpec
=============================================================================
