---------------------------- MODULE LedgerProofs ----------------------------
(***************************************************************************)
(* The claim controller with one worker implements the ledger, for every   *)
(* set of namespaces, names, pods and nodes, every amount and every bound. *)
(*                                                                         *)
(* The limit and the fit of what is granted come from the invariants of    *)
(* ClaimProofs and ReservationProofs; what is new here is that no request  *)
(* comes from nowhere: a claim seen after a step was seen before it,       *)
(* unless a user has just written it.                                      *)
(***************************************************************************)
EXTENDS ClaimRefinement, ReservationProofs

(***************************************************************************)
(* Where an amount is asked for.                                           *)
(***************************************************************************)
Stored(ns, amount) ==
    \/ \E k \in Key : k[1] = ns /\ claims[k] # None /\ claims[k].spec = amount
    \/ \E k \in Key : k[1] = ns /\ claimCache[k] # None /\ claimCache[k].spec = amount
    \/ \E i \in DOMAIN claimEvents : /\ claimEvents[i].name[1] = ns
                                     /\ claimEvents[i].object # None
                                     /\ claimEvents[i].object.spec = amount

InHand(ns, amount) ==
    \E w \in ClaimWorker : /\ Busy(w)
                           /\ NamespaceOf(w) = ns
                           /\ worker[w].claim # None
                           /\ worker[w].claim.spec = amount

Asked(ns, amount) == Stored(ns, amount) \/ InHand(ns, amount)

LEMMA AskedIsRequest ==
    ASSUME NEW ns, NEW amount, Asked(ns, amount)
    PROVE  <<ns, amount>> \in RequestsMade
<1>1. \A y \in ClaimsAnywhere : y[2] # None => <<y[1], y[2].spec>> \in RequestsMade
  BY DEF RequestsMade
<1>2. ASSUME NEW k \in Key, k[1] = ns, NEW object, object # None, object.spec = amount,
             <<k[1], object>> \in ClaimsAnywhere
      PROVE  <<ns, amount>> \in RequestsMade
  BY <1>1, <1>2
<1>3. CASE Stored(ns, amount)
  <2>1. CASE \E k \in Key : k[1] = ns /\ claims[k] # None /\ claims[k].spec = amount
    BY <1>2, <2>1 DEF ClaimsAnywhere
  <2>2. CASE \E k \in Key : k[1] = ns /\ claimCache[k] # None /\ claimCache[k].spec = amount
    BY <1>2, <2>2 DEF ClaimsAnywhere
  <2>3. ASSUME NEW i \in DOMAIN claimEvents, claimEvents[i].name[1] = ns,
               claimEvents[i].object # None, claimEvents[i].object.spec = amount
        PROVE  <<ns, amount>> \in RequestsMade
    <3>1. <<ns, claimEvents[i].object>> \in ClaimsAnywhere
      BY <2>3 DEF ClaimsAnywhere
    <3> QED BY <1>1, <2>3, <3>1
  <2> QED BY <1>3, <2>1, <2>2, <2>3 DEF Stored
<1>4. CASE InHand(ns, amount)
  <2>1. PICK w \in ClaimWorker : /\ Busy(w)
                                 /\ NamespaceOf(w) = ns
                                 /\ worker[w].claim # None
                                 /\ worker[w].claim.spec = amount
    BY <1>4 DEF InHand
  <2>2. <<ns, worker[w].claim>> \in ClaimsAnywhere
    BY <2>1 DEF ClaimsAnywhere
  <2> QED BY <1>1, <2>1, <2>2
<1> QED BY <1>3, <1>4 DEF Asked

LEMMA RequestIsAskedNext ==
    ASSUME NEW x \in RequestsMade'
    PROVE  x = <<x[1], x[2]>> /\ Asked(x[1], x[2])'
<1>1. PICK y \in ClaimsAnywhere' : y[2] # None /\ x = <<y[1], y[2].spec>>
  BY DEF RequestsMade
<1>2. x = <<x[1], x[2]>> /\ x[1] = y[1] /\ x[2] = y[2].spec
  BY <1>1
<1>3. ASSUME NEW k \in Key, y = <<k[1], claims'[k]>>
      PROVE  Asked(x[1], x[2])'
  <2>1. y[1] = k[1] /\ y[2] = claims'[k]
    BY <1>3
  <2> QED BY <1>1, <1>2, <2>1 DEF Asked, Stored
<1>4. ASSUME NEW k \in Key, y = <<k[1], claimCache'[k]>>
      PROVE  Asked(x[1], x[2])'
  <2>1. y[1] = k[1] /\ y[2] = claimCache'[k]
    BY <1>4
  <2> QED BY <1>1, <1>2, <2>1 DEF Asked, Stored
<1>5. ASSUME NEW i \in DOMAIN claimEvents', y = <<claimEvents'[i].name[1], claimEvents'[i].object>>
      PROVE  Asked(x[1], x[2])'
  <2>1. y[1] = claimEvents'[i].name[1] /\ y[2] = claimEvents'[i].object
    BY <1>5
  <2> QED BY <1>1, <1>2, <2>1 DEF Asked, Stored
<1>6. ASSUME NEW w \in ClaimWorker, Busy(w)', y = <<NamespaceOf(w)', worker'[w].claim>>
      PROVE  Asked(x[1], x[2])'
  <2>1. y[1] = NamespaceOf(w)' /\ y[2] = worker'[w].claim
    BY <1>6
  <2> QED BY <1>1, <1>2, <1>6, <2>1 DEF Asked, InHand
<1> QED BY <1>1, <1>2, <1>3, <1>4, <1>5, <1>6 DEF ClaimsAnywhere

(***************************************************************************)
(* Writes and deliveries.                                                  *)
(***************************************************************************)
\* A write of a claim adds the amount written, and nothing else.
LEMMA PutClaimStored ==
    ASSUME ClusterTypeOK, NEW key \in Key, NEW spec \in Amount, NEW status \in Status,
           PutClaim(key, spec, status), UNCHANGED claimCache,
           NEW ns, NEW amount, Stored(ns, amount)'
    PROVE  Stored(ns, amount) \/ <<ns, amount>> = <<key[1], spec>>
<1> DEFINE object == [spec |-> spec, status |-> status, version |-> revision[key] + 1]
           event == [name |-> key, object |-> object]
<1>1. /\ claims \in [Key -> Claim \cup {None}]
      /\ claimEvents \in Seq(Event(Key, Claim \cup {None}))
  BY DEF ClusterTypeOK
<1>2. /\ claims' = [claims EXCEPT ![key] = object]
      /\ claimEvents' = Append(claimEvents, event)
  BY DEF PutClaim
<1>3. object.spec = spec /\ event.name = key /\ event.object = object
  OBVIOUS
<1>4. event \in Event(Key, Claim \cup {None})
  BY DEF ClusterTypeOK, Claim, Event
<1> HIDE DEF object, event
<1>5. CASE \E k \in Key : k[1] = ns /\ claims'[k] # None /\ claims'[k].spec = amount
  BY <1>1, <1>2, <1>3, <1>5 DEF Stored
<1>6. CASE \E k \in Key : k[1] = ns /\ claimCache'[k] # None /\ claimCache'[k].spec = amount
  BY <1>6 DEF Stored
<1>7. ASSUME NEW i \in DOMAIN claimEvents', claimEvents'[i].name[1] = ns,
             claimEvents'[i].object # None, claimEvents'[i].object.spec = amount
      PROVE  Stored(ns, amount) \/ <<ns, amount>> = <<key[1], spec>>
  <2>1. claimEvents'[i] = event \/ \E j \in DOMAIN claimEvents : claimEvents'[i] = claimEvents[j]
    BY <1>1, <1>2, <1>4, <1>7, AppendedElements
  <2> QED BY <1>3, <1>7, <2>1 DEF Stored
<1> QED BY <1>5, <1>6, <1>7 DEF Stored

LEMMA RemoveClaimStored ==
    ASSUME ClusterTypeOK, NEW key \in Key, RemoveClaim(key), UNCHANGED claimCache,
           NEW ns, NEW amount, Stored(ns, amount)'
    PROVE  Stored(ns, amount)
<1> DEFINE event == [name |-> key, object |-> None]
<1>1. /\ claims \in [Key -> Claim \cup {None}]
      /\ claimEvents \in Seq(Event(Key, Claim \cup {None}))
      /\ event \in Event(Key, Claim \cup {None}) /\ event.object = None
  BY DEF ClusterTypeOK, Event
<1>2. /\ claims' = [claims EXCEPT ![key] = None]
      /\ claimEvents' = Append(claimEvents, event)
  BY DEF RemoveClaim
<1> HIDE DEF event
<1>3. \A i \in DOMAIN claimEvents' :
         claimEvents'[i] = event \/ \E j \in DOMAIN claimEvents : claimEvents'[i] = claimEvents[j]
  BY <1>1, <1>2, AppendedElements
<1> QED BY <1>1, <1>2, <1>3 DEF Stored

LEMMA DeliverClaimStored ==
    ASSUME ClusterTypeOK, DeliverClaim, NEW ns, NEW amount, Stored(ns, amount)'
    PROVE  Stored(ns, amount)
<1>1. /\ claimCache \in [Key -> Claim \cup {None}]
      /\ claimEvents \in Seq(Event(Key, Claim \cup {None})) /\ claimEvents # <<>>
      /\ claimEvents' = Tail(claimEvents) /\ UNCHANGED claims
      /\ claimCache' = [claimCache EXCEPT ![Head(claimEvents).name] = Head(claimEvents).object]
  BY DEF ClusterTypeOK, DeliverClaim, Deliver
<1>2. /\ 1 \in DOMAIN claimEvents /\ Head(claimEvents) = claimEvents[1]
      /\ \A i \in DOMAIN claimEvents' : \E j \in DOMAIN claimEvents : claimEvents'[i] = claimEvents[j]
  BY <1>1, RemainingElements
<1>3. ASSUME NEW k \in Key, k[1] = ns, claimCache'[k] # None, claimCache'[k].spec = amount
      PROVE  Stored(ns, amount)
  <2>1. \/ claimCache'[k] = claimCache[k]
        \/ k = claimEvents[1].name /\ claimCache'[k] = claimEvents[1].object
    BY <1>1, <1>2
  <2> QED BY <1>2, <1>3, <2>1 DEF Stored
<1>4. ASSUME NEW i \in DOMAIN claimEvents', claimEvents'[i].name[1] = ns,
             claimEvents'[i].object # None, claimEvents'[i].object.spec = amount
      PROVE  Stored(ns, amount)
  BY <1>2, <1>4 DEF Stored
<1> QED BY <1>1, <1>3, <1>4 DEF Stored

LEMMA InHandStep ==
    ASSUME CoreInv, [ClaimControllerNext]_vars, NEW ns, NEW amount, InHand(ns, amount)'
    PROVE  Asked(ns, amount)
<1>1. PICK w \in ClaimWorker : /\ Busy(w)'
                               /\ NamespaceOf(w)' = ns
                               /\ worker'[w].claim # None
                               /\ worker'[w].claim.spec = amount
  BY DEF InHand
<1>2. CASE worker'[w] = worker[w] \/ Holds(w)
  BY <1>1, <1>2 DEF Holds, Busy, NamespaceOf, InHand, Asked
<1>3. CASE HoldsCached(w)
  BY <1>1, <1>3 DEF HoldsCached, NamespaceOf, Asked, Stored
<1> QED BY <1>1, <1>2, <1>3, HandStep DEF HoldsNothing

(***************************************************************************)
(* What is stored after a step was asked for before, but for the spec a    *)
(* user has just written.                                                  *)
(***************************************************************************)
Writes(key, spec) ==
    /\ CreateClaim(key, spec) \/ EditClaim(key, spec)
    /\ UNCHANGED controllerVars

LEMMA WrittenStored ==
    ASSUME CoreInv, NEW key \in Key, NEW spec \in ClaimSpec, Writes(key, spec),
           NEW ns, NEW amount, Stored(ns, amount)'
    PROVE  Stored(ns, amount) \/ <<ns, amount>> = <<key[1], spec>>
<1>1. spec \in Amount /\ NoStatus \in Status /\ ClusterTypeOK
  BY ClusterAssumption, StatusTypes DEF CoreInv
<1>2. CASE CreateClaim(key, spec)
  BY <1>1, <1>2, PutClaimStored DEF CreateClaim, caches
<1>3. CASE EditClaim(key, spec)
  <2>1. claims[key].status \in Status
    BY <1>1, <1>3 DEF EditClaim, ClusterTypeOK, Claim
  <2> QED BY <1>1, <1>3, <2>1, PutClaimStored DEF EditClaim, caches
<1> QED BY <1>2, <1>3 DEF Writes

LEMMA StoredStep ==
    ASSUME CoreInv, [ClaimControllerNext]_vars,
           ~\E key \in Key, spec \in ClaimSpec : Writes(key, spec),
           NEW ns, NEW amount, Stored(ns, amount)'
    PROVE  Stored(ns, amount)
<1>1. CASE UNCHANGED <<claims, claimEvents, claimCache>>
  BY <1>1 DEF Stored
<1>2. ASSUME NEW key \in Key, RemoveClaim(key), UNCHANGED claimCache
      PROVE  Stored(ns, amount)
  BY <1>2, RemoveClaimStored DEF CoreInv
<1>3. CASE Environment /\ UNCHANGED controllerVars
  <2>1. ASSUME NEW key \in Key, DeleteClaim(key) PROVE Stored(ns, amount)
    BY <1>2, <2>1 DEF DeleteClaim, caches
  <2>2. CASE \/ \E m \in Namespace : DeleteQuota(m) \/ SyncQuotaStatus(m)
             \/ \E p \in Pod : CreatePod(p) \/ RunPod(p) \/ CompletePod(p) \/ DeletePod(p)
             \/ \E n \in Node, state \in NodeStates : ChangeNode(n, state)
    BY <1>1, <2>2 DEF DeleteQuota, SyncQuotaStatus, CreatePod, RunPod, CompletePod,
                      DeletePod, ChangeNode, claimStore, caches
  <2> QED BY <1>3, <2>1, <2>2 DEF Environment, Writes
<1>4. ASSUME NEW w \in ClaimWorker, UpdateStatus(w) PROVE Stored(ns, amount)
  <2>1. worker[w].pc = "status" /\ UNCHANGED claimCache
    BY <1>4 DEF UpdateStatus, caches
  <2>2. worker[w].key \in Key /\ worker[w].status \in Status
    BY <2>1, InTheMiddle DEF WorkerState
  <2>3. CASE statusAccepted(w) /\ PutClaim(worker[w].key, claims[worker[w].key].spec, worker[w].status)
    <3>1. claims[worker[w].key] # None /\ claims[worker[w].key].spec \in Amount
      BY <2>2, <2>3 DEF statusAccepted, CoreInv, ClusterTypeOK, Claim
    <3>2. Stored(ns, amount) \/ <<ns, amount>> = <<worker[w].key[1], claims[worker[w].key].spec>>
      BY <2>1, <2>2, <2>3, <3>1, PutClaimStored DEF CoreInv
    <3> QED BY <2>2, <3>1, <3>2 DEF Stored
  <2>4. CASE UNCHANGED claimStore
    BY <1>1, <2>1, <2>4 DEF claimStore
  <2> QED BY <1>4, <2>3, <2>4 DEF UpdateStatus, Refused
<1>5. ASSUME NEW w \in ClaimWorker, deleteResourceQuotaClaim(w) PROVE Stored(ns, amount)
  <2>1. worker[w].key \in Key /\ UNCHANGED claimCache
    BY <1>5, InTheMiddle DEF deleteResourceQuotaClaim, caches
  <2> QED BY <1>1, <1>2, <1>5, <2>1 DEF deleteResourceQuotaClaim, Refused, claimStore
<1>6. CASE DeliverClaim
  BY <1>6, DeliverClaimStored DEF CoreInv
<1>7. CASE Restart
  <2>1. claimEvents' = <<>> /\ claimCache' = claims /\ claims' = claims
    BY <1>7 DEF Restart, Relist
  <2> QED BY <2>1, EmptySeq DEF Stored
<1>8. CASE \/ DeliverPod \/ DeliverQuota \/ DeliverNode
           \/ \E key \in Key : RetryAfterBackoff(key)
           \/ \E w \in ClaimWorker, key \in Key : TakeClaim(w, key)
           \/ \E w \in ClaimWorker : \/ ReadClaim(w) \/ CheckDownscale(w) \/ CheckCapacity(w)
                                      \/ updateResourceQuota(w)
           \/ UNCHANGED vars
  BY <1>1, <1>8 DEF DeliverPod, DeliverQuota, DeliverNode, RetryAfterBackoff, TakeClaim, ReadClaim,
                    CheckDownscale, CheckCapacity, updateResourceQuota,
                    vars, claimVars, clusterVars, claimStore, caches
<1> QED BY <1>3, <1>4, <1>5, <1>6, <1>7, <1>8 DEF ClaimControllerNext, ClaimControllerStep, WorkerStep, Informers

\* Only a user's write adds a request, and it adds one.
LEMMA RequestsStep ==
    ASSUME CoreInv, [ClaimControllerNext]_vars
    PROVE  \/ RequestsMade' \subseteq RequestsMade
           \/ \E key \in Key, spec \in ClaimSpec :
                 /\ Writes(key, spec)
                 /\ RequestsMade' \subseteq RequestsMade \cup {<<key[1], spec>>}
<1>1. ASSUME NEW key \in Key, NEW spec \in ClaimSpec, Writes(key, spec), NEW x \in RequestsMade'
      PROVE  x \in RequestsMade \cup {<<key[1], spec>>}
  <2>1. x = <<x[1], x[2]>> /\ Asked(x[1], x[2])'
    BY RequestIsAskedNext
  <2>2. Asked(x[1], x[2]) \/ x = <<key[1], spec>>
    BY <1>1, <2>1, InHandStep, WrittenStored DEF Asked
  <2> QED BY <2>1, <2>2, AskedIsRequest
<1>2. ASSUME ~\E key \in Key, spec \in ClaimSpec : Writes(key, spec), NEW x \in RequestsMade'
      PROVE  x \in RequestsMade
  <2>1. x = <<x[1], x[2]>> /\ Asked(x[1], x[2])'
    BY RequestIsAskedNext
  <2>2. Asked(x[1], x[2])
    BY <1>2, <2>1, InHandStep, StoredStep DEF Asked
  <2> QED BY <2>1, <2>2, AskedIsRequest
<1> QED BY <1>1, <1>2

(***************************************************************************)
(* The ledger.                                                             *)
(***************************************************************************)
\* A quota that is lost was deleted by an administrator.
LEMMA QuotaLost ==
    ASSUME CoreInv, [ClaimControllerNext]_vars, NEW ns \in Namespace,
           quotas[ns] # None, quotas'[ns] = None
    PROVE  quotas' = [quotas EXCEPT ![ns] = None] /\ UNCHANGED lagged
<1>1. quotas \in [Namespace -> Quota \cup {None}]
  BY DEF CoreInv, ClusterTypeOK
<1>2. ASSUME NEW m \in Namespace, DeleteQuota(m), UNCHANGED controllerVars
      PROVE  quotas' = [quotas EXCEPT ![ns] = None] /\ UNCHANGED lagged
  BY <1>1, <1>2 DEF DeleteQuota, PutQuota, quotaStore, controllerVars
<1>3. ASSUME NEW m \in Namespace, SyncQuotaStatus(m)
      PROVE  FALSE
  <2> DEFINE object == [quotas[m] EXCEPT !.statusHard = quotas[m].hard]
  <2>1. quotas[m] \in Quota
    BY <1>1, <1>3 DEF SyncQuotaStatus
  <2>2. object \in Quota
    BY <2>1 DEF Quota
  <2>3. object # None
    BY <2>2, ClusterAssumption
  <2>4. quotas' = quotas \/ quotas' = [quotas EXCEPT ![m] = object]
    BY <1>3 DEF SyncQuotaStatus, PutQuota, quotaStore
  <2> HIDE DEF object
  <2> QED BY <1>1, <2>3, <2>4
<1>4. ASSUME NEW w \in ClaimWorker, updateResourceQuota(w)
      PROVE  FALSE
  <2>1. CASE quotaAccepted(w) /\ PutQuota(NamespaceOf(w), newResourceQuota(w))
    <3>1. NamespaceOf(w) \in Namespace
      BY <1>4, InTheMiddle DEF updateResourceQuota
    <3>2. newResourceQuota(w) \in Quota
      BY <2>1, <3>1, <1>1 DEF newResourceQuota, quotaAccepted, Quota
    <3>3. newResourceQuota(w) # None
      BY <3>2, ClusterAssumption
    <3> QED BY <1>1, <2>1, <3>3 DEF PutQuota, quotaStore
  <2> QED BY <1>4, <2>1 DEF updateResourceQuota, Refused, quotaStore
<1>5. ASSUME NEW w \in ClaimWorker,
             \/ ReadClaim(w) \/ CheckDownscale(w) \/ CheckCapacity(w)
             \/ UpdateStatus(w) \/ deleteResourceQuotaClaim(w)
      PROVE  FALSE
  BY <1>5 DEF ReadClaim, CheckDownscale, CheckCapacity, UpdateStatus,
              deleteResourceQuotaClaim, Refused, clusterVars, quotaStore
<1>6. CASE \/ Informers
           \/ \E key \in Key : RetryAfterBackoff(key)
           \/ \E w \in ClaimWorker, key \in Key : TakeClaim(w, key)
           \/ Restart
           \/ UNCHANGED vars
  BY <1>6 DEF Informers, DeliverClaim, DeliverPod, DeliverQuota, DeliverNode,
              RetryAfterBackoff, TakeClaim, Restart, vars, claimVars, clusterVars, quotaStore
<1>7. CASE Environment /\ UNCHANGED controllerVars
  <2>1. \E m \in Namespace : DeleteQuota(m) \/ SyncQuotaStatus(m)
    BY <1>7 DEF Environment, CreateClaim, EditClaim, DeleteClaim, CreatePod, RunPod,
                CompletePod, DeletePod, ChangeNode, quotaStore
  <2> QED BY <1>2, <1>3, <1>7, <2>1
<1> QED BY <1>4, <1>5, <1>6, <1>7 DEF ClaimControllerNext, ClaimControllerStep, WorkerStep

\* A check that is misled touches no quota, and its mark is never wiped off.
LEMMA LaggedStep ==
    ASSUME CoreInv, [ClaimControllerNext]_vars
    PROVE  UNCHANGED lagged \/ (lagged' = TRUE /\ UNCHANGED quotas)
<1>1. lagged \in BOOLEAN
  BY DEF CoreInv, WorkInv, ControllerTypeOK
<1>2. ASSUME NEW w \in ClaimWorker, CheckDownscale(w) \/ CheckCapacity(w)
      PROVE  UNCHANGED lagged \/ (lagged' = TRUE /\ UNCHANGED quotas)
  <2>1. UNCHANGED quotas
    BY <1>2 DEF CheckDownscale, CheckCapacity, clusterVars, quotaStore
  <2>2. UNCHANGED lagged \/ \E S : Relied(S)
    BY <1>2 DEF CheckDownscale, CheckCapacity
  <2>3. ASSUME NEW S, Relied(S) PROVE UNCHANGED lagged \/ lagged' = TRUE
    BY <1>1, <2>3 DEF Relied
  <2> QED BY <2>1, <2>2, <2>3
<1>3. ASSUME NEW w \in ClaimWorker,
             \/ ReadClaim(w) \/ UpdateStatus(w)
             \/ updateResourceQuota(w) \/ deleteResourceQuotaClaim(w)
      PROVE  UNCHANGED lagged
  BY <1>3 DEF ReadClaim, UpdateStatus, updateResourceQuota, deleteResourceQuotaClaim
<1>4. CASE \/ Environment /\ UNCHANGED controllerVars
           \/ Informers
           \/ \E key \in Key : RetryAfterBackoff(key)
           \/ \E w \in ClaimWorker, key \in Key : TakeClaim(w, key)
           \/ Restart
           \/ UNCHANGED vars
  BY <1>4 DEF Informers, DeliverClaim, DeliverPod, DeliverQuota, DeliverNode,
              RetryAfterBackoff, TakeClaim, Restart, vars, claimVars, controllerVars
<1> QED BY <1>2, <1>3, <1>4 DEF ClaimControllerNext, ClaimControllerStep, WorkerStep

\* The promise that all quotas fit, as the ledger puts it.
LEMMA FitTogether ==
    ASSUME NEW quotaOf \in [Namespace -> Quota \cup {None}], NEW ledger,
           ledger = [ns \in Namespace |-> IF quotaOf[ns] = None THEN None ELSE quotaOf[ns].hard],
           Covers(applyOverProvisioning(WholeCluster), Total(hardOf(quotaOf, Namespace)))
    PROVE  AllowedTogether(ledger)
<1>1. \A ns \in Namespace : ledger[ns] # None <=> quotaOf[ns] # None
  <2>1. \A ns \in Namespace : quotaOf[ns] # None => quotaOf[ns].hard \in NatAmount
    BY DEF Quota
  <2> QED BY <2>1, ClusterAssumption
<1>2. [ns \in {m \in Namespace : ledger[m] # None} |-> ledger[ns]] = hardOf(quotaOf, Namespace)
  BY <1>1 DEF hardOf
<1> QED BY <1>2 DEF AllowedTogether

LEMMA LedgerStarts ==
    ASSUME ClaimControllerInit
    PROVE  Ledger!LedgerInit
<1>1. CoreInv /\ LimitInv /\ FitInv /\ lagged = FALSE
  BY CoreInit, LimitInit, FitInit DEF ClaimControllerInit
<1>2. quotas \in [Namespace -> Quota \cup {None}]
  BY <1>1 DEF CoreInv, ClusterTypeOK
<1>3. RequestsMade = {}
  <2>1. \A k \in Key : claims[k] = None /\ claimCache[k] = None
    BY DEF ClaimControllerInit, ClusterInit
  <2>2. DOMAIN claimEvents = {} /\ \A w \in ClaimWorker : ~Busy(w)
    BY EmptySeq DEF ClaimControllerInit, ClusterInit, Idle, Busy
  <2>3. \A y \in ClaimsAnywhere : y[2] = None
    BY <2>1, <2>2 DEF ClaimsAnywhere
  <2> QED BY <2>3 DEF RequestsMade
<1>4. QuotasGranted \in [Namespace -> Amount \cup {None}]
  <2>1. \A ns \in Namespace : quotas[ns] # None => quotas[ns].hard \in Amount
    BY <1>2 DEF Quota, NatAmount, Amount
  <2> QED BY <2>1 DEF QuotasGranted
<1>5. \A ns \in Namespace : QuotasGranted[ns] # None => AllowedToOne(QuotasGranted[ns])
  BY <1>1 DEF QuotasGranted, AllowedToOne, LimitInv, QuotaWithinAllocationLimit
<1>6. AllowedTogether(QuotasGranted)
  BY <1>1, <1>2, FitTogether DEF QuotasGranted, FitInv, NeverOvercommitted, Reserved
<1> QED BY <1>1, <1>3, <1>4, <1>5, <1>6 DEF Ledger!LedgerInit

LEMMA GrantStep ==
    ASSUME CoreInv, CoreInv', LimitInv, FitInv', [ClaimControllerNext]_vars,
           RequestsMade' \subseteq RequestsMade, UNCHANGED lagged,
           NEW w \in ClaimWorker, NEW ns \in Namespace, quotas'[ns] # None, Applies(w, ns)
    PROVE  Ledger!LedgerNext
<1> DEFINE amount == worker[w].claim.spec
<1>1. quotas' \in [Namespace -> Quota \cup {None}]
  BY DEF CoreInv, ClusterTypeOK
<1>2. <<ns, amount>> \in RequestsMade
  <2>1. Busy(w) /\ worker[w].claim # None /\ NamespaceOf(w) = ns
    BY DEF Applies, Busy, CoreInv, WorkInv, WorkerHolds
  <2> QED BY <2>1, AskedIsRequest DEF Asked, InHand
<1>3. AllowedToOne(amount)
  BY DEF AllowedToOne, LimitInv, Applies
<1>4. QuotasGranted' = [QuotasGranted EXCEPT ![ns] = amount]
  BY DEF QuotasGranted, Applies
<1>5. lagged \/ AllowedTogether(QuotasGranted)'
  <2>1. CASE ~lagged
    <3>1. NeverOvercommitted'
      BY <2>1 DEF FitInv
    <3>2. Covers(applyOverProvisioning(WholeCluster), Total(hardOf(quotas', Namespace)))
      BY <3>1 DEF NeverOvercommitted, Reserved, Covers, applyOverProvisioning, WholeCluster
    <3>3. AllowedTogether(QuotasGranted')
      BY <1>1, <3>2, FitTogether DEF QuotasGranted
    <3> QED BY <3>3 DEF AllowedTogether, Covers, applyOverProvisioning, WholeCluster
  <2> QED BY <2>1
<1>6. lagged \/ AllowedTogether(QuotasGranted')
  BY <1>5 DEF AllowedTogether, Covers, applyOverProvisioning, WholeCluster
<1> HIDE DEF amount
<1>7. Ledger!Grant(ns, amount)
  BY <1>2, <1>3, <1>4, <1>6 DEF Ledger!Grant
<1>8. \E request \in RequestsMade : Ledger!Grant(request[1], request[2])
  <2>1. <<ns, amount>>[1] = ns /\ <<ns, amount>>[2] = amount
    OBVIOUS
  <2> QED BY <1>2, <1>7, <2>1
<1> QED BY <1>8 DEF Ledger!LedgerNext

LEMMA LedgerMoves ==
    ASSUME \A v, w \in ClaimWorker : v = w,
           CoreInv, CoreInv', LimitInv, FitInv, FitInv', [ClaimControllerNext]_vars
    PROVE  [Ledger!LedgerNext]_(Ledger!ledgerVars)
<1>1. /\ quotas \in [Namespace -> Quota \cup {None}]
      /\ quotas' \in [Namespace -> Quota \cup {None}]
  BY DEF CoreInv, ClusterTypeOK
<1>2. ASSUME NEW key \in Key, NEW spec \in ClaimSpec, Writes(key, spec),
             RequestsMade' \subseteq RequestsMade \cup {<<key[1], spec>>},
             <<key[1], spec>> \in RequestsMade'
      PROVE  Ledger!Ask
  <2>1. UNCHANGED <<QuotasGranted, lagged>>
    BY <1>2 DEF Writes, CreateClaim, EditClaim, quotaStore, controllerVars, QuotasGranted
  <2>2. <<key[1], spec>> \in Namespace \X Amount
    BY ClusterAssumption DEF Key
  <2>3. RequestsMade' \ {<<key[1], spec>>} \subseteq RequestsMade
    BY <1>2
  <2> QED BY <1>2, <2>1, <2>2, <2>3 DEF Ledger!Ask
<1>3. CASE RequestsMade' \subseteq RequestsMade
  <2>1. CASE lagged' = TRUE /\ UNCHANGED quotas
    BY <1>3, <2>1 DEF Ledger!LedgerNext, Ledger!LoseSight, QuotasGranted
  <2>2. CASE UNCHANGED lagged
    <3>1. ASSUME NEW ns \in Namespace, quotas'[ns] # None, NEW w \in ClaimWorker, Applies(w, ns)
          PROVE  Ledger!LedgerNext
      BY <1>3, <2>2, <3>1, GrantStep
    <3>2. ASSUME NEW ns \in Namespace, quotas[ns] # None, quotas'[ns] = None
          PROVE  Ledger!LedgerNext
      <4>1. quotas' = [quotas EXCEPT ![ns] = None]
        BY <3>2, QuotaLost
      <4>2. QuotasGranted' = [QuotasGranted EXCEPT ![ns] = None]
        BY <1>1, <4>1 DEF QuotasGranted
      <4>3. Ledger!Revoke(ns)
        BY <1>3, <2>2, <4>2 DEF Ledger!Revoke
      <4> QED BY <4>3 DEF Ledger!LedgerNext
    <3>3. ASSUME \A ns \in Namespace : /\ quotas'[ns] = None <=> quotas[ns] = None
                                       /\ quotas'[ns] # None => quotas'[ns].hard = quotas[ns].hard
          PROVE  Ledger!LedgerNext
      <4>1. UNCHANGED QuotasGranted
        BY <3>3 DEF QuotasGranted
      <4> QED BY <1>3, <2>2, <4>1 DEF Ledger!LedgerNext, Ledger!Withdraw
    <3> QED BY <3>1, <3>2, <3>3, QuotaStep
  <2> QED BY <2>1, <2>2, LaggedStep
<1> QED BY <1>2, <1>3, RequestsStep DEF Ledger!LedgerNext

\* With the one claim worker main starts, every behaviour of the claim controller
\* is one of the ledger, through lagging caches, failed and lost calls, edits,
\* withdrawals and crashes.
THEOREM LedgerImplemented ==
    ASSUME \A v, w \in ClaimWorker : v = w
    PROVE  SafetySpec => ImplementsLedger
<1>1. ClaimControllerInit => LimitInv /\ FitInv /\ Ledger!LedgerInit
  BY LimitInit, FitInit, LedgerStarts
<1>2. CoreInv /\ LimitInv /\ [ClaimControllerNext]_vars => LimitInv'
  BY LimitStep
<1>3. CoreInv /\ CoreInv' /\ FitInv /\ [ClaimControllerNext]_vars => FitInv'
  BY FitStep
<1>4. CoreInv /\ CoreInv' /\ LimitInv /\ FitInv /\ FitInv' /\ [ClaimControllerNext]_vars
         => [Ledger!LedgerNext]_(Ledger!ledgerVars)
  BY LedgerMoves
<1> QED BY <1>1, <1>2, <1>3, <1>4, CoreInvariant, PTL DEF SafetySpec, ImplementsLedger, Ledger!LedgerSpec
=============================================================================
