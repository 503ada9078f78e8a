------------------------- MODULE ReservationProofs -------------------------
(***************************************************************************)
(* Over-commitment.  The fit of a claim is checked against the quotas of   *)
(* the other namespaces as the cache shows them, and the claim is applied  *)
(* steps later without another look.  With the single claim worker main    *)
(* starts, and as long as no check has relied on a cache that did not show *)
(* the quotas as they were, the quotas fit in the cluster.                 *)
(***************************************************************************)
EXTENDS ClaimProofs

\* What is reserved beside the namespace a worker is busy with.
ReservedBeside(ns) == totalResourceQuota(ns, quotas)

\* A claim that is being applied still fits beside the quotas of the others.
FitInv ==
    ~lagged =>
        /\ NeverOvercommitted
        /\ \A w \in ClaimWorker : worker[w].pc = "apply" /\ worker[w].claim.spec \in NatAmount =>
              \A r \in Resource :
                 ReservedBeside(NamespaceOf(w))[r] + worker[w].claim.spec[r]
                    <= applyOverProvisioning(WholeCluster)[r]

\* A step that lowers, drops or keeps every quota reserves no more.
LEMMA ReservedShrinks ==
    ASSUME CoreInv, CoreInv', NEW S \in SUBSET Namespace,
           \A ns \in S : quotas'[ns] # None =>
              quotas[ns] # None /\ quotas'[ns].hard = quotas[ns].hard
    PROVE  /\ Total(hardOf(quotas, S)) \in NatAmount
           /\ Total(hardOf(quotas', S)) \in NatAmount
           /\ Covers(Total(hardOf(quotas, S)), Total(hardOf(quotas', S)))
<1> DEFINE before == hardOf(quotas, S)
           after == hardOf(quotas', S)
<1>1. /\ quotas \in [Namespace -> Quota \cup {None}]
      /\ quotas' \in [Namespace -> Quota \cup {None}]
  BY DEF CoreInv, ClusterTypeOK
<1>2. /\ IsFiniteSet(DOMAIN before) /\ before \in [DOMAIN before -> NatAmount]
      /\ Total(before) \in NatAmount
  BY <1>1, HardType
<1>3. after \in [DOMAIN after -> NatAmount] /\ Total(after) \in NatAmount
  BY <1>1, HardType
<1>4. /\ DOMAIN after \in SUBSET DOMAIN before
      /\ \A ns \in DOMAIN after : after[ns] = before[ns]
  BY DEF hardOf
<1> HIDE DEF before, after
<1>5. \A ns \in DOMAIN after : Covers(before[ns], after[ns])
  BY <1>3, <1>4 DEF Covers, NatAmount
<1>6. Covers(Total(before), Total(after))
  BY <1>2, <1>3, <1>4, <1>5, TotalMonotone
<1> QED BY <1>2, <1>3, <1>6 DEF before, after

\* All that is reserved is what the other namespaces have and what ns has.
LEMMA ReservedSplit ==
    ASSUME NEW quotaOf \in [Namespace -> Quota \cup {None}], NEW ns \in Namespace,
           quotaOf[ns] # None
    PROVE  \A r \in Resource :
              Total(hardOf(quotaOf, Namespace))[r]
                 = totalResourceQuota(ns, quotaOf)[r] + quotaOf[ns].hard[r]
<1> DEFINE all == hardOf(quotaOf, Namespace)
           D == DOMAIN all
<1>1. IsFiniteSet(D) /\ all \in [D -> NatAmount]
  BY HardType
<1>2. ns \in D /\ all[ns] = quotaOf[ns].hard
  BY DEF hardOf
<1>3. hardOf(quotaOf, Namespace \ {ns}) = [m \in D \ {ns} |-> all[m]]
  <2>1. {m \in Namespace \ {ns} : quotaOf[m] # None} = D \ {ns}
    BY DEF hardOf
  <2>2. \A m \in D \ {ns} : all[m] = quotaOf[m].hard
    BY DEF hardOf
  <2> HIDE DEF all, D
  <2> QED BY <2>1, <2>2 DEF hardOf
<1> HIDE DEF all, D
<1>4. \A r \in Resource : Total(all)[r] = Total([m \in D \ {ns} |-> all[m]])[r] + all[ns][r]
  BY <1>1, <1>2, TotalSplit
<1> QED BY <1>2, <1>3, <1>4 DEF all, totalResourceQuota

\* No step takes back that a check was misled.
LEMMA LaggedStays ==
    ASSUME CoreInv, [ClaimControllerNext]_vars, lagged
    PROVE  lagged'
<1>1. ASSUME NEW w \in ClaimWorker, WorkerStep(w) PROVE lagged'
  BY <1>1 DEF WorkerStep, ReadClaim, CheckDownscale, CheckCapacity, UpdateStatus,
              updateResourceQuota, deleteResourceQuotaClaim, Relied
<1>2. CASE Informers
  BY <1>2 DEF Informers, DeliverClaim, DeliverPod, DeliverQuota, DeliverNode, controllerVars
<1> QED BY <1>1, <1>2 DEF ClaimControllerNext, ClaimControllerStep, RetryAfterBackoff, TakeClaim, Restart,
                          controllerVars, vars, claimVars

LEMMA PassedFit ==
    ASSUME CoreInv, NEW w \in ClaimWorker, PassesChecks(w), ~lagged',
           worker[w].claim.spec \in NatAmount
    PROVE  \A r \in Resource :
              ReservedBeside(NamespaceOf(w))[r] + worker[w].claim.spec[r]
                 <= applyOverProvisioning(WholeCluster)[r]
<1> DEFINE ns == NamespaceOf(w)
           spec == worker[w].claim.spec
           available == nodesTotalCapacity(nodeCache, NodeCapacity)
           reserved == totalResourceQuota(ns, quotaCache)
<1>1. hardOf(quotaCache, Namespace \ {ns}) = hardOf(quotas, Namespace \ {ns})
  BY DEF PassesChecks, Relied
<1>2. reserved = ReservedBeside(ns)
  BY <1>1 DEF totalResourceQuota, ReservedBeside
<1>3. reserved \in NatAmount
  <2>1. quotaCache \in [Namespace -> Quota \cup {None}] /\ Namespace \ {ns} \in SUBSET Namespace
    BY DEF CoreInv, ClusterTypeOK
  <2> QED BY <2>1, HardType DEF totalResourceQuota
<1>4. available \in NatAmount /\ WholeCluster \in NatAmount /\ Covers(WholeCluster, available)
  BY CapacityType DEF CoreInv
<1>5. checkResourceFit(spec, available, reserved) = EmptyMsg
  BY DEF PassesChecks, capacityMessage
<1>6. /\ applyOverProvisioning(available) \in NatAmount
      /\ applyOverProvisioning(WholeCluster) \in NatAmount
      /\ Covers(applyOverProvisioning(WholeCluster), applyOverProvisioning(available))
  BY <1>4, OverProvisioningMonotone
<1> HIDE DEF available, reserved, spec
<1>7. \A r \in Resource : reserved[r] + spec[r] < applyOverProvisioning(available)[r]
  BY <1>3, <1>4, <1>5, ResourceFitCheck DEF spec
<1> SUFFICES ASSUME NEW r \in Resource
             PROVE  reserved[r] + spec[r] <= applyOverProvisioning(WholeCluster)[r]
  BY <1>2 DEF spec
<1>8. /\ applyOverProvisioning(available)[r] \in Nat
      /\ applyOverProvisioning(WholeCluster)[r] \in Nat
      /\ applyOverProvisioning(available)[r] <= applyOverProvisioning(WholeCluster)[r]
      /\ reserved[r] \in Nat /\ spec[r] \in Nat
  BY <1>3, <1>6 DEF NatAmount, Covers, spec
<1> QED BY <1>7, <1>8

LEMMA FitStep ==
    ASSUME \A v, w \in ClaimWorker : v = w,
           CoreInv, CoreInv', FitInv, [ClaimControllerNext]_vars
    PROVE  FitInv'
<1> SUFFICES ASSUME ~lagged'
             PROVE  /\ NeverOvercommitted'
                    /\ \A w \in ClaimWorker :
                          worker'[w].pc = "apply" /\ worker'[w].claim.spec \in NatAmount =>
                             \A r \in Resource :
                                ReservedBeside(NamespaceOf(w))'[r] + worker'[w].claim.spec[r]
                                   <= applyOverProvisioning(WholeCluster)[r]
  BY DEF FitInv, NamespaceOf, WholeCluster, applyOverProvisioning
<1> DEFINE over == applyOverProvisioning(WholeCluster)
<1>1. ~lagged
  BY LaggedStays
<1>2. over \in NatAmount
  <2>1. WholeCluster \in NatAmount /\ Covers(WholeCluster, WholeCluster)
    BY CapacityType DEF CoreInv, Covers, NatAmount
  <2> QED BY <2>1, OverProvisioningMonotone
<1>3. /\ quotas \in [Namespace -> Quota \cup {None}]
      /\ quotas' \in [Namespace -> Quota \cup {None}]
  BY DEF CoreInv, ClusterTypeOK
<1> HIDE DEF over
<1>4. NeverOvercommitted'
  <2> SUFFICES Covers(over, Total(hardOf(quotas', Namespace)))
    BY DEF NeverOvercommitted, Reserved, over, WholeCluster, applyOverProvisioning
  <2>1. CASE \E w \in ClaimWorker, ns \in Namespace : quotas'[ns] # None /\ Applies(w, ns)
    <3>1. PICK w \in ClaimWorker, ns \in Namespace : quotas'[ns] # None /\ Applies(w, ns)
      BY <2>1
    <3>2. \A r \in Resource : ReservedBeside(ns)[r] + worker[w].claim.spec[r] <= over[r]
      BY <1>1, <3>1 DEF FitInv, Applies, over
    <3>3. totalResourceQuota(ns, quotas') = ReservedBeside(ns)
      <4>1. hardOf(quotas', Namespace \ {ns}) = hardOf(quotas, Namespace \ {ns})
        BY <3>1 DEF hardOf, Applies
      <4> QED BY <4>1 DEF totalResourceQuota, ReservedBeside
    <3>4. \A r \in Resource : Total(hardOf(quotas', Namespace))[r]
                                 = totalResourceQuota(ns, quotas')[r] + quotas'[ns].hard[r]
      BY <1>3, <3>1, ReservedSplit
    <3> QED BY <3>1, <3>2, <3>3, <3>4 DEF Covers, Applies
  <2>2. CASE ~\E w \in ClaimWorker, ns \in Namespace : quotas'[ns] # None /\ Applies(w, ns)
    <3>1. \A ns \in Namespace : quotas'[ns] # None =>
             quotas[ns] # None /\ quotas'[ns].hard = quotas[ns].hard
      BY <2>2, QuotaStep
    <3>2. /\ Total(hardOf(quotas, Namespace)) \in NatAmount
          /\ Total(hardOf(quotas', Namespace)) \in NatAmount
          /\ Covers(Total(hardOf(quotas, Namespace)), Total(hardOf(quotas', Namespace)))
      BY <3>1, ReservedShrinks
    <3>3. Covers(over, Total(hardOf(quotas, Namespace)))
      BY <1>1 DEF FitInv, NeverOvercommitted, Reserved, over
    <3> QED BY <1>2, <3>2, <3>3 DEF Covers, NatAmount
  <2> QED BY <2>1, <2>2
<1>5. ASSUME NEW w \in ClaimWorker, worker'[w].pc = "apply", worker'[w].claim.spec \in NatAmount,
             NEW r \in Resource
      PROVE  ReservedBeside(NamespaceOf(w))'[r] + worker'[w].claim.spec[r] <= over[r]
  <2> DEFINE ns == NamespaceOf(w)
             others == Namespace \ {ns}
  <2>1. worker'[w].key = worker[w].key /\ worker'[w].claim = worker[w].claim
    <3>1. worker[w] \in WorkerState
      BY DEF CoreInv, WorkInv, ControllerTypeOK
    <3>2. worker'[w] = worker[w] \/ worker'[w] = [worker[w] EXCEPT !.pc = "apply"]
      BY <1>5, EntersApply DEF PassesChecks
    <3> QED BY <3>1, <3>2 DEF WorkerState
  <2>2. \A m \in Namespace : quotas'[m] # None =>
           quotas[m] # None /\ quotas'[m].hard = quotas[m].hard
    <3>1. \A v \in ClaimWorker, m \in Namespace : ~Applies(v, m)
      BY <1>5 DEF Applies
    <3> QED BY <3>1, QuotaStep
  <2>3. /\ Total(hardOf(quotas, others)) \in NatAmount
        /\ Total(hardOf(quotas', others)) \in NatAmount
        /\ Covers(Total(hardOf(quotas, others)), Total(hardOf(quotas', others)))
    BY <2>2, ReservedShrinks
  <2>4. /\ ReservedBeside(ns) = Total(hardOf(quotas, others))
        /\ ReservedBeside(NamespaceOf(w))' = Total(hardOf(quotas', others))
    BY <2>1 DEF ReservedBeside, totalResourceQuota, NamespaceOf, hardOf
  <2>5. ReservedBeside(ns)[r] + worker[w].claim.spec[r] <= over[r]
    <3>1. CASE worker'[w] = worker[w]
      BY <1>1, <1>5, <3>1 DEF FitInv, over
    <3>2. CASE PassesChecks(w)
      BY <1>5, <2>1, <3>2, PassedFit DEF over
    <3> QED BY <1>5, <3>1, <3>2, EntersApply
  <2>6. /\ worker[w].claim.spec[r] \in Nat /\ over[r] \in Nat
        /\ ReservedBeside(ns)[r] \in Nat /\ ReservedBeside(NamespaceOf(w))'[r] \in Nat
        /\ ReservedBeside(NamespaceOf(w))'[r] <= ReservedBeside(ns)[r]
    BY <1>2, <1>5, <2>1, <2>3, <2>4 DEF NatAmount, Covers
  <2> HIDE DEF ns
  <2> QED BY <2>1, <2>5, <2>6
<1> QED BY <1>4, <1>5 DEF over

LEMMA FitInit ==
    ASSUME ClaimControllerInit
    PROVE  FitInv
<1>1. hardOf(quotas, Namespace) =
         [ns \in {m \in Namespace : InitialQuota[m] # None} |-> InitialQuota[ns]]
  <2>1. /\ InitialQuota \in [Namespace -> NatAmount \cup {None}]
        /\ None \notin Quota
    BY ClusterAssumption
  <2>2. \A ns \in Namespace :
           IF InitialQuota[ns] = None THEN quotas[ns] = None
           ELSE quotas[ns] = [hard |-> InitialQuota[ns], statusHard |-> InitialQuota[ns],
                              labelled |-> ns \notin HandMade]
    BY DEF ClaimControllerInit, ClusterInit
  <2>3. \A ns \in Namespace :
           /\ quotas[ns] = None <=> InitialQuota[ns] = None
           /\ quotas[ns] # None => quotas[ns].hard = InitialQuota[ns]
    <3> SUFFICES ASSUME NEW ns \in Namespace
                 PROVE  /\ quotas[ns] = None <=> InitialQuota[ns] = None
                        /\ quotas[ns] # None => quotas[ns].hard = InitialQuota[ns]
      OBVIOUS
    <3>1. CASE InitialQuota[ns] = None
      BY <2>2, <3>1
    <3>2. CASE InitialQuota[ns] # None
      <4>1. quotas[ns] = [hard |-> InitialQuota[ns], statusHard |-> InitialQuota[ns],
                          labelled |-> ns \notin HandMade]
        BY <2>2, <3>2
      <4>2. InitialQuota[ns] \in NatAmount
        BY <2>1, <3>2
      <4>3. quotas[ns] \in Quota /\ quotas[ns].hard = InitialQuota[ns]
        BY <4>1, <4>2 DEF Quota
      <4> QED BY <2>1, <3>2, <4>3
    <3> QED BY <3>1, <3>2
  <2> QED BY <2>3 DEF hardOf
<1>2. NeverOvercommitted
  BY <1>1, InitialQuotaAssumption DEF NeverOvercommitted, Reserved
<1> QED BY <1>2 DEF FitInv, ClaimControllerInit, Idle

\* With one claim worker the quotas outgrow the cluster only after a check that
\* the cache misled; lost answers, failures, restarts and nodes that leave do
\* not matter.
THEOREM ReservationHolds ==
    ASSUME \A v, w \in ClaimWorker : v = w
    PROVE  SafetySpec => []OvercommittedOnlyByLag
<1>1. ClaimControllerInit => FitInv
  BY FitInit
<1>2. CoreInv /\ CoreInv' /\ FitInv /\ [ClaimControllerNext]_vars => FitInv'
  BY FitStep
<1>3. FitInv => OvercommittedOnlyByLag
  BY DEF FitInv, OvercommittedOnlyByLag
<1> QED BY <1>1, <1>2, <1>3, CoreInvariant, PTL DEF SafetySpec

(***************************************************************************)
(* Downscale.  A claim that lowers the quota it is compared with covers    *)
(* what the pods counted at the check request.  The claim, the quota and   *)
(* the pods of the check stay with the worker until it writes, and of the  *)
(* pods it counted those that run then request no more.                    *)
(***************************************************************************)
RoomInv ==
    \A w \in ClaimWorker :
        worker[w].pc \in {"capacity", "apply"} /\ worker[w].compared # None =>
            \/ Covers(worker[w].claim.spec, worker[w].compared)
            \/ Covers(worker[w].claim.spec, TotalRequestNS(worker[w].counted, PodRequest))

LEMMA RoomInit ==
    ASSUME ClaimControllerInit
    PROVE  RoomInv
BY DEF ClaimControllerInit, RoomInv, Idle

\* Some of the pods request no more than all of them.
LEMMA RequestsShrink ==
    ASSUME NEW T \in SUBSET Pod, NEW S \in SUBSET T
    PROVE  Covers(TotalRequestNS(T, PodRequest), TotalRequestNS(S, PodRequest))
<1>1. IsFiniteSet(T) /\ PodRequest \in [Pod -> NatAmount]
  BY ClusterAssumption, FS_Subset
<1>2. /\ [p \in S |-> PodRequest[p]] \in [S -> NatAmount]
      /\ [p \in T |-> PodRequest[p]] \in [T -> NatAmount]
      /\ \A p \in S : Covers([q \in T |-> PodRequest[q]][p], [q \in S |-> PodRequest[q]][p])
  BY <1>1 DEF Covers, NatAmount
<1> QED BY <1>1, <1>2, TotalMonotone DEF TotalRequestNS

\* How a worker comes to check the capacity.
PassesDownscale(w) ==
    LET managedQuota == quotaCache[NamespaceOf(w)]
        running == FilterRunningPods(podCache, PodsOf(NamespaceOf(w)))
    IN  /\ worker[w].pc = "downscale"
        /\ downscaleMessage(worker[w].claim.spec, managedQuota, running) = EmptyMsg
        /\ worker'[w].claim = worker[w].claim
        /\ worker'[w].compared = IF managedQuota = None THEN None ELSE managedQuota.hard
        /\ worker'[w].counted = running

LEMMA EntersCapacity ==
    ASSUME CoreInv, [ClaimControllerNext]_vars, NEW w \in ClaimWorker, worker'[w].pc = "capacity"
    PROVE  worker'[w] = worker[w] \/ PassesDownscale(w)
<1>1. worker \in [ClaimWorker -> WorkerState]
  BY DEF CoreInv, WorkInv, ControllerTypeOK
<1>2. CASE UNCHANGED worker
  BY <1>2
<1>3. ASSUME NEW v \in ClaimWorker, Forget(v) \/ Requeue(v)
      PROVE  worker'[w] = worker[w]
  <2>1. worker' = [worker EXCEPT ![v] = Idle]
    BY <1>3 DEF Forget, Requeue
  <2> QED BY <1>1, <2>1 DEF Idle
<1>4. ASSUME NEW v \in ClaimWorker, NEW phase, NEW message, Verdict(v, phase, message)
      PROVE  worker'[w] = worker[w]
  BY <1>1, <1>4 DEF Verdict, WorkerState
<1>5. ASSUME NEW v \in ClaimWorker, NEW pc, Goto(v, pc), pc # "capacity"
      PROVE  worker'[w] = worker[w]
  BY <1>1, <1>5 DEF Goto, WorkerState
<1>6. ASSUME NEW v \in ClaimWorker, NEW key \in Key, TakeClaim(v, key)
      PROVE  worker'[w] = worker[w]
  <2>1. worker' = [worker EXCEPT ![v] = [Idle EXCEPT !.pc = "read", !.key = key]]
    BY <1>6 DEF TakeClaim
  <2> QED BY <1>1, <2>1 DEF Idle
<1>7. ASSUME NEW v \in ClaimWorker, ReadClaim(v)
      PROVE  worker'[w] = worker[w]
  <2>1. CASE Forget(v)
    BY <1>3, <2>1
  <2>2. CASE worker' = [worker EXCEPT ![v].pc = "downscale",
                                      ![v].claim = claimCache[worker[v].key]]
    BY <1>1, <2>2 DEF WorkerState
  <2> QED BY <1>7, <2>1, <2>2 DEF ReadClaim
<1>8. ASSUME NEW v \in ClaimWorker, CheckDownscale(v)
      PROVE  worker'[w] = worker[w] \/ PassesDownscale(w)
  <2> DEFINE managedQuota == quotaCache[NamespaceOf(v)]
             hard == IF managedQuota = None THEN None ELSE managedQuota.hard
             running == FilterRunningPods(podCache, PodsOf(NamespaceOf(v)))
             message == downscaleMessage(worker[v].claim.spec, managedQuota, running)
  <2>1. CASE message = EmptyMsg /\ PassDownscale(v, hard, running)
    <3>1. worker[v].pc = "downscale"
      BY <1>8 DEF CheckDownscale
    <3>2. CASE v # w
      BY <1>1, <2>1, <3>2 DEF PassDownscale
    <3>3. CASE v = w
      <4> HIDE DEF hard, running
      <4>1. /\ worker'[w].claim = worker[w].claim
            /\ worker'[w].compared = hard /\ worker'[w].counted = running
        BY <1>1, <2>1, <3>3 DEF PassDownscale, WorkerState
      <4> USE DEF hard, running
      <4> QED BY <2>1, <3>1, <3>3, <4>1 DEF PassesDownscale
    <3> QED BY <3>2, <3>3
  <2> QED BY <1>4, <1>8, <2>1 DEF CheckDownscale
<1>9. ASSUME NEW v \in ClaimWorker, CheckCapacity(v)
      PROVE  worker'[w] = worker[w]
  BY <1>4, <1>5, <1>9 DEF CheckCapacity
<1>10. ASSUME NEW v \in ClaimWorker,
              updateResourceQuota(v) \/ UpdateStatus(v) \/ deleteResourceQuotaClaim(v)
       PROVE  worker'[w] = worker[w]
  BY <1>3, <1>5, <1>10 DEF updateResourceQuota, UpdateStatus, deleteResourceQuotaClaim,
                           Answered, Refused
<1>11. CASE Restart
  BY <1>11 DEF Restart, Idle
<1>12. CASE \/ Environment /\ UNCHANGED controllerVars
            \/ Informers
            \/ \E key \in Key : RetryAfterBackoff(key)
            \/ UNCHANGED vars
  BY <1>2, <1>12 DEF Informers, DeliverClaim, DeliverPod, DeliverQuota, DeliverNode,
                     RetryAfterBackoff, controllerVars, vars, claimVars
<1> QED BY <1>6, <1>7, <1>8, <1>9, <1>10, <1>11, <1>12
           DEF ClaimControllerNext, ClaimControllerStep, WorkerStep

\* A claim that passes the downscale check lowers nothing, or leaves room.
LEMMA PassedRoom ==
    ASSUME CoreInv, NEW w \in ClaimWorker, PassesDownscale(w), worker'[w].compared # None
    PROVE  \/ Covers(worker'[w].claim.spec, worker'[w].compared)
           \/ Covers(worker'[w].claim.spec, TotalRequestNS(worker'[w].counted, PodRequest))
<1> DEFINE spec == worker[w].claim.spec
           managedQuota == quotaCache[NamespaceOf(w)]
           running == FilterRunningPods(podCache, PodsOf(NamespaceOf(w)))
<1>1. NamespaceOf(w) \in Namespace /\ spec \in Amount
  BY InTheMiddle DEF PassesDownscale
<1>2. /\ managedQuota # None
      /\ worker'[w].claim.spec = spec
      /\ worker'[w].compared = managedQuota.hard
      /\ worker'[w].counted = running
      /\ downscaleMessage(spec, managedQuota, running) = EmptyMsg
  BY DEF PassesDownscale
<1>3. managedQuota.hard \in NatAmount
  BY <1>1, <1>2 DEF CoreInv, ClusterTypeOK, Quota
<1>4. TotalRequestNS(running, PodRequest) \in NatAmount
  <2>1. running \in SUBSET Pod
    BY DEF FilterRunningPods, PodsOf
  <2> HIDE DEF running
  <2> QED BY <2>1, RequestsType
<1> HIDE DEF spec, managedQuota, running
<1>5. CASE isDownscaleQuota(spec, managedQuota.hard)
  <2>1. canDownscaleQuota(spec, TotalRequestNS(running, PodRequest)) = EmptyMsg
    BY <1>2, <1>5 DEF downscaleMessage
  <2> QED BY <1>1, <1>2, <1>4, <2>1, DownscaleCheck
<1>6. CASE ~isDownscaleQuota(spec, managedQuota.hard)
  BY <1>1, <1>2, <1>3, <1>6 DEF isDownscaleQuota, Covers, NatAmount, Amount
<1> QED BY <1>5, <1>6

LEMMA RoomStep ==
    ASSUME CoreInv, RoomInv, [ClaimControllerNext]_vars
    PROVE  RoomInv'
<1> SUFFICES ASSUME NEW w \in ClaimWorker, worker'[w].pc \in {"capacity", "apply"},
                    worker'[w].compared # None
             PROVE  \/ Covers(worker'[w].claim.spec, worker'[w].compared)
                    \/ Covers(worker'[w].claim.spec, TotalRequestNS(worker'[w].counted, PodRequest))
  BY DEF RoomInv
<1>1. CASE worker'[w] = worker[w]
  BY <1>1 DEF RoomInv
<1>2. CASE PassesDownscale(w)
  BY <1>2, PassedRoom
<1>3. CASE PassesChecks(w)
  <2>1. /\ worker'[w].claim = worker[w].claim
        /\ worker'[w].compared = worker[w].compared
        /\ worker'[w].counted = worker[w].counted
        /\ worker[w].pc = "capacity"
    BY <1>3 DEF PassesChecks, CoreInv, WorkInv, ControllerTypeOK, WorkerState
  <2> QED BY <2>1 DEF RoomInv
<1> QED BY <1>1, <1>2, <1>3, EntersApply, EntersCapacity

\* A quota shrinks only when a worker applies a claim to it, so to what leaves room.
ShrinkStep ==
    \A w \in ClaimWorker :
        worker[w].pc = "apply" /\ worker'[w] # worker[w] /\ ShrinksAsCompared(w) =>
            Covers(quotas'[NamespaceOf(w)].hard,
                   TotalRequestNS(FilterRunningPods(pods, worker[w].counted), PodRequest))

LEMMA ShrinkLeaves ==
    ASSUME CoreInv, RoomInv, [ClaimControllerNext]_vars
    PROVE  ShrinkStep
<1> SUFFICES ASSUME NEW w \in ClaimWorker, worker[w].pc = "apply", worker'[w] # worker[w],
                    ShrinksAsCompared(w)
             PROVE  Covers(quotas'[NamespaceOf(w)].hard,
                           TotalRequestNS(FilterRunningPods(pods, worker[w].counted), PodRequest))
  BY DEF ShrinkStep
<1> DEFINE ns == NamespaceOf(w)
           spec == worker[w].claim.spec
           counted == worker[w].counted
           still == FilterRunningPods(pods, counted)
<1>1. ns \in Namespace /\ counted \in SUBSET Pod
  BY InTheMiddle DEF WorkerState
<1>2. /\ quotas[ns] \in Quota /\ quotas'[ns] # None
      /\ quotas[ns].hard = worker[w].compared
      /\ ~Covers(quotas'[ns].hard, quotas[ns].hard)
  BY <1>1 DEF ShrinksAsCompared, Shrinks, CoreInv, ClusterTypeOK
<1>3. worker[w].compared # None /\ quotas'[ns].hard # quotas[ns].hard
  BY <1>2, ClusterAssumption DEF Quota, Covers, NatAmount
<1>4. PICK v \in ClaimWorker : Applies(v, ns)
  BY <1>1, <1>2, <1>3, QuotaStep
<1>5. v = w
  BY <1>4 DEF Applies
<1>6. quotas'[ns].hard = spec /\ spec \in NatAmount
  BY <1>4, <1>5 DEF Applies
<1>7. Covers(spec, TotalRequestNS(counted, PodRequest))
  BY <1>2, <1>3, <1>6 DEF RoomInv
<1>8. still \in SUBSET counted /\ still \in SUBSET Pod
  BY <1>1 DEF FilterRunningPods
<1> HIDE DEF counted, still
<1>9. Covers(TotalRequestNS(counted, PodRequest), TotalRequestNS(still, PodRequest))
  BY <1>1, <1>8, RequestsShrink
<1>10. /\ TotalRequestNS(counted, PodRequest) \in NatAmount
       /\ TotalRequestNS(still, PodRequest) \in NatAmount
  BY <1>1, <1>8, RequestsType
<1>11. Covers(quotas'[ns].hard, TotalRequestNS(still, PodRequest))
  BY <1>6, <1>7, <1>9, <1>10 DEF Covers, NatAmount
<1> QED BY <1>11 DEF still, counted

\* A claim that lowers the quota it was compared with leaves room for the pods its
\* check counted, whatever pods start, users ask and other workers do between the
\* check and the write.
THEOREM ShrinkHolds == SafetySpec => ShrinkCoversCounted
<1>1. ClaimControllerInit => RoomInv
  BY RoomInit
<1>2. CoreInv /\ RoomInv /\ [ClaimControllerNext]_vars => RoomInv'
  BY RoomStep
<1>3. CoreInv /\ RoomInv /\ [ClaimControllerNext]_vars => [ShrinkStep]_vars
  BY ShrinkLeaves
<1> HIDE DEF ShrinkStep
<1>4. SafetySpec => [][ShrinkStep]_vars
  BY <1>1, <1>2, <1>3, CoreInvariant, PTL DEF SafetySpec
<1> QED BY <1>4 DEF ShrinkCoversCounted, ShrinkStep
=============================================================================
