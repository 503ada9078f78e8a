-------------------------- MODULE ClaimController --------------------------
(***************************************************************************)
(* The claim half of kotary: the informer handlers that put claims on the  *)
(* work queue, and the workers that take a claim, check it and either      *)
(* write a verdict into its status or apply it to the managed-quota of its *)
(* namespace and delete it.                                                *)
(*                                                                         *)
(* A worker goes through syncHandlerClaim one read or call at a time:      *)
(*                                                                         *)
(*   idle -> read -> downscale -> capacity -> apply -> delete -> idle      *)
(*                       |            |                                    *)
(*                       +-> status <-+                                    *)
(*                                                                         *)
(* Informer events, users and other workers may come between any two of    *)
(* these.  CheckDownscale and CheckCapacity each look at two caches in one *)
(* step.  The handlers of the events that fill them add at most to the     *)
(* queue, which a busy worker does not read, so an event that came between *)
(* the two lookups could as well have come before both or after both.      *)
(***************************************************************************)
EXTENDS Cluster, WorkQueue

CONSTANT ClaimWorker    \* the goroutines running runWorkerClaim

VARIABLES
    claimQueue,         \* resourceQuotaClaimWorkQueue
    worker,             \* what each worker is doing
    judged,             \* history: the version of each claim last handled without error
    lagged              \* history: a claim passed a check on quotas the cache did not show as they were

controllerVars == <<claimQueue, worker, judged, lagged>>
claimVars == <<clusterVars, controllerVars>>
vars == <<claimVars, namespaces>>

Pc == {"idle", "read", "downscale", "capacity", "status", "apply", "delete"}

\* The key and the claim in a worker's hands and the verdict on it; and, as a
\* history no action depends on, the quota its downscale check looked at and
\* the pods it counted as running.
WorkerState == [pc : Pc, key : Key \cup {None}, claim : Claim \cup {None}, status : Status,
                compared : NatAmount \cup {None}, counted : SUBSET Pod]
Idle == [pc |-> "idle", key |-> None, claim |-> None, status |-> NoStatus,
         compared |-> None, counted |-> {}]
Busy(w) == worker[w].pc # "idle"
NamespaceOf(w) == worker[w].key[1]

ControllerTypeOK ==
    /\ claimQueue \in QueueState(Key)
    /\ worker \in [ClaimWorker -> WorkerState]
    /\ judged \in [Key -> Nat]
    /\ lagged \in BOOLEAN

ClaimControllerInit ==
    /\ ClusterInit
    /\ claimQueue = EmptyQueue
    /\ worker = [w \in ClaimWorker |-> Idle]
    /\ judged = [k \in Key |-> 0]
    /\ lagged = FALSE

(***************************************************************************)
(* Handlers.  A claim is queued when it appears and when its version       *)
(* changes; the deletion of a pod queues the claims of its namespace that  *)
(* have no final verdict.  Quota and node events only fill the caches.     *)
(***************************************************************************)
\* Wrong: a claim that was edited is not queued again.
enqueueOnAppearance(old, new) == new # None /\ old = None

enqueueOnClaimEvent(old, new) ==
    new # None /\ (old = None \/ new.version # old.version)

\* Wrong: a claim that is PENDING counts as decided.
handlePodUnlessDecided(ns) ==
    {k \in Key : k[1] = ns /\ claimCache[k] # None /\ claimCache[k].status.phase = ""}

handlePod(ns) ==
    {k \in Key : /\ k[1] = ns
                 /\ claimCache[k] # None
                 /\ claimCache[k].status.phase \notin {"REJECTED", "ACCEPTED"}}

DeliverClaim ==
    /\ claimEvents # <<>>
    /\ claimCache' = Deliver(claimCache, claimEvents)
    /\ claimEvents' = Tail(claimEvents)
    /\ LET event == Head(claimEvents)
       IN  claimQueue' = IF enqueueOnClaimEvent(claimCache[event.name], event.object)
                         THEN Add(claimQueue, event.name) ELSE claimQueue
    /\ UNCHANGED <<claims, revision, quotaStore, podStore, nodeStore,
                   quotaCache, podCache, nodeCache, budget, worker, judged, lagged>>

DeliverPod ==
    /\ podEvents # <<>>
    /\ podCache' = Deliver(podCache, podEvents)
    /\ podEvents' = Tail(podEvents)
    /\ LET event == Head(podEvents)
       IN  claimQueue' = IF event.object = "Absent"
                         THEN AddAll(claimQueue, handlePod(PodNamespace[event.name]))
                         ELSE claimQueue
    /\ UNCHANGED <<claimStore, quotaStore, pods, nodeStore,
                   claimCache, quotaCache, nodeCache, budget, worker, judged, lagged>>

DeliverQuota ==
    /\ quotaEvents # <<>>
    /\ quotaCache' = Deliver(quotaCache, quotaEvents)
    /\ quotaEvents' = Tail(quotaEvents)
    /\ UNCHANGED <<claimStore, quotas, podStore, nodeStore,
                   claimCache, podCache, nodeCache, budget, controllerVars>>

DeliverNode ==
    /\ nodeEvents # <<>>
    /\ nodeCache' = Deliver(nodeCache, nodeEvents)
    /\ nodeEvents' = Tail(nodeEvents)
    /\ UNCHANGED <<claimStore, quotaStore, podStore, nodes,
                   claimCache, quotaCache, podCache, budget, controllerVars>>

RetryAfterBackoff(key) ==
    /\ key \in claimQueue.waiting
    /\ claimQueue' = AddAfterBackoff(claimQueue, key)
    /\ UNCHANGED <<clusterVars, worker, judged, lagged>>

(***************************************************************************)
(* processNextWorkClaim: take a key, handle it, and afterwards either      *)
(* forget it or put it back with a back-off.                               *)
(***************************************************************************)
\* Wrong: the key is given back to the queue before it has been handled.
TakeClaimAndGiveBack(w, key) ==
    /\ ~Busy(w)
    /\ key \in Queued(claimQueue)
    /\ claimQueue' = Done(Get(claimQueue, key), key)
    /\ worker' = [worker EXCEPT ![w] = [Idle EXCEPT !.pc = "read", !.key = key]]
    /\ UNCHANGED <<clusterVars, judged, lagged>>

TakeClaim(w, key) ==
    /\ ~Busy(w)
    /\ key \in Queued(claimQueue)
    /\ claimQueue' = Get(claimQueue, key)
    /\ worker' = [worker EXCEPT ![w] = [Idle EXCEPT !.pc = "read", !.key = key]]
    /\ UNCHANGED <<clusterVars, judged, lagged>>

Judge(w) ==
    judged' = IF worker[w].claim = None THEN judged
              ELSE [judged EXCEPT ![worker[w].key] = worker[w].claim.version]

\* Wrong: a key that was handled is put back as if it had failed.
ForgetNothing(w) ==
    /\ worker' = [worker EXCEPT ![w] = Idle]
    /\ claimQueue' = Done(AddRateLimited(claimQueue, worker[w].key), worker[w].key)
    /\ Judge(w)

Forget(w) ==
    /\ worker' = [worker EXCEPT ![w] = Idle]
    /\ claimQueue' = Done(claimQueue, worker[w].key)
    /\ Judge(w)

\* Wrong: a key that failed is dropped.
RequeueNothing(w) ==
    /\ worker' = [worker EXCEPT ![w] = Idle]
    /\ claimQueue' = Done(claimQueue, worker[w].key)
    /\ UNCHANGED judged

Requeue(w) ==
    /\ worker' = [worker EXCEPT ![w] = Idle]
    /\ claimQueue' = Done(AddRateLimited(claimQueue, worker[w].key), worker[w].key)
    /\ UNCHANGED judged

(***************************************************************************)
(* syncHandlerClaim, the part that reads the caches.                       *)
(***************************************************************************)
ReadClaim(w) ==
    /\ worker[w].pc = "read"
    /\ \/ /\ claimCache[worker[w].key] = None
          /\ Forget(w)
       \/ /\ claimCache[worker[w].key] # None
          /\ worker' = [worker EXCEPT ![w].pc = "downscale",
                                      ![w].claim = claimCache[worker[w].key]]
          /\ UNCHANGED <<claimQueue, judged>>
    /\ UNCHANGED <<clusterVars, lagged>>

\* claimPending and claimRejected: the verdict the worker is about to write.
Verdict(w, phase, message) ==
    worker' = [worker EXCEPT ![w].pc = "status",
                             ![w].status = [phase |-> phase, details |-> message]]

Goto(w, pc) == worker' = [worker EXCEPT ![w].pc = pc]

PassDownscale(w, hard, running) ==
    worker' = [worker EXCEPT ![w].pc = "capacity", ![w].compared = hard, ![w].counted = running]

\* The message of a claim that shrinks the quota below what runs in the namespace.
downscaleMessage(spec, managedQuota, running) ==
    IF managedQuota # None /\ isDownscaleQuota(spec, managedQuota.hard)
    THEN canDownscaleQuota(spec, TotalRequestNS(running, PodRequest))
    ELSE EmptyMsg

\* What the quotas of some namespaces allow, in a cache or in the API.
hardOf(quotaOf, S) == [ns \in {m \in S : quotaOf[m] # None} |-> quotaOf[ns].hard]

\* The check reads the quotas of S from the cache.
Relied(S) == lagged' = (lagged \/ hardOf(quotaCache, S) # hardOf(quotas, S))

CheckDownscale(w) ==
    LET ns == NamespaceOf(w)
        managedQuota == quotaCache[ns]
        running == FilterRunningPods(podCache, PodsOf(ns))
        message == downscaleMessage(worker[w].claim.spec, managedQuota, running)
    IN  /\ worker[w].pc = "downscale"
        /\ \/ message # EmptyMsg /\ Verdict(w, "PENDING", message) /\ UNCHANGED lagged
           \/ /\ message = EmptyMsg
              /\ PassDownscale(w, IF managedQuota = None THEN None ELSE managedQuota.hard, running)
              /\ Relied({ns})
        /\ UNCHANGED <<clusterVars, claimQueue, judged>>

totalResourceQuota(ns, quotaOf) == Total(hardOf(quotaOf, Namespace \ {ns}))

capacityMessage(ns, spec) ==
    LET available == nodesTotalCapacity(nodeCache, NodeCapacity)
        limit == checkAllocationLimit(spec, available)
    IN  IF limit # EmptyMsg THEN limit
        ELSE checkResourceFit(spec, available, totalResourceQuota(ns, quotaCache))

CheckCapacity(w) ==
    LET ns == NamespaceOf(w)
        message == capacityMessage(ns, worker[w].claim.spec)
    IN  /\ worker[w].pc = "capacity"
        /\ \/ message # EmptyMsg /\ Verdict(w, "REJECTED", message) /\ UNCHANGED lagged
           \/ message = EmptyMsg /\ Goto(w, "apply") /\ Relied(Namespace \ {ns})
        /\ UNCHANGED <<clusterVars, claimQueue, judged>>

(***************************************************************************)
(* syncHandlerClaim, the calls to the API server.  A call may be refused   *)
(* for its own reasons, may fail without effect, or may take effect and    *)
(* have its answer lost; whatever is not a success puts the claim back on  *)
(* the queue.                                                              *)
(***************************************************************************)
Answered(w, onSuccess) ==
    \/ onSuccess /\ UNCHANGED budget
    \/ Spend("faults") /\ Requeue(w)

Refused(w, valid) ==
    /\ Requeue(w)
    /\ IF valid THEN Spend("faults") ELSE UNCHANGED budget
    /\ UNCHANGED <<claimStore, quotaStore>>

\* Wrong: the write is accepted whatever version it was made from.
statusAcceptedUnversioned(w) == claims[worker[w].key] # None

\* updateResourceQuotaClaimStatus sends back the object it read, so the API
\* server refuses it when the claim has been written or deleted since.
statusAccepted(w) ==
    /\ claims[worker[w].key] # None
    /\ claims[worker[w].key].version = worker[w].claim.version

UpdateStatus(w) ==
    LET key == worker[w].key
    IN  /\ worker[w].pc = "status"
        /\ \/ /\ statusAccepted(w)
              /\ IF claims[key].status = worker[w].status THEN UNCHANGED claimStore
                 ELSE PutClaim(key, claims[key].spec, worker[w].status)
              /\ Answered(w, Forget(w))
              /\ UNCHANGED quotaStore
           \/ Refused(w, statusAccepted(w))
        /\ UNCHANGED <<podStore, nodeStore, caches, lagged>>

\* The quota is created when the cache has none, and otherwise updated unless
\* its *status* already shows the claimed amounts.
quotaSynced(w) ==
    LET cached == quotaCache[NamespaceOf(w)]
    IN  cached # None /\ cached.statusHard = worker[w].claim.spec

\* Create needs the quota to be absent and its namespace to be there, Update needs
\* the quota present; neither accepts a negative amount.
quotaAccepted(w) ==
    LET ns == NamespaceOf(w)
    IN  /\ worker[w].claim.spec \in NatAmount
        /\ ns \in Present
        /\ quotaCache[ns] = None <=> quotas[ns] = None

\* Wrong: the claim is added to what the namespace has.
addToResourceQuota(w) ==
    LET old == quotas[NamespaceOf(w)]
    IN  [hard |-> [r \in Resource |-> worker[w].claim.spec[r] + IF old = None THEN 0 ELSE old.hard[r]],
         statusHard |-> IF old = None THEN None ELSE old.statusHard,
         labelled |-> TRUE]

newResourceQuota(w) ==
    LET old == quotas[NamespaceOf(w)]
    IN  [hard |-> worker[w].claim.spec,
         statusHard |-> IF old = None THEN None ELSE old.statusHard,
         labelled |-> TRUE]

updateResourceQuota(w) ==
    /\ worker[w].pc = "apply"
    /\ \/ /\ quotaSynced(w)
          /\ Goto(w, "delete")
          /\ UNCHANGED <<quotaStore, budget, claimQueue, judged>>
       \/ /\ ~quotaSynced(w)
          /\ quotaAccepted(w)
          /\ PutQuota(NamespaceOf(w), newResourceQuota(w))
          /\ Answered(w, Goto(w, "delete") /\ UNCHANGED <<claimQueue, judged>>)
       \/ /\ ~quotaSynced(w)
          /\ Refused(w, quotaAccepted(w))
    /\ UNCHANGED <<claimStore, podStore, nodeStore, caches, lagged>>

\* Delete names the claim only: no version, no uid.
deleteResourceQuotaClaim(w) ==
    LET key == worker[w].key
    IN  /\ worker[w].pc = "delete"
        /\ \/ /\ claims[key] # None
              /\ RemoveClaim(key)
              /\ Answered(w, Forget(w))
              /\ UNCHANGED quotaStore
           \/ Refused(w, claims[key] # None)
        /\ UNCHANGED <<podStore, nodeStore, caches, lagged>>

WorkerStep(w) ==
    \/ ReadClaim(w) \/ CheckDownscale(w) \/ CheckCapacity(w)
    \/ UpdateStatus(w) \/ updateResourceQuota(w) \/ deleteResourceQuotaClaim(w)

(***************************************************************************)
(* The process dies and comes back: the queue and the workers are gone,    *)
(* the caches are listed again and every claim is reported as new.         *)
(***************************************************************************)
Restart ==
    /\ Spend("restarts")
    /\ Relist
    /\ worker' = [w \in ClaimWorker |-> Idle]
    /\ claimQueue' = AddAll(EmptyQueue, {k \in Key : claims[k] # None})
    /\ UNCHANGED <<claims, revision, quotas, pods, nodes, judged, lagged>>

Informers == DeliverClaim \/ DeliverPod \/ DeliverQuota \/ DeliverNode

ClaimControllerStep ==
    \/ Environment /\ UNCHANGED controllerVars
    \/ Informers
    \/ \E key \in Key : RetryAfterBackoff(key)
    \/ \E w \in ClaimWorker : (\E key \in Key : TakeClaim(w, key)) \/ WorkerStep(w)

\* In this half namespaces neither come nor go.
ClaimControllerNext == (ClaimControllerStep \/ Restart) /\ UNCHANGED namespaces

(***************************************************************************)
(* Fairness, the weakest that the properties need: some event is           *)
(* delivered while there is one, a worker finishes what it has begun, some *)
(* back-off ends, and idle workers take what is queued.  The code gives    *)
(* more (each stream delivers, the queue is first-in first-out); nothing   *)
(* is asked of the environment.                                            *)
(***************************************************************************)
ClaimControllerFairness ==
    /\ WF_claimVars(Informers)
    /\ \A w \in ClaimWorker : WF_claimVars(WorkerStep(w))
    /\ WF_claimVars(\E key \in Key : RetryAfterBackoff(key))
    /\ WF_claimVars(\E w \in ClaimWorker, key \in Key : TakeClaim(w, key))

SafetySpec == ClaimControllerInit /\ [][ClaimControllerNext]_vars
Spec == SafetySpec /\ ClaimControllerFairness
=============================================================================
