-------------------------- MODULE ClaimProperties --------------------------
(***************************************************************************)
(* What the claim half of kotary promises, stated about ClaimController.   *)
(***************************************************************************)
EXTENDS ClaimController

\* Every variable keeps its type; in particular the amounts the controller
\* subtracts never go below zero and a quota never holds a negative amount.
TypeOK ==
    /\ ClusterTypeOK /\ ControllerTypeOK
    /\ namespaces \in [Namespace -> NamespaceState]

\* Two workers never handle the same claim at the same time (the comment on
\* resourceQuotaClaimWorkQueue in the Controller struct).
NeverConcurrent ==
    \A v, w \in ClaimWorker :
        v # w /\ Busy(v) /\ Busy(w) => worker[v].key # worker[w].key

\* A claim whose latest version has not been handled is on its way to a worker:
\* an event about it is still to be delivered, or the work queue knows its key.
\* It survives edits while a worker holds an older version, failed calls, lost
\* answers and restarts (the enqueue handlers, AddRateLimited and Done).
NoForgottenClaim ==
    \A k \in Key :
        claims[k] # None /\ judged[k] # claims[k].version =>
            \/ k \in Known(claimQueue)
            \/ \E i \in DOMAIN claimEvents : claimEvents[i].name = k

\* All the nodes there are, whatever their state.
WholeCluster == Total(NodeCapacity)

\* The quotas found at the start were granted under the same rules.
ASSUME InitialQuotaAssumption ==
    /\ \A ns \in Namespace :
          InitialQuota[ns] # None => Covers(allocationLimit(WholeCluster), InitialQuota[ns])
    /\ Covers(applyOverProvisioning(WholeCluster),
              Total([ns \in {m \in Namespace : InitialQuota[m] # None} |-> InitialQuota[ns]]))

\* No managed-quota exceeds the share of the cluster a namespace may claim,
\* although the check runs on caches and the quota is written steps later
\* (checkAllocationLimit).
QuotaWithinAllocationLimit ==
    \A ns \in Namespace :
        quotas[ns] # None => Covers(allocationLimit(WholeCluster), quotas[ns].hard)

Reserved == Total(hardOf(quotas, Namespace))

\* The quotas together fit in the over-committed cluster (the first check the
\* README names: enough resources, given the sum of all the other quotas).
NeverOvercommitted == Covers(applyOverProvisioning(WholeCluster), Reserved)

\* The quotas can outgrow the cluster only after a claim has been fitted against
\* quotas that the cache did not show as they were (totalResourceQuota).
OvercommittedOnlyByLag == ~lagged => NeverOvercommitted

\* A verdict is written only on the spec it was reached for: an edit made while
\* the claim was being checked is never answered by the old verdict
\* (updateResourceQuotaClaimStatus sends the version it read).
VerdictIsForCurrentSpec ==
    [][\A k \in Key :
          claims[k] # None /\ claims'[k] # None /\ claims'[k].status # claims[k].status =>
              \E w \in ClaimWorker : /\ worker[w].pc = "status"
                                     /\ worker[w].key = k
                                     /\ worker[w].claim.spec = claims'[k].spec
                                     /\ worker[w].status = claims'[k].status]_vars

Shrinks(ns) == /\ quotas[ns] # None /\ quotas'[ns] # None
               /\ ~Covers(quotas'[ns].hard, quotas[ns].hard)

RunningRequests(ns) == TotalRequestNS(FilterRunningPods(pods, PodsOf(ns)), PodRequest)

\* When a quota shrinks, what runs in the namespace still fits: a claim that asks
\* for less waits until it is possible to downscale (README, "Pending").
ShrinkLeavesRoom ==
    [][\A ns \in Namespace :
          Shrinks(ns) => Covers(quotas'[ns].hard, RunningRequests(ns))]_vars

ShrinksAsCompared(w) ==
    Shrinks(NamespaceOf(w)) /\ quotas[NamespaceOf(w)].hard = worker[w].compared

\* A claim that lowers the very quota it was compared with, in one resource or
\* both, leaves room for every pod its check counted and that still runs, however
\* many steps lie between the check and the write and whatever pods, users and
\* other workers do meanwhile (syncHandlerClaim, isDownscaleQuota).
ShrinkCoversCounted ==
    [][\A w \in ClaimWorker :
          worker[w].pc = "apply" /\ worker'[w] # worker[w] /\ ShrinksAsCompared(w) =>
              Covers(quotas'[NamespaceOf(w)].hard,
                     TotalRequestNS(FilterRunningPods(pods, worker[w].counted), PodRequest))]_vars

\* The claim was removed by the controller and not by its user.
AcceptedStep(k) ==
    claims[k] # None /\ claims'[k] = None /\ budget'["claims"] = budget["claims"]

\* A claim the controller deletes is a claim whose amounts are in the quota
\* (README, "Accepted").
AcceptedMeansApplied ==
    [][\A k \in Key : AcceptedStep(k) =>
          quotas[k[1]] # None /\ quotas[k[1]].hard = claims[k].spec]_vars

\* The controller deletes a claim only as it read it: an edit made while the
\* claim was being applied is not thrown away (deleteResourceQuotaClaim).
AcceptedAsRead ==
    [][\A k \in Key : AcceptedStep(k) =>
          \E w \in ClaimWorker : /\ worker[w].pc = "delete"
                                 /\ worker[w].key = k
                                 /\ worker[w].claim.version = claims[k].version]_vars

\* Every claim ends up deleted or with a verdict on its latest version.
EveryClaimAnswered ==
    \A k \in Key :
        claims[k] # None ~> \/ claims[k] = None
                            \/ /\ judged[k] = claims[k].version
                               /\ claims[k].status.phase # ""

\* In the end a claim is PENDING only if running pods really request more than
\* it asks for (README, "Pending": accepted once it is possible to downscale).
PendingOnlyWhileBlocked ==
    <>[](\A k \in Key :
            claims[k] # None /\ claims[k].status.phase = "PENDING" =>
                ~Covers(claims[k].spec, RunningRequests(k[1])))

\* When the environment has stopped, so does the controller: its own status
\* writes and retries do not keep it busy for ever.
EventuallyQuiet ==
    <>[](/\ \A w \in ClaimWorker : ~Busy(w)
         /\ Known(claimQueue) = {}
         /\ claimEvents = <<>>)
=============================================================================
