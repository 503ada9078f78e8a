------------------------------- MODULE Kotary -------------------------------
(***************************************************************************)
(* The whole controller: the claim half and the namespace half in one      *)
(* process, around the same API objects and the same caches.  The          *)
(* namespace half creates claims, the claim half turns them into quotas,   *)
(* and both look at caches that lag behind what the other has done.        *)
(***************************************************************************)
EXTENDS ClaimProperties, NamespaceController

kotaryVars == <<vars, namespaceVars>>

KotaryInit == ClaimControllerInit /\ NamespaceControllerInit

KotaryNext ==
    \/ ClaimControllerStep /\ UNCHANGED namespaceVars
    \/ NamespaceControllerStep /\ UNCHANGED controllerVars
    \/ Restart /\ RestartNamespaces

(***************************************************************************)
(* Fairness: that of the claim half; the namespace stream delivers, the    *)
(* workers finish what they have begun and take what is queued, resyncs    *)
(* come round and back-offs end.                                           *)
(***************************************************************************)
NamespaceFairness ==
    /\ WF_kotaryVars(DeliverNamespace /\ UNCHANGED controllerVars)
    /\ \A w \in NamespaceWorker : WF_kotaryVars(NamespaceWorkerStep(w) /\ UNCHANGED controllerVars)
    /\ WF_kotaryVars((\E w \in NamespaceWorker, ns \in Namespace : TakeNamespace(w, ns))
                     /\ UNCHANGED controllerVars)
    /\ \A ns \in Namespace : /\ WF_kotaryVars(Resync(ns) /\ UNCHANGED controllerVars)
                              /\ WF_kotaryVars(RetryNamespace(ns) /\ UNCHANGED controllerVars)

KotarySafety == KotaryInit /\ [][KotaryNext]_kotaryVars
KotarySpec == KotarySafety /\ ClaimControllerFairness /\ NamespaceFairness

(***************************************************************************)
(* Properties.                                                             *)
(***************************************************************************)
\* Every variable of both halves keeps its type: the queue of namespaces holds
\* namespaces and the queue of claims claims.
KotaryTypeOK == ClusterTypeOK /\ ControllerTypeOK /\ NamespaceTypeOK

\* Every namespace that stays managed ends up with a quota, or with a verdict
\* its users can see: on the default claim, or PENDING on any claim.  It holds
\* however the two halves interleave, through failed and lost calls, a restart,
\* and users who take the default's name for a claim of their own or withdraw
\* the default (syncHandlerNS).
Served(ns) ==
    \/ quotas[ns] # None
    \/ claims[<<ns, DefaultName>>] # None /\ claims[<<ns, DefaultName>>].status.phase = "REJECTED"
    \/ \E k \in Key : k[1] = ns /\ claims[k] # None /\ claims[k].status.phase = "PENDING"

ManagedNamespaceServed == <>[](\A ns \in Namespace : namespaces[ns] = "managed" => Served(ns))

\* The two halves do not keep each other busy: when the environment has stopped,
\* resyncs go on, but they lead to no retries, no new claims and no work for the
\* claim half (IsAlreadyExists in syncHandlerNS).
NeitherKeepsOtherBusy ==
    <>[](claimEvents = <<>> /\ Known(claimQueue) = {} /\ namespaceQueue.waiting = {})

\* Kotary gives a default claim only to a namespace that has no quota
\* (internal/controller/namespace.go:47).
DefaultFillsGap ==
    [][\A w \in NamespaceWorker :
          Attending(w) /\ CallCreate(w) /\ claims' # claims =>
              quotas[namespaceWorker[w].ns] = None]_kotaryVars
=============================================================================
