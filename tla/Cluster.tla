------------------------------ MODULE Cluster ------------------------------
(***************************************************************************)
(* What surrounds kotary: the objects the Kubernetes API server holds, the *)
(* watch streams that carry their changes, the informer caches the         *)
(* controllers read, and everybody else who changes the objects.           *)
(*                                                                         *)
(* A change is visible in the API at once and in a cache only when its     *)
(* event is delivered.  There is one stream per kind of object, in order;  *)
(* two streams may drift apart without limit.  Delivering an event also    *)
(* runs the controllers' handlers, so the delivery actions are in the      *)
(* controllers' modules.                                                   *)
(***************************************************************************)
EXTENDS QuotaPolicy, Sequences

CONSTANTS
    Namespace,          \* the namespaces
    ClaimName,          \* names a ResourceQuotaClaim may have in a namespace
    Pod, Node,          \* names of pods and nodes
    None,               \* no object
    ClaimSpec,          \* the amounts users claim
    PodNamespace,       \* the namespace of each pod
    PodRequest,         \* the resources each pod requests
    NodeCapacity,       \* what each node can allocate
    NodeStates,         \* the states a node moves between
    InitialNode,        \* the state of each node at the start
    InitialNamespace,   \* the namespaces at the start
    InitialQuota,       \* the managed-quota of each namespace at the start
    HandMade,           \* the namespaces where somebody else made it
    InitialPod,         \* the phase of each pod at the start
    Bound               \* how often the environment acts, for each kind of act

Key == Namespace \X ClaimName
Act == {"claims", "edits", "quotas", "pods", "completions", "nodes", "faults", "restarts",
        "namespaces", "resyncs"}

Phase == {"", "ACCEPTED", "REJECTED", "PENDING"}
Status == [phase : Phase, details : Message]
NoStatus == [phase |-> "", details |-> EmptyMsg]

\* A claim: what the user asks for, the controller's verdict on it, and the
\* resource version the API server gives it at each write.
Claim == [spec : Amount, status : Status, version : Nat]

\* A managed-quota: spec.hard, status.hard as the quota controller of Kubernetes
\* last wrote it (None: not yet), and whether it has kotary's label.
Quota == [hard : NatAmount, statusHard : NatAmount \cup {None}, labelled : BOOLEAN]

NamespaceState == {"absent", "plain", "managed"}

ASSUME ClusterAssumption ==
    /\ IsFiniteSet(Namespace) /\ IsFiniteSet(Node) /\ IsFiniteSet(Pod)
    /\ None \notin Claim /\ None \notin Quota /\ None \notin NatAmount /\ None \notin Key
    /\ ClaimSpec \subseteq Amount
    /\ PodNamespace \in [Pod -> Namespace]
    /\ PodRequest \in [Pod -> NatAmount]
    /\ NodeCapacity \in [Node -> NatAmount]
    /\ NodeStates \subseteq NodeState
    /\ InitialNode \in [Node -> NodeStates]
    /\ InitialNamespace \in [Namespace -> NamespaceState]
    /\ InitialQuota \in [Namespace -> NatAmount \cup {None}]
    /\ HandMade \subseteq Namespace
    /\ InitialPod \in [Pod -> PodPhase]
    /\ Bound \in [Act -> Nat]

VARIABLES
    claims, quotas, pods, nodes, namespaces,              \* the API objects
    revision,                                             \* last version given to a claim
    claimEvents, quotaEvents, podEvents, nodeEvents,      \* the watch streams
    claimCache, quotaCache, podCache, nodeCache,          \* the informer caches
    budget                                                \* acts left to the environment

claimStore == <<claims, revision, claimEvents>>
quotaStore == <<quotas, quotaEvents>>
podStore == <<pods, podEvents>>
nodeStore == <<nodes, nodeEvents>>
caches == <<claimCache, quotaCache, podCache, nodeCache>>
clusterVars == <<claimStore, quotaStore, podStore, nodeStore, caches, budget>>

\* A namespace with or without the label quota=managed.
Present == {ns \in Namespace : namespaces[ns] # "absent"}

PodsOf(ns) == {p \in Pod : PodNamespace[p] = ns}
Spend(act) == budget[act] > 0 /\ budget' = [budget EXCEPT ![act] = @ - 1]

Event(Name, Object) == [name : Name, object : Object]

ClusterTypeOK ==
    /\ claims \in [Key -> Claim \cup {None}]
    /\ quotas \in [Namespace -> Quota \cup {None}]
    /\ pods \in [Pod -> PodPhase]
    /\ nodes \in [Node -> NodeState]
    /\ revision \in [Key -> Nat]
    /\ claimEvents \in Seq(Event(Key, Claim \cup {None}))
    /\ quotaEvents \in Seq(Event(Namespace, Quota \cup {None}))
    /\ podEvents \in Seq(Event(Pod, PodPhase))
    /\ nodeEvents \in Seq(Event(Node, NodeState))
    /\ claimCache \in [Key -> Claim \cup {None}]
    /\ quotaCache \in [Namespace -> Quota \cup {None}]
    /\ podCache \in [Pod -> PodPhase]
    /\ nodeCache \in [Node -> NodeState]
    /\ budget \in [Act -> Nat]

ClusterInit ==
    /\ claims = [k \in Key |-> None]
    /\ quotas = [ns \in Namespace |->
                    IF InitialQuota[ns] = None THEN None
                    ELSE [hard |-> InitialQuota[ns], statusHard |-> InitialQuota[ns],
                          labelled |-> ns \notin HandMade]]
    /\ pods = InitialPod
    /\ nodes = InitialNode
    /\ namespaces = InitialNamespace
    /\ revision = [k \in Key |-> 0]
    /\ claimEvents = <<>> /\ quotaEvents = <<>> /\ podEvents = <<>> /\ nodeEvents = <<>>
    /\ claimCache = claims /\ quotaCache = quotas /\ podCache = pods /\ nodeCache = nodes
    /\ budget = Bound

(***************************************************************************)
(* Writes.  Each changes one object and appends the event every watcher    *)
(* will see.  PutClaim gives the object its next resource version.         *)
(***************************************************************************)
PutClaim(key, spec, status) ==
    LET object == [spec |-> spec, status |-> status, version |-> revision[key] + 1]
    IN  /\ claims' = [claims EXCEPT ![key] = object]
        /\ revision' = [revision EXCEPT ![key] = @ + 1]
        /\ claimEvents' = Append(claimEvents, [name |-> key, object |-> object])

RemoveClaim(key) ==
    /\ claims' = [claims EXCEPT ![key] = None]
    /\ claimEvents' = Append(claimEvents, [name |-> key, object |-> None])
    /\ UNCHANGED revision

\* Writing what is already there gives no new version and no event.
PutQuota(ns, object) ==
    IF quotas[ns] = object THEN UNCHANGED quotaStore
    ELSE /\ quotas' = [quotas EXCEPT ![ns] = object]
         /\ quotaEvents' = Append(quotaEvents, [name |-> ns, object |-> object])

PutPod(p, phase) ==
    /\ pods' = [pods EXCEPT ![p] = phase]
    /\ podEvents' = Append(podEvents, [name |-> p, object |-> phase])

(***************************************************************************)
(* The environment: users, administrators, the scheduler and the kubelets, *)
(* and the quota controller of Kubernetes.  Nothing is created in a        *)
(* namespace that is not there.                                            *)
(***************************************************************************)
CreateClaim(key, spec) ==
    /\ claims[key] = None
    /\ key[1] \in Present
    /\ Spend("claims")
    /\ PutClaim(key, spec, NoStatus)
    /\ UNCHANGED <<quotaStore, podStore, nodeStore, caches>>

\* The status subresource keeps the old verdict beside the new spec.
EditClaim(key, spec) ==
    /\ claims[key] # None
    /\ claims[key].spec # spec
    /\ Spend("edits")
    /\ PutClaim(key, spec, claims[key].status)
    /\ UNCHANGED <<quotaStore, podStore, nodeStore, caches>>

DeleteClaim(key) ==
    /\ claims[key] # None
    /\ Spend("claims")
    /\ RemoveClaim(key)
    /\ UNCHANGED <<quotaStore, podStore, nodeStore, caches>>

DeleteQuota(ns) ==
    /\ quotas[ns] # None
    /\ Spend("quotas")
    /\ PutQuota(ns, None)
    /\ UNCHANGED <<claimStore, podStore, nodeStore, caches>>

\* Kubernetes copies spec.hard to status.hard some time after a write.
SyncQuotaStatus(ns) ==
    /\ quotas[ns] # None
    /\ quotas[ns].statusHard # quotas[ns].hard
    /\ PutQuota(ns, [quotas[ns] EXCEPT !.statusHard = quotas[ns].hard])
    /\ UNCHANGED <<claimStore, podStore, nodeStore, caches, budget>>

CreatePod(p) ==
    /\ pods[p] = "Absent"
    /\ PodNamespace[p] \in Present
    /\ Spend("pods")
    /\ PutPod(p, "Pending")
    /\ UNCHANGED <<claimStore, quotaStore, nodeStore, caches>>

RunPod(p) ==
    /\ pods[p] = "Pending"
    /\ PutPod(p, "Running")
    /\ UNCHANGED <<claimStore, quotaStore, nodeStore, caches, budget>>

CompletePod(p) ==
    /\ pods[p] = "Running"
    /\ Spend("completions")
    /\ PutPod(p, "Succeeded")
    /\ UNCHANGED <<claimStore, quotaStore, nodeStore, caches>>

DeletePod(p) ==
    /\ pods[p] # "Absent"
    /\ Spend("pods")
    /\ PutPod(p, "Absent")
    /\ UNCHANGED <<claimStore, quotaStore, nodeStore, caches>>

ChangeNode(n, state) ==
    /\ nodes[n] # state
    /\ Spend("nodes")
    /\ nodes' = [nodes EXCEPT ![n] = state]
    /\ nodeEvents' = Append(nodeEvents, [name |-> n, object |-> state])
    /\ UNCHANGED <<claimStore, quotaStore, podStore, caches>>

Environment ==
    \/ \E key \in Key : \/ \E spec \in ClaimSpec : CreateClaim(key, spec) \/ EditClaim(key, spec)
                        \/ DeleteClaim(key)
    \/ \E ns \in Namespace : DeleteQuota(ns) \/ SyncQuotaStatus(ns)
    \/ \E p \in Pod : CreatePod(p) \/ RunPod(p) \/ CompletePod(p) \/ DeletePod(p)
    \/ \E n \in Node, state \in NodeStates : ChangeNode(n, state)

(***************************************************************************)
(* Informers.  The oldest event of a stream updates the cache.             *)
(***************************************************************************)
Deliver(cache, stream) == [cache EXCEPT ![Head(stream).name] = Head(stream).object]

\* A new process lists every object again before its workers start.
Relist ==
    /\ claimCache' = claims /\ quotaCache' = quotas /\ podCache' = pods /\ nodeCache' = nodes
    /\ claimEvents' = <<>> /\ quotaEvents' = <<>> /\ podEvents' = <<>> /\ nodeEvents' = <<>>
=============================================================================
