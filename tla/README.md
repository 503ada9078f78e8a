# A formal model of kotary

kotary is a Kubernetes operator. Users write a `ResourceQuotaClaim` into their
namespace; kotary checks it against the cluster and either copies it into the
namespace's `ResourceQuota` named `managed-quota` and deletes it, or writes
`REJECTED` or `PENDING` into its status. A namespace with the label
`quota=managed` gets a default claim when it has neither a quota nor a claim
still to be decided. This directory holds TLA+ modules for that behaviour, TLC
configurations that check them on small clusters, and proofs for clusters of any
size.

Source lines below are relative to `src/`; `claim.go`, `controller.go` and
`namespace.go` are in `src/internal/controller/`.

## The system

### Components

| component | state | operations | talks to |
|---|---|---|---|
| decision rules (`claim.go:200-346`, `utils/aggregation.go`, `utils/filters.go`) | none | capacity of the worker nodes, sum of the quotas, allocation limit, fit, downscale | called by the claim controller on what its caches hold |
| claim controller (`controller.go:119-133,143-149,222-322,377-419`, `claim.go`) | work queue of claim keys, one claim in the hands of each worker | handlers of claim and pod events; `processNextWorkClaim`, `syncHandlerClaim` and its three API calls | reads five caches, writes claims and quotas |
| claim resource (`types.go`, `crd.yml`) | spec, status, resource version | created, edited and deleted by users; status written and object deleted by kotary | API server |
| namespace controller (`namespace.go`, `controller.go:135-141,276-308,324-332`) | work queue of namespaces, one namespace in the hands of each worker | handlers of namespace events; `processNextWorkNS`, `syncHandlerNS` and its API call | reads three caches, creates claims, so it feeds the claim controller |
| lifecycle (`controller.go:152-206`, `main.go`, `artifacts/deployment.yml`) | stage of each process, informers synced or not | load settings, start informers, wait for caches, start workers; readiness probe; rollout | all of the above |
| configuration (`utils/config.go`) | ratios and default claim | read once at start, defaults field by field | decision rules, namespace controller |
| Kubernetes (not in the repository) | claims, quotas, pods, nodes, namespaces | watch streams, caches, optimistic concurrency, quota controller that fills `status.hard`, Deployment controller | everybody |
| metrics, formatting (`prometheus.go`, `bytes.go`) | counters | | nobody decides on them |

### What is hard

* Every decision is taken on informer caches. Each kind of object has a stream
  of its own, so the caches lag behind the API server and behind each other.
* A claim goes through three to four reads and two calls. Users edit and delete
  claims, nodes and pods come and go, and other workers act between any two.
* Every call may fail, may succeed and lose its answer, or be followed by a crash.
  The queues are in memory; what is left after a crash is what the API server holds.
* A claim that stays (rejected, pending, failed) is looked at again only if an
  event or a back-off puts it on the queue.
* `PENDING` depends on pods that run, while the handler listens to pods that are deleted.
* Both halves of kotary work on the same claims and quotas at their own pace: one
  looks for what the other is about to take away or to write.
* Processes replace each other under a readiness probe that knows four of the
  five caches; settings are read once, by a call that may fail.

### What makes each component correct

* Decision rules: what passes is within the limit and fits; no amount below zero is quoted.
* Claim controller: the quotas fit in the cluster and each is within the limit;
  a quota that shrinks still holds the running pods; a verdict is about
  the spec it is written on; a claim that disappears as accepted has been applied
  as it stood; no claim is forgotten; every claim is answered; the controller
  comes to rest; two workers never share a claim; all in all, what happens to
  quotas is what an indivisible check and grant could have done.
* Namespace controller: a managed namespace gets a quota or a verdict in the end,
  a default never replaces what a user has asked for, and the two halves do not
  keep each other busy.
* Lifecycle: a rollout hands over without a gap and settles on one process of the
  wanted version, with its workers running.
* Configuration: a process works with what has been set, and with a default where
  nothing has been set and only there.

Not all of this is true of the code: see "What the failed runs show".

## The modules

| module | what it models |
|---|---|
| `QuotaPolicy` | the decision rules, as pure operators |
| `Cluster` | claims, quotas, pods, nodes and namespaces in the API server, one event stream and one cache per kind, and everybody but kotary who acts on them |
| `WorkQueue` | the rate limited work queue of client-go, as kotary uses it |
| `ClaimController` | handlers, queue loop, `syncHandlerClaim`, restart; its specifications |
| `ClaimProperties` | the properties of the claim controller |
| `QuotaLedger` | the abstract promise: amounts asked for, granted and revoked in single steps |
| `ClaimRefinement` | the mapping under which the claim controller implements the ledger |
| `NamespaceController` | the stream and the cache of namespaces, handlers, queue loop, `syncHandlerNS` |
| `Kotary` | both controllers in one process around one cluster; its specifications and properties |
| `Configuration` | what `parseConfigMap` and the defaults make of a ConfigMap |
| `Lifecycle` | `main` from the settings to the workers, the probe, the Deployment; its properties |
| `MCClaims`, `MCKotary`, `MCLifecycle` | values of the constants for TLC |
| `QuotaPolicyProofs` | lemmas about the decision rules |
| `ClaimProofs`, `HandlingProofs`, `ReservationProofs`, `SightingProofs`, `LedgerProofs` | theorems about the claim controller |
| `KotaryProofs` | the same for both controllers together, and the namespace workers |
| `LifecycleProofs` | theorems about processes and settings |

`ClaimController` and `NamespaceController` each extend `Cluster` (which extends
`QuotaPolicy`) and `WorkQueue`; `Kotary` extends both. `ClaimRefinement`
instantiates `QuotaLedger`. `Lifecycle` extends `Configuration` and stands on its
own: it is about processes, the others about what happens inside one.
An operator below a comment that starts with "Wrong:" is a plausible mistake,
kept beside the right definition to show that a property would catch it; no
specification uses it.

### From code to model: cluster and claims

**Amounts.** One integer per resource. Floats are replaced by fractions:
`Scale(v, num/den)` is the nearest integer, halves up, as `math.Round` gives for
the values that are not negative. `SumOf` is the number of units in a family of
numbers, which avoids recursion. Messages keep their kind, the claimed amount
and the amount it is held against; their wording and rounding for display are
left out. Status texts that would only agree after rounding count as different.

**API server.** `PutClaim`, `RemoveClaim`, `PutQuota`, `PutPod` each change one
object and append the event. `revision` numbers the versions of a claim: two
writes never give the same, also across deletion and re-creation. Writing what is
already there changes nothing. The status subresource keeps spec and status apart
(`EditClaim` keeps the status, `UpdateStatus` keeps the spec). A quota has
`spec.hard` and `status.hard`; `SyncQuotaStatus` is the Kubernetes controller
that copies the first to the second later. A quota has kotary's label or not: what
`newResourceQuota` writes has it, one that somebody else made (`HandMade`) has
not. Namespaces are here too, because nothing is created in one that is not there.

**Informers.** `DeliverClaim`, `DeliverPod`, `DeliverQuota`, `DeliverNode` and
`DeliverNamespace` take the oldest event of a stream, update the cache and run
kotary's handler in the same step.

**Workers.** One step per read or call that can be interleaved with anything that matters:

| action | code | reads | writes |
|---|---|---|---|
| `TakeClaim` | `controller.go:222-254` | queue | queue |
| `ReadClaim` | `claim.go:23-42` | claim cache | |
| `CheckDownscale` | `claim.go:44-68`, `321-346` | quota cache (own namespace), pod cache | |
| `CheckCapacity` | `claim.go:70-95`, `200-318` | node cache, quota cache (other namespaces) | |
| `UpdateStatus` | `claim.go:119-168` | | claim status, if the version is the one read |
| `updateResourceQuota` | `claim.go:171-197`, `354-368` | quota cache again | quota: create, update or nothing |
| `deleteResourceQuotaClaim` | `claim.go:97-115`, `350` | | claim, by name |
| `Forget`, `Requeue` | `controller.go:255-266` | | queue |

Two reads are in one step where nothing is lost by it: `CheckDownscale` reads
quotas and pods, `CheckCapacity` nodes and quotas. An event that is delivered
between the two reads updates one cache and has its handler add at most a key to
the queue, which a busy worker does not read; it could as well have come before
both reads or after both, because the streams may drift without limit.
Each call may be refused by the API server for the reasons the model knows, may
fail (`faults` in the budget), or may take effect and have its answer lost;
`Answered` and `Refused` say which. All of these end in `Requeue`.

**Restart.** The process dies at any point. Queue and workers are lost; the
caches are listed afresh before the new workers start; every claim is reported
as new.

**History.** `judged` is the version of a claim that was last handled without an
error, `lagged` whether a claim has passed a check on quotas that the cache did
not show as they were at that moment, `compared` and `counted` of a worker the
quota its downscale check looked at and the pods it counted as running. No action
depends on them.

**Environment.** Users, administrators, kubelets. Each kind of act has a budget
(`Bound`), which is what keeps the state space finite; the bounds are constants
and the proofs hold for all of them.

### From code to model: namespaces

| action | code | reads | writes |
|---|---|---|---|
| `TakeNamespace` | `controller.go:276-291`, `namespace.go:18-39` | queue, namespace cache, quota cache | queue |
| `LookForClaims` | `namespace.go:41-49`, `97-121` | claim cache | |
| `CallCreate` | `namespace.go:49-68`, `135-144` | | claim `default` |
| `Leave`, `LeaveForRetry` | `controller.go:293-301` | | queue |
| `DeliverNamespace` | `controller.go:135-141`, `324-332` | stream | cache, queue |
| `Resync` | `controller.go:139` | | queue |

The quota is looked up before the claims, in another cache: that is why the two
are separate steps. Taking a namespace off the queue and its first lookups are
one step, because an event that came in between would either have been seen or
put the namespace on the queue again. `CallCreate` finds the default there
already (`SkipExisting`, no error), creates it (the answer may be lost), or has
no effect (`FailToCreate`: the call fails, or the namespace is gone).

The handler of namespace updates does not compare versions, so each resync
queues every namespace. `Resync` may happen at any time; the bound `resyncs`
counts only resyncs that overtake a claim or quota event still to be delivered,
the others are unlimited. Users create, label, unlabel and delete namespaces
(`ChangeNamespace`); one goes when nothing of what was in it is left in the API,
and the caches may still show it all to a namespace that is created again under
the same name. `hasResourceQuota` looks for quotas with kotary's label, so a
managed-quota without it counts as none. In `Kotary` a restart takes both halves
down together. The model of the claim half alone leaves the namespaces as they are.

### From code to model: processes and settings

`Configuration` tells four kinds of text under a key apart: missing or empty,
malformed, blank (parses as null and leaves the zero value) and proper.
`parseConfigMap` treats each key on its own. In `Lifecycle` a process is absent,
down, loading its settings, syncing its caches or running its workers. `Load` has
the two ways of `config.go:82-107`: the ConfigMap is parsed, or whatever error
there is makes every setting a default. `SyncInformer` fills the five caches in
any order, `StartWorkers` waits for all of them (`controller.go:189`), while
`Ready`, the probe, asks about four (`controller.go:154`). `CreatePod`,
`RemovePod` and `StartContainer` are what `artifacts/deployment.yml` makes the
Deployment controller and the kubelet do: one replica and one more during a
rollout, an old pod removed when a wanted one is ready, no start without the
ConfigMap the container takes its environment from. `Crash` takes the container
down at any point.

## The runs

`CHECK_DEADLOCK FALSE` everywhere: when the budget is spent and everything is
handled nothing is left to do, and that is what `EventuallyQuiet`,
`NeitherKeepsOtherBusy` and `SettlesOnOne` ask for.

| run | module, bounds | shows |
|---|---|---|
| `grants` | `MCClaims`: 2 namespaces, 1 worker, 2 nodes of different size of which one is once cordoned or ceases to be ready, 2 creations or withdrawals, claims over the limit in one resource or both, a pod created or deleted and a completion, over-commit 3/2 | `TypeOK`, `QuotaWithinAllocationLimit`, `OvercommittedOnlyByLag`, `ImplementsLedger` |
| `faults` | `MCClaims`: 2 workers on 2 claims of one namespace, 2 creations or withdrawals, 1 edit, 1 failed or unanswered call, 1 restart | `NoForgottenClaim`, `NeverConcurrent`, `VerdictIsForCurrentSpec` |
| `answered` | `MCClaims`: a quota of 3 at the start, claims that lower one resource and keep the other or ask for too much, 2 creations or withdrawals, a running pod and one that may start, of which one may be deleted, 1 fault, 1 restart, fairness | `EveryClaimAnswered`, `EventuallyQuiet`, `ShrinkCoversCounted`, `PendingOnlyWhileBlocked` |
| `namespaces` | `MCKotary`: 1 namespace that may be labelled, the default's name and one more, 1 claim of the user's that asks for too much or 1 withdrawal, 1 fault, 1 restart, fairness | `KotaryTypeOK`, `ManagedNamespaceServed`, `NeitherKeepsOtherBusy` |
| `recreated` | `MCKotary`: a managed namespace with a quota somebody else made, which is deleted, as is the namespace, which may be created again; 1 resync that overtakes events, fairness | `ManagedNamespaceServed` |
| `startup` | `MCLifecycle`: 2 processes, 2 settings, 2 ConfigMaps (one proper, one malformed and blank) of which one is edited or deleted, 2 rollouts, 1 failed read, 1 crash, fairness | `LifecycleTypeOK`, `ServingHandedOver`, `SettlesOnOne` |
| `overcommit` | `MCClaims`: two claims | violated: `NeverOvercommitted` |
| `accepted` | `MCClaims`: two claims | violated: `AcceptedMeansApplied` |
| `edit_dropped` | `MCClaims`: one claim, one edit | violated: `AcceptedAsRead` |
| `completed_pod` | `MCClaims`: one claim, one pod that completes, fairness | violated: `PendingOnlyWhileBlocked` |
| `shrink` | `MCClaims`: two claims, no quota at the start, one pod that starts | violated: `ShrinkLeavesRoom` |
| `default_beside_quota` | `MCKotary`: a managed namespace, one claim | violated: `DefaultFillsGap` |

Amounts are single digits: a node offers 2 or 4 units, one claim may ask for 3/4
of the cluster, over-commit is 1 where not said otherwise. Why these bounds are
enough to be of interest: two namespaces are the fewest in which a claim is
checked against a quota it does not replace; two claims the fewest that compete;
one edit makes an object newer than the version in a worker's hands; one lost
answer and one crash fall between any two steps. Two units more or less than the
limit are enough to pass, to fail in one resource and to fail in both. One
namespace is enough for `Kotary`: the halves meet within a namespace, and what
namespaces do to each other is in `grants`. Two rollouts are the fewest for three
versions to meet. Symmetry is not used: namespaces are told apart by the initial
quotas, and it is unsound for liveness.

### What the failed runs show

1. `overcommit`: the second claim is checked before the cache shows the quota
   written for the first (`claim.go:301`). README.MD:52 promises the sum of all
   the other quotas. The cache has no memory of kotary's own writes.
   `OvercommittedOnlyByLag` holds: this is the only way, with one worker.
2. `accepted`: `updateResourceQuota` compares with `status.hard`, which lags
   behind `spec.hard`. A claim that goes back to the old amounts before the
   status is refreshed is deleted as accepted and the quota stays as it was
   (`claim.go:185`, README.MD:155).
3. `edit_dropped`: the claim is deleted by name with no precondition, together
   with an edit made since it was read (`claim.go:350`, README.MD:155).
4. `completed_pod`: a pending claim waits for running pods, but only the deletion
   of a pod queues it; a pod that completes and stays (a finished job) does not
   (`controller.go:143-149`, `filters.go:35-43`, README.MD:157).
5. `shrink`: running pods are counted once, in the cache, several steps before the
   quota is written. A pod whose start the cache does not show yet, or that starts
   after the check, is not counted, and the quota goes below what it requests
   (`claim.go:63`, `185`, README.MD:157). There is a second way, open with the same
   bounds and also when all pods run from the start: the check is made against the
   quota the cache shows (`claim.go:48`), so a claim checked before the cache shows
   the quota of the namespace is no downscale, and is then applied by an update if
   the quota's event arrives before the write. `ShrinkCoversCounted` says what is left
   of the promise: a claim covers the pods that were counted for it and still run,
   if the quota it lowers is the one it was compared with.
6. `default_beside_quota`: the namespace worker does its lookups while neither
   cache shows anything, the user's claim being under way; the claim is then
   delivered, checked, written to the quota and deleted; only then is the default
   claim created, in a namespace that has a quota by now. Nothing is checked again
   between lookups and creation (`namespace.go:37-51`, against the comment at
   `namespace.go:47`).

Four things the code does that are in the model and have no failed run, because one
step shows them or no document says otherwise: any error in the read of the ConfigMap
makes every setting a default until the process is restarted (`config.go:95`, against
the comment at `config.go:62`); a text that parses as null makes a setting zero
(`config.go:140`, against README.MD:86-90); the probe leaves out the node informer
(`controller.go:155-174`), which `ServingHandedOver` allows for and nothing beyond it;
only quotas with kotary's label count when the namespace half looks for one
(`namespace.go:86`).

### Fairness

Only weak fairness is assumed, and less of it than the code gives. In `Spec`:
some informer delivers while there is an event (each stream does); each worker
finishes what it has taken (`wait.Until` runs it in a loop); some back-off ends
while there is one (timers fire); some idle worker takes something while there is
something to take (the queue is first-in first-out, so the code takes each key).
A worker step is weakly fair as a whole, so a call that can succeed is not
promised to succeed; it fails only out of the `faults` budget, that is finitely
often. `KotarySpec` adds the same for namespaces, and that each namespace in the
cache is resynced again and again (the informer factory's resync period). In
`LifecycleSpec` each process advances if it can: a failed list is tried again by
the informer, a container that does not start by the kubelet, a rollout by the
Deployment controller. Users, nodes, pods and crashes are not fair.
`SyncQuotaStatus` is not either: no liveness property needs it.

## The proofs

The theorems hold for every finite set of namespaces, claim names, pods and
nodes, every set of workers, processes and settings, all amounts (also negative
claims), ratios and bounds. What is assumed is `RatioAssumption`,
`ClusterAssumption`, `InitialQuotaAssumption` (the quotas found at the start obey
the rules they are to keep obeying), `NamespaceAssumption` and
`LifecycleAssumption`; TLC checks each on every run of the modules that declare it.

About the claim controller alone, from `SafetySpec`:

| theorem | states | needs |
|---|---|---|
| `TypeCorrect` | `[]TypeOK` | `CoreInv` |
| `MutualExclusion` | `[]NeverConcurrent` | `CoreInv` |
| `LimitHolds` | `[]QuotaWithinAllocationLimit` | `CoreInv`, `LimitInv` |
| `ReservationHolds` | `[]OvercommittedOnlyByLag`, for one worker | `CoreInv`, `FitInv` |
| `ShrinkHolds` | `ShrinkCoversCounted` | `CoreInv`, `RoomInv` |
| `NothingForgotten` | `[]NoForgottenClaim` | `CoreInv`, `HandledInv` |
| `VerdictsAreCurrent` | `VerdictIsForCurrentSpec` | `CoreInv`, `VersionInv` |
| `LedgerImplemented` | `ImplementsLedger`, for one worker | `CoreInv`, `LimitInv`, `FitInv` |

About both controllers around one cluster, from `KotarySafety`:

| theorem | states | needs |
|---|---|---|
| `KotaryTypeCorrect` | `[]KotaryTypeOK` | `CoreInv`, `NamespaceInv` |
| `WorkersApart` | `[](NeverConcurrent /\ NamespacesApart)` | the same |
| `KotaryLimitHolds` | `[]QuotaWithinAllocationLimit` | these and `LimitInv` |
| `KotaryForgetsNothing` | `[]NoForgottenClaim` | these and `HandledInv` |
| `KotaryVerdictsAreCurrent` | `VerdictIsForCurrentSpec` | these and `VersionInv` |
| `KotaryReservationHolds` | `[]OvercommittedOnlyByLag`, for one claim worker | these and `FitInv` |
| `KotaryShrinkHolds` | `ShrinkCoversCounted` | these and `RoomInv` |
| `KotaryImplementsLedger` | `ImplementsLedger`, for one claim worker | these, `LimitInv` and `FitInv` |

About processes and settings, from `LifecycleSpec`:

| theorem | states | needs |
|---|---|---|
| `LifecycleTypeCorrect` | `[]LifecycleTypeOK` | `LifecycleInv` |
| `HandedOver` | `ServingHandedOver` | `LifecycleInv` |

`CoreInvariant` states `[]CoreInv`; `ResourceFitCheck` is the lemma about the
check itself that `FitInv` rests on.

* `CoreInv` (`ClaimProofs`). Mutual exclusion is not inductive alone: one must
  know that a busy worker's key is in the queue's `processing` set, so that
  `TakeClaim`, which takes only what is dirty and not in process, cannot take it.
  Types need that a worker past its read has a claim and that the checks only
  quote natural numbers, which is where the clamped subtraction matters.
* `LimitInv`. A claim that waits to be applied is within the limit of the whole
  cluster. It was within the limit of the nodes the cache showed as usable; what
  is usable is at most what there is (`CapacityBounded`), and rounding a share is
  monotone (`ScaleMonotone`).
* `FitInv` (`ReservationProofs`). Unless a check was misled, a claim that waits to
  be applied fits beside the quotas of the others *as they are now*: between check
  and write the others can only lose quotas, since the one worker that could
  grant them is busy. With two workers this is false, so the theorem assumes one,
  which is what `Run(2)` starts (`main.go`, `controller.go:196-199`). The run with
  two workers and the theorems for any number of them cover a larger argument of
  `Run`.
* `RoomInv` (`ReservationProofs`). A claim that has passed the downscale check
  against a quota either keeps at least that quota or covers what the pods counted
  for it request. It is about what a worker holds, so nobody else can disturb it,
  and needs neither a bound on workers nor anything about pods. At the write the
  first case is excluded, because the quota written is lower than the one that was
  compared; in the second, the counted pods that still run request at most what
  all counted pods did. Without the comparison, or for pods that were not counted,
  the promise is false (`shrink`).
* `HandledInv` (`HandlingProofs`). The last event about a claim carries what the
  API server holds, and with no event under way the cache holds it (`StreamInv`);
  a worker with an older version than the cache shows has its key dirty
  (`StaleInv`), so that giving the key back does not lose the newer version; a
  cached version that was not handled is known to the queue (`KnownInv`).
* `VersionInv` (`SightingProofs`). The API server compares versions, the property
  speaks of specs. A claim is *seen* in the API, in an event, in the cache or in
  the hands of a worker; two seen claims of one name and one version have one
  spec, and no version is beyond `revision`. It is inductive because whatever is
  seen after a step was seen before it or carries the next version, also after a
  deletion and re-creation.
* The refinement (`LedgerProofs`). A namespace asks for an amount as long as a
  claim for it is anywhere to be seen; granted is `spec.hard`; misled is `lagged`.
  A user's write is `Ask`, a write of a quota is `Grant` (the amount is that of
  the claim in the worker's hands, so it has been asked for; `LimitInv` and
  `FitInv` give the other two conditions), the deletion of a quota is `Revoke`, a
  check that passes on an outdated cache is `LoseSight`, and everything else
  withdraws requests or stutters: `HandStep` and `StoredStep` show that no step
  brings a request out of nowhere, nor does a restart.

* Both controllers (`KotaryProofs`). `NamespaceInv` is the namespace workers'
  part of `CoreInv`: a worker that attends to a namespace has it in the
  `processing` set of its queue, so nobody else can take it. All the rest is
  carried over from the claim controller by `HalfStep`: every step of the two
  together is a step of the claim controller (a restart takes both down and is
  one of its restarts), a step that creates a default claim and touches neither
  quotas nor claim workers (`DefaultStep`), or one that changes at most the budget
  (`BudgetStep`). Each inductive invariant then needs only the second case anew: a
  default claim has the next version of its key and goes out as an event, which
  `HandledInv` and `VersionInv` ask of a new claim whoever wrote it, and in the
  ledger it is one more `Ask`. `NamespaceController` has no specification of its
  own, because the claims it looks for appear only beside the other half.
* `LifecycleInv` (`LifecycleProofs`). A process has filled no cache before it has its
  settings, and all of them once it runs. For the hand-over: a process that runs
  passes its probe, so the Deployment removes it only beside another one whose probe
  is ready; a ready process is past its settings and lacks at most the node cache,
  the one the probe does not ask about. Only a crash can take away more.

Model-checked only: the liveness properties (`EveryClaimAnswered`,
`EventuallyQuiet`, `PendingOnlyWhileBlocked`, `ManagedNamespaceServed`,
`NeitherKeepsOtherBusy`, `SettlesOnOne`). They need fairness, which is defined
through ENABLED, and measures that decrease along a well-founded order; the
prover handles neither here. Of the claim
controller's properties every invariant and action property that holds is a
theorem, alone and beside the namespace half.

## Not modelled, and why

* Quotas other than `managed-quota`. `totalResourceQuota` adds up every quota of
  the other namespaces; foreign ones would be further constants in the sum.
* Claims that leave out a resource. The schema requires none; the checks count a
  missing one as zero and the quota then no longer limits it. Partial amounts
  would need an order on partial functions in every sum.
* Negative claims in the runs. The schema admits a sign (`artifacts/crd.yml:27`)
  and the proofs cover them; in a run the API server refuses the quota and the
  claim is retried for ever without a verdict, which no document rules out.
* Two processes acting on the same claims (a rolling update has two for a while).
  `Lifecycle` says when that is; what they do to claims would need caches and
  queues for each.
* The shutdown path. `main` passes `wait.NeverStop`, so what follows `<-stopCh` in
  `Run` cannot run, and a process ends by being killed.
* The periodic resync of the claim and pod informers: the handlers drop it (equal
  versions, no deletion). That of the namespace informer is modelled.
* A call that takes effect after its caller has given up on it, and a restart
  whose five lists are taken at different times.
* Generated clients, informers and listers: library code, modelled by what kotary
  relies on. Metrics, log lines, the wording of messages.

## What is left

* A second process with caches of its own over the same API server, to say what a
  rollout may do to claims.
* Partial amounts, and quotas that kotary does not manage.
* Proofs: what the decision rules guarantee as theorems of their own (the
  downscale check, the usable capacity), beyond what the invariants need.
