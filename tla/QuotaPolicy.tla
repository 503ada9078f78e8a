---------------------------- MODULE QuotaPolicy ----------------------------
(***************************************************************************)
(* The arithmetic of kotary: how much the worker nodes offer, how much the *)
(* quotas reserve, and the three checks a claim goes through (downscale,   *)
(* allocation limit, fit).  Everything here is a pure operator; the        *)
(* controllers call it on whatever their informer caches hold.             *)
(*                                                                         *)
(* An amount gives one integer per resource (milli-cores, bytes).  A ratio *)
(* is a fraction: the code multiplies by a float64 and rounds to the       *)
(* nearest integer, which Scale does exactly.                              *)
(***************************************************************************)
EXTENDS Integers, FiniteSets

CONSTANTS RatioMaxAllocation,   \* share of the cluster one claim may ask for
          RatioOverCommit       \* how much of the cluster may be reserved

Resource == {"cpu", "memory"}
Amount == [Resource -> Int]
NatAmount == [Resource -> Nat]
Ratio == [num : Nat, den : Nat \ {0}]

ASSUME RatioAssumption ==
    /\ RatioMaxAllocation \in [Resource -> Ratio]
    /\ RatioOverCommit \in [Resource -> Ratio]

Covers(big, small) == \A r \in Resource : small[r] <= big[r]

(***************************************************************************)
(* Sums.  The sum of a function into Nat is the number of its units, so    *)
(* that a sum needs no recursion and the theorems on Cardinality speak     *)
(* about it.                                                               *)
(***************************************************************************)
Units(f) == UNION {{x} \X (1 .. f[x]) : x \in DOMAIN f}
SumOf(f) == Cardinality(Units(f))
Total(f) == [r \in Resource |-> SumOf([x \in DOMAIN f |-> f[x][r]])]

(***************************************************************************)
(* Nodes and pods.                                                         *)
(***************************************************************************)
NodeState == [unschedulable : BOOLEAN,
              controlPlane  : BOOLEAN,
              conditions    : SUBSET ({"Ready", "Pressure"} \X {"True", "False", "Unknown"})]

\* A node counts unless it is cordoned, belongs to the control plane, reports
\* no condition at all, or reports a Ready condition that is not True.
FilterWorkerNode(node) ==
    /\ ~node.unschedulable
    /\ ~node.controlPlane
    /\ node.conditions # {}
    /\ \A cond \in node.conditions : cond[1] = "Ready" => cond[2] = "True"

FilterNodesWithPredicate(states) == {n \in DOMAIN states : FilterWorkerNode(states[n])}

nodesTotalCapacity(states, capacity) ==
    Total([n \in FilterNodesWithPredicate(states) |-> capacity[n]])

PodPhase == {"Absent", "Pending", "Running", "Succeeded"}

FilterRunningPods(phases, pods) == {p \in pods : phases[p] = "Running"}

TotalRequestNS(pods, request) == Total([p \in pods |-> request[p]])

(***************************************************************************)
(* The checks.  Each returns the message put in the claim's status, here   *)
(* its kind, the amount the claim asks for and the amount it is held       *)
(* against; EmptyMsg lets the claim through.                               *)
(***************************************************************************)
Message == {"", "MemoryAllocationLimit", "CpuAllocationLimit", "RejectedMemory",
            "RejectedCPU", "PendingMemoryDownscale", "PendingCpuDownscale"} \X Int \X Nat
EmptyMsg == <<"", 0, 0>>

\* int64(math.Round(float64(value) * ratio)) for a value that is not negative.
Scale(value, ratio) == (2 * value * ratio.num + ratio.den) \div (2 * ratio.den)

allocationLimit(available) == [r \in Resource |-> Scale(available[r], RatioMaxAllocation[r])]
applyOverProvisioning(current) == [r \in Resource |-> Scale(current[r], RatioOverCommit[r])]

SubtractWithNonNegativeResult(a, b) ==
    [r \in Resource |-> IF a[r] > b[r] THEN a[r] - b[r] ELSE 0]

\* Wrong: only memory is limited.
limitMemoryOnly(spec, available) ==
    LET limit == allocationLimit(available)
    IN  IF spec["memory"] > limit["memory"] THEN <<"MemoryAllocationLimit", spec["memory"], limit["memory"]>>
        ELSE EmptyMsg

checkAllocationLimit(spec, available) ==
    LET limit == allocationLimit(available)
    IN  IF spec["memory"] > limit["memory"] THEN <<"MemoryAllocationLimit", spec["memory"], limit["memory"]>>
        ELSE IF spec["cpu"] > limit["cpu"] THEN <<"CpuAllocationLimit", spec["cpu"], limit["cpu"]>>
        ELSE EmptyMsg

\* Wrong: what is free may be negative.
fitBelowZero(spec, available, reserved) ==
    LET free == [r \in Resource |-> applyOverProvisioning(available)[r] - reserved[r]]
        diff == SubtractWithNonNegativeResult(free, spec)
    IN  IF diff["memory"] = 0 THEN <<"RejectedMemory", spec["memory"], free["memory"]>>
        ELSE IF diff["cpu"] = 0 THEN <<"RejectedCPU", spec["cpu"], free["cpu"]>>
        ELSE EmptyMsg

\* Wrong: the claim is compared with the cluster, not with what is free.
fitInEmptyCluster(spec, available, reserved) ==
    LET diff == SubtractWithNonNegativeResult(applyOverProvisioning(available), spec)
    IN  IF diff["memory"] = 0 THEN <<"RejectedMemory", spec["memory"], available["memory"]>>
        ELSE IF diff["cpu"] = 0 THEN <<"RejectedCPU", spec["cpu"], available["cpu"]>>
        ELSE EmptyMsg

\* A claim that would leave nothing of a resource free is refused as well.
checkResourceFit(spec, available, reserved) ==
    LET free == SubtractWithNonNegativeResult(applyOverProvisioning(available), reserved)
        diff == SubtractWithNonNegativeResult(free, spec)
    IN  IF diff["memory"] = 0 THEN <<"RejectedMemory", spec["memory"], free["memory"]>>
        ELSE IF diff["cpu"] = 0 THEN <<"RejectedCPU", spec["cpu"], free["cpu"]>>
        ELSE EmptyMsg

\* Wrong: only a claim that lowers every resource counts as a downscale.
isDownscaleOfAll(spec, hard) == \A r \in Resource : spec[r] < hard[r]

isDownscaleQuota(spec, hard) == \E r \in Resource : spec[r] < hard[r]

canDownscaleQuota(spec, totalRequest) ==
    IF totalRequest["memory"] > spec["memory"]
    THEN <<"PendingMemoryDownscale", spec["memory"], totalRequest["memory"]>>
    ELSE IF totalRequest["cpu"] > spec["cpu"]
    THEN <<"PendingCpuDownscale", spec["cpu"], totalRequest["cpu"]>>
    ELSE EmptyMsg
=============================================================================
