------------------------------ MODULE MCClaims ------------------------------
(***************************************************************************)
(* Small clusters for TLC.  Amounts are a handful of units: one node of    *)
(* four, or one of two and one of four, a limit of three quarters of the   *)
(* cluster, over-commit by half or not at all.                             *)
(***************************************************************************)
EXTENDS ClaimRefinement

CONSTANTS a, b

Amt(cpu, memory) == [cpu |-> cpu, memory |-> memory]
Both(q) == [cpu |-> q, memory |-> q]

Ready == [unschedulable |-> FALSE, controlPlane |-> FALSE,
          conditions |-> {<<"Ready", "True">>, <<"Pressure", "False">>}]
NotReady == [Ready EXCEPT !.conditions = {<<"Ready", "Unknown">>}]
Cordoned == [Ready EXCEPT !.unschedulable = TRUE]

MCRatioMaxAllocation == [r \in Resource |-> [num |-> 3, den |-> 4]]
MCRatioOverCommit == [r \in Resource |-> [num |-> 1, den |-> 1]]

MCHalfAgain == [r \in Resource |-> [num |-> 3, den |-> 2]]

MCNodeCapacity == [n \in Node |-> Both(4)]
TwosAndFour == [n \in Node |-> IF n = CHOOSE m \in Node : TRUE THEN Both(2) ELSE Both(4)]
MCInitialNode == [n \in Node |-> Ready]
OnlyReady == {Ready}
ReadyOrNot == {Ready, NotReady, Cordoned}

MCPodNamespace == [p \in Pod |-> a]
MCPodRequest == [p \in Pod |-> Both(2)]
UnitRequest == [p \in Pod |-> Both(1)]

AllPlain == [ns \in Namespace |-> "plain"]
AllManaged == [ns \in Namespace |-> "managed"]

NoQuota == [ns \in Namespace |-> None]
QuotaInA == [ns \in Namespace |-> IF ns = a THEN Both(3) ELSE None]

SmallOrLarge == {Both(1), Both(3)}
LopsidedOrTooLarge == {Amt(1, 3), Amt(4, 1)}
SmallOrLargeOrCpu == {Both(1), Both(5), Amt(6, 1)}
SmallOrHuge == {Both(1), Both(5)}
OnlyLarge == {Both(3)}

AllAbsent == [p \in Pod |-> "Absent"]
AllRunning == [p \in Pod |-> "Running"]
AllPending == [p \in Pod |-> "Pending"]
OneRunning == [p \in Pod |-> IF p = CHOOSE q \in Pod : TRUE THEN "Running" ELSE "Pending"]

\* How often the environment acts: what is not named does not happen.
Nothing == [act \in Act |-> 0]
OneClaim == [Nothing EXCEPT !["claims"] = 1]
TwoClaims == [Nothing EXCEPT !["claims"] = 2]
OneEdit == [Nothing EXCEPT !["claims"] = 1, !["edits"] = 1]
FaultsAndRestarts == [OneEdit EXCEPT !["claims"] = 2, !["faults"] = 1, !["restarts"] = 1]
PodsAmidFaults == [TwoClaims EXCEPT !["pods"] = 1, !["faults"] = 1, !["restarts"] = 1]
PodCompletes == [OneClaim EXCEPT !["completions"] = 1]
NodesAndPods == [TwoClaims EXCEPT !["nodes"] = 1, !["pods"] = 1, !["completions"] = 1]
=============================================================================
