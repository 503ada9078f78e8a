SPECIFICATION SafetySpec
CONSTANTS
  None = None  a = a  b = b
  Namespace = {a, b}
  ClaimName = {c}
  ClaimWorker = {w1}
  Pod = {p1}
  Node = {n1, n2}
  ClaimSpec <- SmallOrLargeOrCpu
  PodNamespace <- MCPodNamespace
  PodRequest <- MCPodRequest
  NodeCapacity <- TwosAndFour
  NodeStates <- ReadyOrNot
  InitialNode <- MCInitialNode
  InitialNamespace <- AllPlain
  InitialQuota <- NoQuota
  InitialPod <- AllAbsent
  HandMade = {}
  Bound <- NodesAndPods
  RatioMaxAllocation <- MCRatioMaxAllocation
  RatioOverCommit <- MCHalfAgain
PROPERTIES ImplementsLedger
INVARIANTS OvercommittedOnlyByLag
  TypeOK
  QuotaWithinAllocationLimit
CHECK_DEADLOCK FALSE
