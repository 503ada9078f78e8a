SPECIFICATION Spec
CONSTANTS
  None = None  a = a  b = b
  Namespace = {a}
  ClaimName = {c}
  ClaimWorker = {w1}
  Pod = {p1}
  Node = {n1}
  ClaimSpec <- SmallOrLarge
  PodNamespace <- MCPodNamespace
  PodRequest <- MCPodRequest
  NodeCapacity <- MCNodeCapacity
  NodeStates <- OnlyReady
  InitialNode <- MCInitialNode
  InitialNamespace <- AllPlain
  InitialQuota <- QuotaInA
  InitialPod <- AllRunning
  HandMade = {}
  Bound <- PodCompletes
  RatioMaxAllocation <- MCRatioMaxAllocation
  RatioOverCommit <- MCRatioOverCommit
PROPERTIES
  PendingOnlyWhileBlocked
CHECK_DEADLOCK FALSE
