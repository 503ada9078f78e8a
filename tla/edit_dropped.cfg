SPECIFICATION SafetySpec
CONSTANTS
  None = None  a = a  b = b
  Namespace = {a}
  ClaimName = {c}
  ClaimWorker = {w1}
  Pod = {}
  Node = {n1}
  ClaimSpec <- SmallOrLarge
  PodNamespace <- MCPodNamespace
  PodRequest <- MCPodRequest
  NodeCapacity <- MCNodeCapacity
  NodeStates <- OnlyReady
  InitialNode <- MCInitialNode
  InitialNamespace <- AllPlain
  InitialQuota <- NoQuota
  InitialPod <- AllAbsent
  HandMade = {}
  Bound <- OneEdit
  RatioMaxAllocation <- MCRatioMaxAllocation
  RatioOverCommit <- MCRatioOverCommit
PROPERTIES
  AcceptedAsRead
CHECK_DEADLOCK FALSE
