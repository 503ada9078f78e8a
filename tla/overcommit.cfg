SPECIFICATION SafetySpec
CONSTANTS
  None = None  a = a  b = b
  Namespace = {a, b}
  ClaimName = {c}
  ClaimWorker = {w1}
  Pod = {}
  Node = {n1}
  ClaimSpec <- OnlyLarge
  PodNamespace <- MCPodNamespace
  PodRequest <- MCPodRequest
  NodeCapacity <- MCNodeCapacity
  NodeStates <- OnlyReady
  InitialNode <- MCInitialNode
  InitialNamespace <- AllPlain
  InitialQuota <- NoQuota
  InitialPod <- AllAbsent
  HandMade = {}
  Bound <- TwoClaims
  RatioMaxAllocation <- MCRatioMaxAllocation
  RatioOverCommit <- MCRatioOverCommit
INVARIANTS
  NeverOvercommitted
CHECK_DEADLOCK FALSE
