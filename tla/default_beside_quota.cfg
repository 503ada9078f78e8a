SPECIFICATION KotarySafety
CONSTANTS
  None = None  a = a  b = b
  Namespace = {a}
  ClaimName = {c}
  DefaultName = c
  ClaimWorker = {w1}
  NamespaceWorker = {w2}
  Pod = {}
  Node = {n1}
  ClaimSpec <- OnlyLarge
  DefaultClaimSpec <- MCDefaultSpec
  InitialNamespace <- AllManaged
  PodNamespace <- MCPodNamespace
  PodRequest <- MCPodRequest
  NodeCapacity <- MCNodeCapacity
  NodeStates <- OnlyReady
  InitialNode <- MCInitialNode
  InitialQuota <- NoQuota
  InitialPod <- AllAbsent
  HandMade = {}
  Bound <- OneClaim
  RatioMaxAllocation <- MCRatioMaxAllocation
  RatioOverCommit <- MCRatioOverCommit
PROPERTIES
  DefaultFillsGap
CHECK_DEADLOCK FALSE
