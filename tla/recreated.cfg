SPECIFICATION KotarySpec
CONSTANTS
  None = None  a = a  b = b
  Namespace = {a}
  ClaimName = {c}
  DefaultName = c
  ClaimWorker = {w1}
  NamespaceWorker = {w2}
  Pod = {}
  Node = {n1}
  ClaimSpec <- OnlyHuge
  DefaultClaimSpec <- MCDefaultSpec
  InitialNamespace <- AllManaged
  PodNamespace <- MCPodNamespace
  PodRequest <- MCPodRequest
  NodeCapacity <- MCNodeCapacity
  NodeStates <- OnlyReady
  InitialNode <- MCInitialNode
  InitialQuota <- QuotaInA
  InitialPod <- AllAbsent
  HandMade = {a}
  Bound <- Recreated
  RatioMaxAllocation <- MCRatioMaxAllocation
  RatioOverCommit <- MCRatioOverCommit
PROPERTIES
  ManagedNamespaceServed
CHECK_DEADLOCK FALSE
