SPECIFICATION SafetySpec
CONSTANTS
  None = None  a = a  b = b
  Namespace = {a}
  ClaimName = {c, d}
  ClaimWorker = {w1, w2}
  Pod = {}
  Node = {n1}
  ClaimSpec <- SmallOrHuge
  PodNamespace <- MCPodNamespace
  PodRequest <- MCPodRequest
  NodeCapacity <- MCNodeCapacity
  NodeStates <- OnlyReady
  InitialNode <- MCInitialNode
  InitialNamespace <- AllPlain
  InitialQuota <- QuotaInA
  InitialPod <- AllAbsent
  HandMade = {}
  Bound <- FaultsAndRestarts
  RatioMaxAllocation <- MCRatioMaxAllocation
  RatioOverCommit <- MCRatioOverCommit
INVARIANTS
  NoForgottenClaim
  NeverConcurrent
PROPERTIES
  VerdictIsForCurrentSpec
CHECK_DEADLOCK FALSE
