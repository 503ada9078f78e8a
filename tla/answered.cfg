SPECIFICATION Spec
CONSTANTS
  None = None  a = a  b = b
  Namespace = {a}
  ClaimName = {c}
  ClaimWorker = {w1}
  Pod = {p1, p2}
  Node = {n1}
  ClaimSpec <- LopsidedOrTooLarge
  PodNamespace <- MCPodNamespace
  PodRequest <- UnitRequest
  NodeCapacity <- MCNodeCapacity
  NodeStates <- OnlyReady
  InitialNode <- MCInitialNode
  InitialNamespace <- AllPlain
  InitialQuota <- QuotaInA
  InitialPod <- OneRunning
  HandMade = {}
  Bound <- PodsAmidFaults
  RatioMaxAllocation <- MCRatioMaxAllocation
  RatioOverCommit <- MCRatioOverCommit
PROPERTIES
  EveryClaimAnswered
  EventuallyQuiet
  ShrinkCoversCounted
  PendingOnlyWhileBlocked
CHECK_DEADLOCK FALSE
