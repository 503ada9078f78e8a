SPECIFICATION KotarySpec
CONSTANTS
  None = None  a = a  b = b
  Namespace = {a}
  ClaimName = {c, d}
  DefaultName = c
  ClaimWorker = {w1}
  NamespaceWorker = {w2}
  Pod = {}
  Node = {n1}
  ClaimSpec <- OnlyHuge
  DefaultClaimSpec <- MCDefaultSpec
  InitialNamespace <- AllPlain
  PodNamespace <- MCPodNamespace
  PodRequest <- MCPodRequest
  NodeCapacity <- MCNodeCapacity
  NodeStates <- OnlyReady
  InitialNode <- MCInitialNode
  InitialQuota <- NoQuota
  InitialPod <- AllAbsent
  HandMade = {}
  Bound <- LabelledAmidFaults
  RatioMaxAllocation <- MCRatioMaxAllocation
  RatioOverCommit <- MCRatioOverCommit
INVARIANTS
  KotaryTypeOK
PROPERTIES
  ManagedNamespaceServed
  NeitherKeepsOtherBusy
CHECK_DEADLOCK FALSE
