CONSTANTS
  Nodes = {1, 2, 3}
  Drained = 1
  Candidates = {2, 3}
  Moved = {1, 2, 3}
  Residents = {11, 12, 13}
  Host <- MCHost
  Name <- MCName
  Kinds <- MCKinds
  ResidentKinds <- MCResidentKinds
  Allocatable <- MCAllocatable
  Unit = 12
  Labels <- MCLabels
  Taints <- MCTaints
  Nowhere = Nowhere
SPECIFICATION Spec
CHECK_DEADLOCK FALSE
INVARIANTS AntiAffinityKept
