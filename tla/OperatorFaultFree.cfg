CONSTANTS
  n1 = n1
  n2 = n2
  n3 = n3
  c1 = c1
  c2 = c2
  NoNode = NoNode
  Nodes = {n1, n2, n3}
  Profiled = {n1, n2, n3}
  Configs = {c1, c2}
  InitiallyOn = {n1, n2}
  MinNodes = 1
  MaxNodes = 3
  Requests = {1, 2, 3}
  OldHandlings = 1
  FaultKinds = {}
  MaxFaults = 0
  MaxCycles = 2
SPECIFICATION Spec
CHECK_DEADLOCK FALSE
INVARIANTS NeverBelowMinimum FailedSelectionStartedNothing OffNodesStayCordoned PowerCyclesCountedOnce
SYMMETRY MCSymmetry
PROPERTIES ResizesPool
