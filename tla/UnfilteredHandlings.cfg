CONSTANTS
  n1 = n1
  n2 = n2
  n3 = n3
  c1 = c1
  c2 = c2
  NoNode = NoNode
  Nodes = {n1, n2, n3}
  Profiled = {n1, n2, n3}
  Configs = {c1, c2}
  InitiallyOn = {n1, n2, n3}
  MinNodes = 2
  MaxNodes = 3
  Requests = {2}
  OldHandlings = 2
  FaultKinds = {}
  MaxFaults = 0
  MaxCycles = 2
SPECIFICATION Spec
CHECK_DEADLOCK FALSE
INVARIANTS NeverBelowMinimum
SYMMETRY MCSymmetry
