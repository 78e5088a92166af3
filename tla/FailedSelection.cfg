CONSTANTS
  n1 = n1
  n2 = n2
  n3 = n3
  c1 = c1
  c2 = c2
  NoNode = NoNode
  Nodes = {n1, n2}
  Profiled = {n1, n2}
  Configs = {c1}
  InitiallyOn = {n1, n2}
  MinNodes = 1
  MaxNodes = 3
  Requests = {3}
  OldHandlings = 1
  FaultKinds = {}
  MaxFaults = 0
  MaxCycles = 2
SPECIFICATION FairSpec
CHECK_DEADLOCK FALSE
PROPERTIES FailedSelectionFailsRequest
