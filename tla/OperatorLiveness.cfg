CONSTANTS
  n1 = n1
  n2 = n2
  n3 = n3
  c1 = c1
  c2 = c2
  NoNode = NoNode
  Nodes = {n1, n2, n3}
  Profiled = {n1, n2, n3}
  Configs = {c1}
  InitiallyOn = {n1, n2}
  MinNodes = 0
  MaxNodes = 3
  Requests = {0, 1, 2, 3}
  OldHandlings = 1
  FaultKinds = {"bmc", "timeout"}
  MaxFaults = 2
  MaxCycles = 2
SPECIFICATION FairSpec
CHECK_DEADLOCK FALSE
PROPERTIES OneStepRequestsEnd ScaleDownsEnd
