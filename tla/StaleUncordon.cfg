CONSTANTS
  a1 = a1
  a2 = a2
  s1 = s1
  d1 = d1
  Apps = {a1, a2}
  Systems = {s1}
  Daemons = {d1}
  Jobs = {}
  Protected = {}
  MinAvailable = 0
  Room = 1
  FaultKinds = {"api"}
  Replacement <- TakeTurns
  MaxFaults = 1
SPECIFICATION Spec
CHECK_DEADLOCK FALSE
INVARIANTS AbortedServes
