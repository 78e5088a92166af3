CONSTANTS
  a1 = a1
  a2 = a2
  s1 = s1
  d1 = d1
  Apps = {a1, a2}
  Systems = {s1}
  Daemons = {d1}
  Jobs = {a1, a2}
  Protected = {a1, a2, s1}
  MinAvailable = 1
  Room = 1
  FaultKinds = {"api", "lost", "bmc", "timeout", "crash"}
  Replacement <- TakeTurns
  MaxFaults = 2
SPECIFICATION FairSpec
CHECK_DEADLOCK FALSE
INVARIANTS TypeOK
PROPERTIES KnownPodsLeave ScaleDownEnds CompletesUnlessStuck
