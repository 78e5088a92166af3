SPECIFICATION Spec
CONSTANTS
  n1 = n1
  n2 = n2
  Nodes <- MCNodes
  CoresOf <- MCCoresOf
  Top <- MCTop
  Unit <- MCUnit
  Hundredth <- MCUnit
  Thousandth <- MCThousandth
  Stored <- MCStored
  Instants <- MCInstants
  Span = 2
  MaxSamples = 1
  FaultKinds = {"api", "lost", "crash"}
  MaxFaults = 1
INVARIANTS TypeOK CurveIsotonic HardwareOnly
PROPERTIES LevelsKept OffNodesScored
CHECK_DEADLOCK FALSE
