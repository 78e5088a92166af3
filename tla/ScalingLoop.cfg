CONSTANTS
  Machines = {"s", "m", "l"}
  Cores <- MCCores
  Capacity <- MCCapacity
  MinNodes = 1
  MaxNodes = 3
  InitiallyOn = {"s", "m"}
  Demands = {100, 230, 420}
  Bands <- MCBands
  Fleets <- MCFleets
  Profiles = {3, 9}
  Losses <- MCLosses
  ScaleDownWeights <- MCScaleDownWeights
  ScaleUpWeights <- MCScaleUpWeights
  Missing = Missing
  MaxChanges = 2
  MaxBlind = 2
SPECIFICATION FairSpec
CHECK_DEADLOCK FALSE
INVARIANTS Recoverable NoneOvertaken
PROPERTIES NoFlapping 
