CONSTANTS
  r1 = r1
  r2 = r2
  NoRequest = NoRequest
  Names = {r1, r2}
  MinNodes = 2
  MaxNodes = 3
  InitiallyActive = 2
  StabilizationCycles = 2
  Grace = 2
  Cooldown = 2
  Period = 2
  DefaultGrace = 1
  DefaultCooldown = 1
  DefaultPeriod = 1
  QOS = TRUE
  MayDisable = TRUE
  FaultKinds = {"api", "lost", "crash"}
  MaxFaults = 2
SPECIFICATION FairSpec
INVARIANTS OneRequestAtATime PoolWithinBounds
PROPERTIES  NoScaleDownUnderPods GraceRespected OverduePodsGetANode
