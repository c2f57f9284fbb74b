CONSTANTS
  Callers = {c1}
  Nobody = Nobody
  Runtimes = {"llm", "stt"}
  Capacity = 6
  ReserveBytes = 2
  GPUWorkingSet = 3
  Unified = TRUE
  Bypass = FALSE
  Demands <- OneDemand
  ReleaseSets <- MCReleaseSets
  OtherUses = {1, 4, 5}
  Pressures = {"normal", "constrained", "critical", "unknown"}
  MaxEpoch = 1
SPECIFICATION FairSpec
INVARIANTS
  PreflightHonest
PROPERTIES
  CalmBeforeHealthy
  PressureClears
CHECK_DEADLOCK FALSE
