CONSTANTS
  Callers = {c1, c2}
  Nobody = Nobody
  Runtimes = {"llm", "stt"}
  Capacity = 8
  ReserveBytes = 2
  GPUWorkingSet = 3
  Unified = TRUE
  Bypass = FALSE
  Demands <- MCDemands
  ReleaseSets = {}
  OtherUses = {1, 2}
  Pressures = {"normal"}
  MaxEpoch = 2
SPECIFICATION Spec
SYMMETRY Symmetry
INVARIANTS
  TypeOK
  NeverOversold
  SamplesCountTheSeen
  GPUCapHolds
  ProcessCovered
CHECK_DEADLOCK FALSE
