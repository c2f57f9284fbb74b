CONSTANTS
  Callers = {c1, c2}
  Nobody = Nobody
  Runtimes = {"stt"}
  Capacity = 6
  ReserveBytes = 2
  GPUWorkingSet = 3
  Unified = FALSE
  Bypass = FALSE
  Demands <- OneDemand
  ReleaseSets <- MCReleaseSets
  OtherUses = {1}
  Pressures = {"normal"}
  MaxEpoch = 2
SPECIFICATION Spec
INVARIANT HeadroomAdmissible
CHECK_DEADLOCK FALSE
