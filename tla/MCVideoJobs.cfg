SPECIFICATION Spec
CONSTANTS
    MaxProcs = 2
    CrashLimit = 1
    MaxFaults = 1
    MaxJobs = 2
    Sizes <- SmallSizes
    MaxArtifact = 1
    MaxTotal = 1
    MaxTerminal = 2
INVARIANTS TypeOK DiskBounded AdmissionOutlivesKill
PROPERTIES OneOutcome KilledMeansDown ImplementsBackend JobsEnd ShutdownLeavesNothing
CHECK_DEADLOCK FALSE
