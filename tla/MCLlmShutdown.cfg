SPECIFICATION FairSpec
CONSTANTS
    Requests = {r1, r2}
    Targets <- ThreeTargets
    NoTarget <- MCNoTarget
    Unloaders = {}
    Slots = 1
    QueueCapacity = 2
    MaxBackends = 3
    MaxCrashes = 0
    Events = {"cancel", "timeout", "refuse", "stoploads", "close"}
INVARIANTS
    NoCollision
    ClosedMeansDown
PROPERTIES
    NoStartAfterStop
    CloseReturns
CHECK_DEADLOCK FALSE
