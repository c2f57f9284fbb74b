SPECIFICATION Spec
CONSTANTS
    Requests = {r1, r2}
    Targets <- TwoModels
    NoTarget <- MCNoTarget
    Unloaders = {}
    Slots = 1
    QueueCapacity = 2
    MaxBackends = 3
    MaxCrashes = 0
    Events = {"emergency", "close"}
INVARIANT ClosedMeansDown
CHECK_DEADLOCK FALSE
