SPECIFICATION Spec
CONSTANTS
    Requests = {r1, r2}
    Targets <- TwoModels
    NoTarget <- MCNoTarget
    Unloaders = {}
    Slots = 1
    QueueCapacity = 2
    MaxBackends = 3
    MaxCrashes = 1
    Events = {}
INVARIANT NoCollision
