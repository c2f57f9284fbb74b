SPECIFICATION Spec
CONSTANTS
    Requests = {r1, r2, r3}
    Targets <- TwoModels
    NoTarget <- MCNoTarget
    Unloaders = {u1}
    Slots = 2
    QueueCapacity = 3
    MaxBackends = 4
    MaxCrashes = 1
    Events = {"cancel", "unload", "evict", "emergency"}
SYMMETRY Symmetry
INVARIANTS
    TypeOK
    LeasesKeepTheirBackend
    NoLostWakeup
    LiveIsReserved
