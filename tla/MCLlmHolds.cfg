SPECIFICATION FairSpec
CONSTANTS
    Requests = {r1, r2}
    Targets <- TwoModels
    NoTarget <- MCNoTarget
    Unloaders = {u1, u2}
    Slots = 1
    QueueCapacity = 2
    MaxBackends = 3
    MaxCrashes = 1
    Events = {"refuse", "cancel", "unload", "evict"}
INVARIANTS
    HoldsExcludeEachOther
PROPERTIES
    EveryRequestAnswered
