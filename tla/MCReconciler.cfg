SPECIFICATION Spec
CONSTANTS
    Requests <- SmallRequests
    Models <- TwoModels
    MaxWaiting = 2
    Slots = 2
    Configs <- SmallConfigs
    Initial <- FirstConfig
    MaxDisturbances = 2
    Recoveries <- OneRecovery
    MaxChecks = 2
INVARIANTS TypeOK LeaseKeepsItsModel ClaimedMeansClosed NeverStranded
PROPERTIES AdmissionReturns RequestsAnswered
CHECK_DEADLOCK FALSE
