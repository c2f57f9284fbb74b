SPECIFICATION Spec
CONSTANTS
    MaxRuns = 2
    Target <- MCTarget
    MaxActive = 1
    MaxRetained = 1
    MaxHeld = 1
    MaxResult = 1
    MaxTotal = 2
    MaxRestarts = 1
INVARIANTS TypeOK HeldIsCounted DeletedStaysGone ShutdownWaits
PROPERTY OutcomeSurvives
CHECK_DEADLOCK FALSE
