SPECIFICATION FairSpec
CONSTANTS
    MaxReplicas = 2
    MaxUnavailable = 1
    MaxDeadline = 1
    MaxDisturb = 0
    Settings <- Quiet
PROPERTY UpdateStaysWithinMaxUnavailable
CHECK_DEADLOCK FALSE
