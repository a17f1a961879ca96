SPECIFICATION FairSpec
CONSTANTS
    MaxReplicas = 2
    MaxUnavailable = 1
    MaxDeadline = 1
    MaxDisturb = 2
    Settings <- Scenes
INVARIANT TypeOK
PROPERTIES RollingUpdateCompletes KeptWorkersReturn  
CHECK_DEADLOCK FALSE
