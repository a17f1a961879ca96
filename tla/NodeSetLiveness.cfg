SPECIFICATION LivenessSpec
CONSTANTS
    MaxReplicas = 2
    BurstReplicas = 2
    MaxLag = 1
    MaxDisturb = 3
    Disturb = {"scale", "job", "cordonPod", "cordonNode", "drain", "undrain", "kill", "fail", "client", "crash"}
    Faults = {"patch", "slurm", "create", "createLate", "delete"}
    WriteThrough = TRUE
PROPERTIES Converges CordonReachesSlurm
