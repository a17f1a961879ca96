SPECIFICATION Spec
CONSTANTS
    MaxReplicas = 2
    BurstReplicas = 2
    MaxLag = 1
    MaxDisturb = 2
    Disturb = {"scale"}
    Faults = {}
    WriteThrough = TRUE
INVARIANT NoPhantomCreation
