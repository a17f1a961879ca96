SPECIFICATION Spec
CONSTANTS
    MaxReplicas = 1
    BurstReplicas = 1
    MaxLag = 1
    MaxDisturb = 2
    Disturb = {"scale", "job", "drain"}
    Faults = {}
    WriteThrough = TRUE
PROPERTY ExternalReasonKept
