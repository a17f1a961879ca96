SPECIFICATION Spec
CONSTANTS
    MaxReplicas = 1
    BurstReplicas = 1
    MaxLag = 1
    MaxDisturb = 1
    Disturb = {"cordonPod"}
    Faults = {}
    WriteThrough = TRUE
PROPERTY PodCordonHonoured
