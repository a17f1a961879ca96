---------------------------- MODULE NodeSetScenes ----------------------------
(***************************************************************************)
(* The instances of NodeSetSync that TLC checks together. Each scene is    *)
(* the specification of NodeSetSync with its own burst, disturbances,      *)
(* faults and budget; a behaviour stays in the scene it starts in. The     *)
(* constants of this module are the largest of the scenes of a run; a      *)
(* scene that names no faults has all of them.                             *)
(***************************************************************************)
EXTENDS MCNodeSetSync, NodeSetRefinement

VARIABLE scene      \* which instance this behaviour is one of

\* Two workers, two changes of spec.replicas or creations that fail.
Scaled == INSTANCE NodeSetSync WITH
    BurstReplicas <- 2, MaxDisturb <- 2, Disturb <- {"scale"}, Faults <- {"create"}

\* Two workers with jobs, one change of spec.replicas or a call that fails.
Working == INSTANCE NodeSetSync WITH
    BurstReplicas <- 2, MaxDisturb <- 1, Disturb <- {"scale", "job"}

\* One worker and everything that can happen to it but an administrator's resume.
Disturbed == INSTANCE NodeSetSync WITH
    BurstReplicas <- 1, MaxDisturb <- 3,
    Disturb <- {"scale", "job", "cordonPod", "cordonNode", "drain", "kill", "fail",
                "client", "crash"}

\* Two workers, one at a time, and one change of spec.replicas.
Stepwise == INSTANCE NodeSetSync WITH
    BurstReplicas <- 1, MaxDisturb <- 1, Disturb <- {"scale", "job"}, Faults <- {}

\* Two workers and two of failing calls, evictions, crashes and lost clients.
Faulty == INSTANCE NodeSetSync WITH
    BurstReplicas <- 2, MaxDisturb <- 2,
    Disturb <- {"kill", "fail", "crash", "client"}

\* One worker, cordoned and drained by users, administrators and the operator.
Cordoned == INSTANCE NodeSetSync WITH
    BurstReplicas <- 1, MaxDisturb <- 3, Faults <- {},
    Disturb <- {"job", "cordonNode", "cordonPod", "drain", "undrain", "kill"}

\* bound: a scene with one worker. Nobody asks for a second, or cordons its node.
OneWorker == replicas <= 1 /\ \A o \in Ordinals \ {0} : ~kcordon[o]

sceneVars == <<vars, scene>>

SafetyInit ==
    \/ scene = "scaled" /\ Scaled!Init
    \/ scene = "working" /\ Working!Init
    \/ scene = "disturbed" /\ Disturbed!Init /\ OneWorker

ScaledNext == scene = "scaled" /\ Scaled!Next /\ UNCHANGED scene
WorkingNext == scene = "working" /\ Working!Next /\ UNCHANGED scene
DisturbedNext == scene = "disturbed" /\ Disturbed!Next /\ OneWorker' /\ UNCHANGED scene

SafetyNext == ScaledNext \/ WorkingNext \/ DisturbedNext

SafetySpec == SafetyInit /\ [][SafetyNext]_sceneVars

LivenessInit ==
    \/ scene = "stepwise" /\ Stepwise!Init
    \/ scene = "faulty" /\ Faulty!Init
    \/ scene = "cordoned" /\ Cordoned!Init /\ OneWorker

StepwiseNext == scene = "stepwise" /\ Stepwise!Next /\ UNCHANGED scene
FaultyNext == scene = "faulty" /\ Faulty!Next /\ UNCHANGED scene
CordonedNext == scene = "cordoned" /\ Cordoned!Next /\ OneWorker' /\ UNCHANGED scene

LivenessNext == StepwiseNext \/ FaultyNext \/ CordonedNext

\* Reconcile depends on the constants of its scene, the other fair actions do not.
SceneReconcile ==
    \/ scene = "stepwise" /\ Stepwise!Reconcile
    \/ scene = "faulty" /\ Faulty!Reconcile
    \/ scene = "cordoned" /\ Cordoned!Reconcile

LivenessSpec ==
    /\ LivenessInit
    /\ [][LivenessNext]_sceneVars
    /\ WF_vars(SceneReconcile)
    /\ EnvironmentFairness
=============================================================================
