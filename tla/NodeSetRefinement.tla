-------------------------- MODULE NodeSetRefinement --------------------------
(***************************************************************************)
(* NodeSetSync implements WorkerLife.                                      *)
(***************************************************************************)
EXTENDS NodeSetSync

\* Whom the operator removes without knowing that they are idle: everybody when the
\* cluster has no Slurm client, a worker that registered after the Slurm nodes were last
\* listed, one that syncSlurmNodes found unregistered, and one whose pod it saw failed.
Excused ==
    {o \in Ordinals :
        \/ ~client
        \/ o \in newReg
        \/ pc = "drift" /\ o \in batch.todo
        \/ snap[o].phase = "Failed"}

Life == INSTANCE WorkerLife WITH
    Workers <- Ordinals,
    present <- PodsIn(pod),
    leaving <- {o \in Ordinals : pod[o].term},
    busy    <- {o \in Ordinals : snode[o].base = "BUSY"},
    excused <- Excused,
    left    <- budget

\* Whatever the order of its steps and however old what it knows is, the operator takes
\* a worker away (processCondemned, processNodeSetPod, syncSlurmNodes) only while it has
\* no work, the excused apart, and no other step of it ends the work of a worker.
ImplementsWorkerLife == Life!Spec
=============================================================================
