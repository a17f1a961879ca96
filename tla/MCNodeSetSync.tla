---------------------------- MODULE MCNodeSetSync ----------------------------
(***************************************************************************)
(* Instances of NodeSetSync for TLC, and the claims that the documentation *)
(* and the comments make of it and the code does not keep.                 *)
(***************************************************************************)
EXTENDS NodeSetSync

\* "A pod is never deleted until its Slurm node is fully drained, ensuring running
\* jobs are not interrupted" (docs/concepts/nodeset-controller.md): whenever
\* processCondemned deletes a pod, its Slurm node has no work.
DeletedOnlyWhenDrained ==
    [][\A o \in Ordinals : CondemnedDelete(o) => snode[o].base # "BUSY"]_vars

\* "Drain reasons without this prefix are treated as externally owned and are never
\* modified or cleared" (docs/concepts/nodeset-controller.md): no step of a reconcile
\* replaces an external reason that the operator itself has seen.
ExternalReasonKept ==
    [][Reconcile =>
        \A o \in Ordinals :
            scache[o].reason = "ext" /\ snode[o].reason = "ext" => snode'[o].reason = "ext"]_vars

\* "Scaled in when: replicaCount > replicasWant" (comment of syncNodeSetPods): a pod is
\* only deleted for a scale-in while, as far as the operator knows, more pods than
\* wanted are not yet terminating.
ScaleInStopsAtReplicas ==
    [][\A o \in Ordinals :
        CondemnedDelete(o) =>
            Cardinality({q \in PodsIn(cache) : ~cache[q].term}) > want]_vars

\* "To reverse the drain, remove the annotation" (docs/usage/nodeset-operations.md): in
\* an instance where only users cordon pods, the operator never takes the pod-cordon
\* annotation off a pod.
PodCordonHonoured ==
    [][Reconcile =>
        \A o \in Ordinals : pod[o].cordon /\ pod'[o] # NoPod => pod'[o].cordon]_vars
=============================================================================
