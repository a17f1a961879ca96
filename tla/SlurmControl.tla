---------------------------- MODULE SlurmControl ----------------------------
(***************************************************************************)
(* What the operator reads from, and writes to, one Slurm node:            *)
(* internal/controller/nodeset/slurmcontrol/slurmcontrol.go.               *)
(*                                                                         *)
(* A Slurm node is abstracted to its base state, its DRAIN flag and the    *)
(* provenance of its reason:                                               *)
(*   base    IDLE, BUSY (ALLOCATED, MIXED or COMPLETING), DOWN (stopped by *)
(*           the pod's preStop hook) or NORESP (DOWN, and the reason says  *)
(*           "Not responding");                                            *)
(*   drain   DRAIN without UNDRAIN;                                        *)
(*   reason  "none" (empty), "ext" (no "slurm-operator:" prefix) or one of *)
(*           the prefixed reasons the operator writes.                     *)
(* Every question is answered from the client's cached copy "node", with   *)
(* "client" telling whether lookupClient found a Slurm client at all.      *)
(***************************************************************************)

\* A node the Slurm controller does not know (404 in the client).
NoNode == [base |-> "NONE", drain |-> FALSE, reason |-> "none"]

\* The reasons the operator writes, each behind nodeReasonPrefix: the pod is
\* cordoned, its Kubernetes node is cordoned, it is pending termination, or it
\* was uncordoned.
OurReasons == {"pod", "node", "term", "uncordon"}

Bases == {"IDLE", "BUSY", "DOWN", "NORESP"}

SlurmNodes ==
    {NoNode} \cup
    [base : Bases, drain : BOOLEAN, reason : OurReasons \cup {"none", "ext"}]

\* No client, or a 404 that tolerateError swallows: there is nothing to act on.
Unknown(client, node) == ~client \/ node = NoNode

IsNodeDrain(client, node) == Unknown(client, node) \/ node.drain

\* Faulty variant: DRAIN alone counts as drained.
IsNodeDrainedOrBusy(client, node) == Unknown(client, node) \/ node.drain

\* Drained: DRAIN and no work. A node that cannot be looked up counts as drained.
IsNodeDrained(client, node) ==
    Unknown(client, node) \/ (node.drain /\ node.base # "BUSY")

IsNodeDownForUnresponsive(client, node) ==
    Unknown(client, node) \/ node.base = "NORESP"

\* Faulty variant: an empty reason is taken for somebody else's.
IsNodeReasonPrefixed(client, node) ==
    Unknown(client, node) \/ node.reason \in OurReasons

\* An empty reason, or one with the operator's prefix.
IsNodeReasonOurs(client, node) ==
    Unknown(client, node) \/ node.reason # "ext"

\* Whether MakeNodeDrain sends its update: an already drained node is left alone
\* only when it carries the very same prefixed reason.
SendsDrain(client, node, reason) ==
    ~Unknown(client, node) /\ ~(node.drain /\ node.reason = reason)

\* Whether MakeNodeUndrain sends its update.
SendsUndrain(client, node) == ~Unknown(client, node) /\ node.drain

\* The update messages, as slurmctld applies them to the node.
Drained(node, reason) == [node EXCEPT !.drain = TRUE, !.reason = reason]
Undrained(node, reason) == [node EXCEPT !.drain = FALSE, !.reason = reason]
=============================================================================
