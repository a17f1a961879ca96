--------------------------- MODULE MCRollingUpdate ---------------------------
(***************************************************************************)
(* The settings in which TLC checks RollingUpdate.                         *)
(***************************************************************************)
EXTENDS RollingUpdate

\* Workers that are updated while jobs start and pods stop being ready.
Rolled ==
    [strategy |-> "RollingUpdate", disturb |-> {"job", "unready"}, least |-> MaxReplicas]

\* Workers that are updated while the NodeSet is scaled.
Rescaled == [strategy |-> "RollingUpdate", disturb |-> {"scale"}, least |-> 1]

\* Workers that are updated as users delete them, in a NodeSet that is scaled.
Deleted == [strategy |-> "OnDelete", disturb |-> {"kill", "scale"}, least |-> 1]

Scenes == {Rolled, Rescaled, Deleted}

\* Workers that are updated and nothing else happens.
Quiet == {[strategy |-> "RollingUpdate", disturb |-> {}, least |-> MaxReplicas]}
=============================================================================
