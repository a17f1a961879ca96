----------------------------- MODULE WorkerLife -----------------------------
(***************************************************************************)
(* What a NodeSet promises the jobs on its workers, whatever happens       *)
(* inside the operator: the operator takes a worker away only while it has *)
(* no work. Four kinds of worker are excused, because the operator does    *)
(* not know, or does not ask, what they run; see NodeSetRefinement.        *)
(***************************************************************************)
EXTENDS Naturals

CONSTANT Workers

VARIABLES
    present,    \* the workers with a pod
    leaving,    \* those whose pod is terminating
    busy,       \* those with work on their Slurm node
    excused,    \* those the operator may remove without regard to their work
    left        \* how often users, administrators and faults still interfere

vars == <<present, leaving, busy, excused, left>>

Init ==
    /\ present \in SUBSET Workers
    /\ leaving = {} /\ busy = {}
    /\ excused \in SUBSET Workers
    /\ left \in Nat

Create(w) ==
    /\ w \notin present
    /\ present' = present \cup {w}
    /\ UNCHANGED <<leaving, busy>>

Remove(w) ==
    /\ w \in present \ leaving
    /\ w \notin busy \/ w \in excused
    /\ leaving' = leaving \cup {w}
    /\ UNCHANGED <<present, busy>>

\* The pod of a leaving worker is gone, and its work with it.
Gone(w) ==
    /\ w \in leaving
    /\ present' = present \ {w} /\ leaving' = leaving \ {w} /\ busy' = busy \ {w}

StartJob(w) ==
    /\ w \in present \ busy
    /\ busy' = busy \cup {w}
    /\ UNCHANGED <<present, leaving>>

EndJob(w) ==
    /\ w \in busy
    /\ busy' = busy \ {w}
    /\ UNCHANGED <<present, leaving>>

\* What only others do: evict a worker whatever it runs, or make it fail.
Evict(w) ==
    /\ w \in present
    /\ leaving' = leaving \cup {w}
    /\ UNCHANGED <<present, busy>>

Fail(w) ==
    /\ busy' = busy \ {w}
    /\ UNCHANGED <<present, leaving>>

Nothing == UNCHANGED <<present, leaving, busy>>

Interfered == left > 0 /\ left' = left - 1

Next ==
    /\ excused' \in SUBSET Workers
    /\ \/ /\ left' = left \/ Interfered
          /\ \/ Nothing
             \/ \E w \in Workers :
                    Create(w) \/ Remove(w) \/ Gone(w) \/ StartJob(w) \/ EndJob(w)
       \/ /\ Interfered
          /\ \E w \in Workers : Evict(w) \/ Fail(w)

Spec == Init /\ [][Next]_vars
=============================================================================
