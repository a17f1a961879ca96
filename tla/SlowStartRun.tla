---------------------------- MODULE SlowStartRun ----------------------------
(***************************************************************************)
(* One SlowStartBatch over a set of items, every call of which may succeed *)
(* or fail.                                                                *)
(***************************************************************************)
EXTENDS SlowStart

CONSTANT Items      \* what the batch is called for

ASSUME ItemsAssumption == IsFiniteSet(Items)

VARIABLES
    b,      \* the batch
    bad     \* the number of calls that failed

vars == <<b, bad>>

Init == b = StartBatch(Items) /\ bad = 0

Call(x, success) ==
    /\ x \in b.todo
    /\ b' = CallReturns(b, x, success)
    /\ bad' = bad + (IF success THEN 0 ELSE 1)

Next == \E x \in Items, success \in BOOLEAN : Call(x, success)

Spec == Init /\ [][Next]_vars

\* The batch is well formed.
TypeOK == b \in Batches(Items) /\ bad \in Nat

\* How the size of a batch relates to what came before it: the calls before this batch,
\* all of them successful, number at least its size less one.
SizeBounded ==
    /\ bad <= b.size - b.left \/ b.left = 0
    /\ 2 * b.size <= b.ok + bad + b.left + 1
    /\ b.failed <=> bad > 0

\* What slow start is for ("prevented from spamming the API service with the pod create
\* requests after one of its pods fails", doPodScale): however many items there are, the
\* failed calls outnumber the successful ones by at most one.
FailuresBounded == bad <= b.ok + 1
=============================================================================
