------------------------------ MODULE SlowStart ------------------------------
(***************************************************************************)
(* SlowStartBatch (internal/utils/tools.go): calls in batches of 1, 2, 4,  *)
(* ... The calls of a batch run in goroutines, in any order, and all of    *)
(* them run; a batch in which one failed is the last.                      *)
(*                                                                         *)
(*   todo    what has still to be handled, in this batch or a later one    *)
(*   left    the calls of the current batch that have not returned         *)
(*   size    the size of the current batch                                 *)
(*   ok      the calls that succeeded, which SlowStartBatch returns        *)
(*   failed  whether a call of the current batch failed                    *)
(***************************************************************************)
EXTENDS Integers, FiniteSets

\* The batches over the items of S: one with work left has a call that has not returned.
Batches(S) ==
    {b \in [todo : SUBSET S, left : Nat, size : Nat, ok : Nat, failed : BOOLEAN] :
        b.left <= b.size /\ (b.todo # {} => b.left > 0)}

NoBatch == [todo |-> {}, left |-> 0, size |-> 0, ok |-> 0, failed |-> FALSE]

\* Faulty variant: the batch is as large as what is left.
AtMostAll(n, m) == m

AtMost(n, m) == IF n < m THEN n ELSE m

\* SlowStartInitialBatchSize is 1.
StartBatch(S) ==
    LET n == AtMost(1, Cardinality(S))
    IN  [todo |-> S, left |-> n, size |-> n, ok |-> 0, failed |-> FALSE]

\* Faulty variant: a failure does not end the batches.
CallReturnsAnyway(b, x, success) ==
    LET rest == b.todo \ {x}
        next == AtMost(2 * b.size, Cardinality(rest))
        last == b.left = 1
    IN  [todo |-> rest,
         left |-> IF last THEN next ELSE b.left - 1,
         size |-> IF last THEN next ELSE b.size,
         ok |-> b.ok + (IF success THEN 1 ELSE 0),
         failed |-> b.failed \/ ~success]

\* The call for x returns.
CallReturns(b, x, success) ==
    LET rest == b.todo \ {x}
        failed == b.failed \/ ~success
        next == IF failed THEN 0 ELSE AtMost(2 * b.size, Cardinality(rest))
        last == b.left = 1
    IN  [todo |-> IF last /\ failed THEN {} ELSE rest,
         left |-> IF last THEN next ELSE b.left - 1,
         size |-> IF last THEN next ELSE b.size,
         ok |-> b.ok + (IF success THEN 1 ELSE 0),
         failed |-> failed]
=============================================================================
