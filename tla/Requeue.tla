------------------------------- MODULE Requeue -------------------------------
(***************************************************************************)
(* How a reconcile asks to be run again: the duration store of             *)
(* internal/utils/durationstore (and its twin for times,                   *)
(* internal/utils/timestore), and the work queue of controller-runtime     *)
(* behind it.                                                              *)
(*                                                                         *)
(* The store's entry for one key is the empty set or the set of the one    *)
(* duration kept.  The queue's entry for one request is the time left      *)
(* until it is handed to a worker: 0 is "now", "never" is "not queued".    *)
(***************************************************************************)
EXTENDS Integers

\* The evaluation functions: whether the new duration replaces the old one.
Greater == [oldDur \in Int, newDur \in Int |-> newDur > oldDur]
Less == [oldDur \in Int, newDur \in Int |-> newDur < oldDur]

NothingStored == {}

Push(stored, newDur, eval) ==
    IF \A oldDur \in stored : eval[oldDur, newDur] THEN {newDur} ELSE stored

\* Pop and Peek return 0 when nothing is stored; Pop also empties the entry.
Peek(stored) == IF stored = NothingStored THEN 0 ELSE CHOOSE d \in stored : TRUE

\* One request is queued at most once; the earlier of two times stands.
AddAfter(queued, d) == IF d < queued THEN d ELSE queued

\* What Reconcile returns without an error: a duration that is not positive
\* does not requeue.
RequeueAfter(queued, d) == IF d > 0 THEN AddAfter(queued, d) ELSE queued
=============================================================================
