---------------------------- MODULE Expectations ----------------------------
(***************************************************************************)
(* The controller expectations (UIDTrackingControllerExpectations): the    *)
(* counters of creations and deletions still to be observed, the keys of   *)
(* the pods whose deletion is awaited, and the five-minute expiry. They    *)
(* keep a reconcile from acting on a pod cache that its own writes have    *)
(* not reached yet.                                                        *)
(***************************************************************************)
EXTENDS Integers, FiniteSets

NoExpectations == [adds |-> 0, dels |-> 0, keys |-> {}, expired |-> FALSE]

ExpectDeletions(keys) ==
    [adds |-> 0, dels |-> Cardinality(keys), keys |-> keys, expired |-> FALSE]
RaiseCreations(e, n) == [e EXCEPT !.adds = @ + n]
LowerCreations(e, n) == [e EXCEPT !.adds = @ - n]
\* The keys survive: SetExpectations is the embedded, key-less, method.
SetExpectations(e) == [adds |-> 0, dels |-> 0, keys |-> e.keys, expired |-> FALSE]
DeletionObserved(e, o) ==
    IF o \in e.keys
    THEN [adds |-> e.adds, dels |-> e.dels - 1, keys |-> e.keys \ {o}, expired |-> e.expired]
    ELSE e
Fulfilled(e) == e.adds <= 0 /\ e.dels <= 0
SatisfiedExpectations(e) == Fulfilled(e) \/ e.expired
=============================================================================
