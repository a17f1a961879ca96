---------------------------- MODULE PartsProofs ----------------------------
(***************************************************************************)
(* Proofs about SlowStartBatch for every finite set of items, and that     *)
(* what is proved of a Token, a Slurm client and the revisions of a        *)
(* NodeSet for every value of their constants holds of PartsSpec, the      *)
(* specification of the instances that TLC checks.                         *)
(***************************************************************************)
EXTENDS Parts, FiniteSetTheorems, TLAPS

\* The conjunction that is inductive: the types, and the size of a batch against the
\* calls before it.
IInv == TypeOK /\ SizeBounded /\ FailuresBounded

\* Sets of items have a size, which is positive unless they are empty.
LEMMA ItemSets ==
    ASSUME NEW S \in SUBSET Items
    PROVE  Cardinality(S) \in Nat /\ (S # {} => Cardinality(S) > 0)
BY ItemsAssumption, FS_Subset, FS_CardinalityType, FS_EmptySet

\* The first batch, of one call, satisfies the invariant, and a call that returns
\* preserves it.
LEMMA SlowStartInductive ==
    /\ Init \/ EmptyBatch => IInv
    /\ IInv /\ [Next]_vars => IInv'
<1> USE DEF IInv, SizeBounded, FailuresBounded
<1>1. Init => IInv
  BY ItemSets DEF Init, StartBatch, AtMost, TypeOK, Batches
<1>2. EmptyBatch => IInv
  BY DEF EmptyBatch, NoBatch, TypeOK, Batches
<1>3. ASSUME IInv, NEW x \in Items, NEW success \in BOOLEAN, Call(x, success)
      PROVE  IInv'
  <2> DEFINE rest == b.todo \ {x}
             more == AtMost(2 * b.size, Cardinality(rest))
             good == b.ok + (IF success THEN 1 ELSE 0)
             lost == b.failed \/ ~success
  <2>1. /\ rest \in SUBSET Items
        /\ b.left \in Nat /\ b.size \in Nat /\ b.ok \in Nat /\ bad \in Nat
        /\ b.failed \in BOOLEAN /\ b.left > 0 /\ b.left <= b.size
    BY <1>3 DEF Call, TypeOK, Batches
  <2> USE <2>1
  <2>2. more \in Nat /\ more <= 2 * b.size /\ (rest # {} => more > 0)
    <3>1. Cardinality(rest) \in Nat /\ (rest # {} => Cardinality(rest) > 0)
      BY ItemSets
    <3> QED
      BY <3>1 DEF AtMost
  <2>3. b' = [todo |-> IF b.left = 1 /\ lost THEN {} ELSE rest,
              left |-> IF b.left = 1 THEN IF lost THEN 0 ELSE more ELSE b.left - 1,
              size |-> IF b.left = 1 THEN IF lost THEN 0 ELSE more ELSE b.size,
              ok |-> good, failed |-> lost]
    BY <1>3 DEF Call, CallReturns
  <2>4. /\ good \in Nat /\ bad' \in Nat /\ lost \in BOOLEAN /\ (lost <=> bad' > 0)
        /\ bad' <= b.size - b.left + 1 /\ bad' <= good + 1
        /\ 2 * b.size <= good + bad' + b.left
    <3>1. CASE success
      <4>1. lost = b.failed
        BY <3>1, Zenon
      <4> QED
        BY <1>3, <3>1, <4>1 DEF Call
    <3>2. CASE ~success
      <4>1. lost = TRUE
        BY <3>2, Zenon
      <4> QED
        BY <1>3, <3>2, <4>1 DEF Call
    <3> QED
      BY <3>1, <3>2
  <2> HIDE DEF rest, more, good, lost
  <2> USE <2>4
  <2>5. CASE b.left = 1 /\ lost
    <3>1. b' = [todo |-> {}, left |-> 0, size |-> 0, ok |-> good, failed |-> lost]
      BY <2>3, <2>5
    <3>2. TypeOK'
      BY <3>1 DEF TypeOK, Batches
    <3>3. b'.left = 0 /\ 2 * b'.size = 0 /\ b'.ok = good /\ b'.failed = lost
      BY <3>1
    <3> QED
      BY <2>5, <3>2, <3>3
  <2>6. CASE b.left = 1 /\ ~lost
    <3>1. b' = [todo |-> rest, left |-> more, size |-> more, ok |-> good, failed |-> lost]
      BY <2>3, <2>6
    <3> QED
      BY <2>2, <2>6, <3>1 DEF TypeOK, Batches
  <2>7. CASE b.left # 1
    <3>1. b' = [todo |-> rest, left |-> b.left - 1, size |-> b.size, ok |-> good,
                failed |-> lost]
      BY <2>3, <2>7
    <3> QED
      BY <2>7, <3>1 DEF TypeOK, Batches
  <2> QED
    BY <2>5, <2>6, <2>7
<1> QED
  BY <1>1, <1>2, <1>3 DEF Next, vars, TypeOK

\* For any number of items, the failed calls of a SlowStartBatch outnumber the
\* successful ones by at most one.
THEOREM SlowStartBounded == Spec => []FailuresBounded
<1>1. IInv => FailuresBounded
  BY DEF IInv
<1> QED
  BY SlowStartInductive, <1>1, PTL DEF Spec

\* For any number of items, a batch is at most one larger than the calls of the batches
\* before it, of which none failed.
THEOREM SlowStartSize == Spec => []SizeBounded
<1>1. IInv => SizeBounded
  BY DEF IInv
<1> QED
  BY SlowStartInductive, <1>1, PTL DEF Spec

-----------------------------------------------------------------------------
(* The parts together.                                                      *)

Scenes == {"batch", "prompt", "late", "renewed", "following", "listed", "unlisted"}

\* The inductive invariants of the part that runs. The batch is empty in the scenes of
\* the others.
PartsInv ==
    /\ scene \in Scenes
    /\ IInv
    /\ scene = "prompt" => Prompt!TypeOK /\ Prompt!Chain
    /\ scene = "late" => Late!TypeOK
    /\ scene = "renewed" => Renewed!RenewInv
    /\ scene = "following" => Following!MapInv
    /\ scene = "listed" => Listed!NamesInv /\ Listed!IInv
    /\ scene = "unlisted" => Unlisted!NamesInv /\ Unlisted!IInv

\* The constants of the instances are what the theorems about them assume.
LEMMA PartsAssumptions ==
    /\ 2 \in Nat /\ Prompt!RefreshAssumption
    /\ Renewed!Bounds /\ Renewed!RenewalAssumption /\ Following!Bounds
    /\ Listed!Bounds /\ Unlisted!Bounds
BY DEF Prompt!RefreshAssumption, Renewed!Bounds, Renewed!RenewalAssumption, Following!Bounds,
       Listed!Bounds, Unlisted!Bounds

\* The invariants of the parts are inductive.
LEMMA PartsInductive ==
    /\ Prompt!Init => Prompt!TypeOK /\ Prompt!Chain
    /\ Prompt!TypeOK /\ Prompt!Chain /\ [Prompt!Next]_(Prompt!vars) => Prompt!TypeOK' /\ Prompt!Chain'
    /\ Late!Init => Late!TypeOK
    /\ Late!TypeOK /\ [Late!Next]_(Late!vars) => Late!TypeOK'
    /\ Renewed!Init => Renewed!RenewInv
    /\ Renewed!RenewInv /\ [Renewed!Next]_(Renewed!vars) => Renewed!RenewInv'
    /\ Following!Init => Following!MapInv
    /\ Following!MapInv /\ [Following!Next]_(Following!vars) => Following!MapInv'
    /\ Listed!Init => Listed!NamesInv /\ Listed!IInv
    /\ Listed!NamesInv /\ Listed!IInv /\ [Listed!Next]_(Listed!vars)
          => Listed!NamesInv' /\ Listed!IInv'
    /\ Unlisted!Init => Unlisted!NamesInv /\ Unlisted!IInv
    /\ Unlisted!NamesInv /\ Unlisted!IInv /\ [Unlisted!Next]_(Unlisted!vars)
          => Unlisted!NamesInv' /\ Unlisted!IInv'
BY PartsAssumptions, Prompt!TypeInductive, Prompt!ChainInductive, Late!TypeInductive,
   Renewed!RenewInductive, Following!MapInductive, Listed!NamesInductive,
   Listed!FitsInductive, Unlisted!NamesInductive, Unlisted!FitsInductive

\* A step of the parts together is one of the part that runs, and the scene stays.
LEMMA PartsStep ==
    ASSUME [PartsNext]_partsVars
    PROVE  /\ scene' = scene /\ [Next]_vars
           /\ scene = "prompt" => [Prompt!Next]_(Prompt!vars)
           /\ scene = "late" => [Late!Next]_(Late!vars)
           /\ scene = "renewed" => [Renewed!Next]_(Renewed!vars)
           /\ scene = "following" => [Following!Next]_(Following!vars)
           /\ scene = "listed" => [Listed!Next]_(Listed!vars)
           /\ scene = "unlisted" => [Unlisted!Next]_(Unlisted!vars)
<1>1. CASE PartsNext
  BY <1>1
  DEF PartsNext, BatchNext, PromptNext, LateNext, RenewedNext, FollowingNext, ListedNext,
      UnlistedNext, NotBatch, NotToken, NotClient, NotHistory, batchOnly, vars
<1>2. CASE UNCHANGED partsVars
  BY <1>2
  DEF partsVars, batchOnly, tokenOnly, clientOnly, queueOnly, historyOnly, vars,
      Prompt!vars, Prompt!objVars, Prompt!secVars, Prompt!opVars,
      Late!vars, Late!objVars, Late!secVars, Late!opVars,
      Renewed!vars, Renewed!envVars, Renewed!mapVars, Renewed!opVars,
      Following!vars, Following!envVars, Following!mapVars, Following!opVars,
      Listed!vars, Listed!store, Listed!cache, Listed!local,
      Unlisted!vars, Unlisted!store, Unlisted!cache, Unlisted!local
<1> QED
  BY <1>1, <1>2

\* What the invariants of the parts imply.
LEMMA PartsInvImplies ==
    PartsInv => /\ PartsTypeOK
                /\ NeverExpires /\ RunningIsMapped /\ TokenFresh /\ UpdateRevisionFits
<1>1. PartsInv => PartsTypeOK
  BY PartsAssumptions, Renewed!MapInvTypes, Following!MapInvTypes
  DEF PartsInv, Renewed!RenewInv, Listed!NamesInv, Unlisted!NamesInv, Scenes, PartsTypeOK, IInv
<1>2. PartsInv => NeverExpires
  BY DEF PartsInv, NeverExpires, Prompt!Chain, Prompt!NeverExpires
<1>3. PartsInv => RunningIsMapped
  BY DEF PartsInv, RunningIsMapped, Renewed!RenewInv, Renewed!MapInv, Following!MapInv,
         Renewed!RunningIsMapped, Following!RunningIsMapped
<1>4. PartsInv => TokenFresh
  BY DEF PartsInv, TokenFresh, Renewed!RenewInv, Renewed!Renewal, Renewed!TokenFresh
<1>5. PartsInv => UpdateRevisionFits
  BY DEF PartsInv, UpdateRevisionFits, Listed!IInv, Unlisted!IInv,
         Listed!UpdateRevisionFits, Unlisted!UpdateRevisionFits
<1> QED
  BY <1>1, <1>2, <1>3, <1>4, <1>5

\* The invariant of the part that runs holds throughout.
LEMMA PartsAlways == PartsSpec => []PartsInv
<1>1. PartsInit => PartsInv
  BY PartsInductive, SlowStartInductive DEF PartsInit, PartsInv, Scenes
<1>2. PartsInv /\ [PartsNext]_partsVars => PartsInv'
  BY PartsStep, PartsInductive, SlowStartInductive DEF PartsInv
<1> QED
  BY <1>1, <1>2, PTL DEF PartsSpec

\* The state of every part stays in its types.
THEOREM PartsTypeCorrect == PartsSpec => []PartsTypeOK
BY PartsAlways, PartsInvImplies, PTL

\* The Secret of the Token that TLC checks never holds an expired JWT.
THEOREM PartsNeverExpires == PartsSpec => []NeverExpires
BY PartsAlways, PartsInvImplies, PTL

\* Of both Slurm clients that TLC checks none runs outside the client map.
THEOREM PartsRunningMapped == PartsSpec => []RunningIsMapped
BY PartsAlways, PartsInvImplies, PTL

\* The client in the map has a JWT that has not expired.
THEOREM PartsTokenFresh == PartsSpec => []TokenFresh
BY PartsAlways, PartsInvImplies, PTL

\* The update revision holds the template that was read.
THEOREM PartsRevisionFits == PartsSpec => []UpdateRevisionFits
BY PartsAlways, PartsInvImplies, PTL

\* refreshSecret does not replace a JWT that is not due.
THEOREM PartsRotationInTime == PartsSpec => NoEarlyRotation
<1>1. PartsInv /\ [PartsNext]_partsVars => [scene = "prompt" => ~Prompt!EarlyRotation]_partsVars
  BY PartsStep, Prompt!StepRotatesInTime DEF PartsInv, Prompt!Chain, Prompt!Fresh
<1> QED
  BY PartsAlways, <1>1, PTL DEF PartsSpec, NoEarlyRotation
=============================================================================
