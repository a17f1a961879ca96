------------------------- MODULE RollingUpdateProofs -------------------------
(***************************************************************************)
(* Proofs about RollingUpdate, for any number of workers, any              *)
(* maxUnavailable and any settings: the state keeps its types, an update   *)
(* waits for the pods it has created, and under OnDelete the operator      *)
(* takes nothing down.                                                     *)
(***************************************************************************)
EXTENDS RollingUpdate, FiniteSetTheorems, TLAPS

\* The pods and the Slurm nodes that exist.
RealPods ==
    [at : {"Pending", "Unready", "Ready"}, term : BOOLEAN, cordon : BOOLEAN,
     deadline : Deadlines, old : BOOLEAN]
RealNodes == [base : Bases, drain : BOOLEAN, reason : OurReasons \cup {"none", "ext"}]

\* The types, and that the record of a Slurm node is never lost. An update is sent to
\* the node as slurmctld has it after a look at the cached one, so without the second
\* part the types are not kept.
TypeInv ==
    /\ TypeOK
    /\ snode \in [Ordinals -> RealNodes]
    /\ scache \in [Ordinals -> RealNodes]

-----------------------------------------------------------------------------
(* Why an update waits for the pods it has created.                         *)

\* The pods of the new revision that are not ready.
Waiting == {o \in NewPods(pod, PodsIn(pod)) : ~IsHealthy(pod[o])}

\* The pods that the cache does not show yet.
Missing == {o \in Ordinals : cache[o] = NoPod /\ pod[o] # NoPod}

\* q is what may have become of the pod p, read earlier.
Follows(p, q) ==
    /\ p.old = q.old
    /\ p.term => q.term
    /\ ~q.old /\ ~IsHealthy(q) => ~IsHealthy(p)

FollowsAll(pods) ==
    \A o \in Ordinals : pods[o] # NoPod /\ pod[o] # NoPod => Follows(pods[o], pod[o])

\* The NodeSet is not scaled.
SizeKept == replicas = MaxReplicas /\ (pc = "pods" => want = MaxReplicas)

\* A pod that the cache does not show is one whose creation is awaited.
AwaitsCreated ==
    Missing # {} =>
        /\ pc \in {"sync", "update"}
        /\ exp.adds >= Cardinality(Missing) /\ ~exp.expired

\* Up to the creation of pods, an ordinal that the list does not have is free.
SnapComplete ==
    pc \in {"pods", "scale"} =>
        \A o \in Ordinals : snap[o] = NoPod => cache[o] = NoPod /\ pod[o] = NoPod

\* What syncNodeSetPods plans: no deletion, and the creation of pods that are missing.
PlanAwaited ==
    pc = "scale" =>
        /\ plan.delete = {}
        /\ exp.adds >= Cardinality(plan.create) /\ ~exp.expired
        /\ \A o \in plan.create : snap[o] = NoPod

\* Nobody but the operator has set the reason of an old worker.
OldAreOurs ==
    \A o \in Ordinals :
        pod[o] # NoPod /\ pod[o].old => snode[o].reason # "ext" /\ scache[o].reason # "ext"

\* No worker of the old revision is draining, as the reconcile sees it.
Spared ==
    \A o \in Ordinals : pod[o] # NoPod /\ pod[o].old /\ ~pod[o].term => ~scache[o].drain

\* doPodProcessing leaves old workers draining only if maxUnavailable allows for more.
SparedOrFew ==
    /\ pc = "scale" => Spared
    /\ pc = "update" =>
        setting.strategy = "OnDelete" \/ Spared \/ Cardinality(Waiting) < MaxUnavailable

UpdateInv ==
    /\ SizeKept
    /\ AwaitsCreated
    /\ FollowsAll(cache)
    /\ pc # "sync" => FollowsAll(snap)
    /\ SnapComplete
    /\ PlanAwaited
    /\ OldAreOurs
    /\ SparedOrFew

WaitInv == OnlyUpdated => UpdateInv

-----------------------------------------------------------------------------
(* Facts about the operators.                                               *)

\* A pod that exists is a record that can be updated field by field.
LEMMA PodUpdates ==
    ASSUME NEW p \in Pods, p # NoPod
    PROVE  /\ p \in RealPods
           /\ \A d \in Deadlines : [p EXCEPT !.deadline = d] \in Pods
           /\ \A b \in BOOLEAN : [p EXCEPT !.cordon = b] \in Pods
           /\ [p EXCEPT !.term = TRUE] \in Pods
           /\ [p EXCEPT !.at = "Ready"] \in Pods
           /\ [p EXCEPT !.at = "Unready"] \in Pods
<1>1. p \in RealPods
  BY DEF Pods, RealPods
<1>2. RealPods \subseteq Pods
  BY DEF Pods, RealPods
<1>3. /\ \A d \in Deadlines : [p EXCEPT !.deadline = d] \in RealPods
      /\ \A b \in BOOLEAN : [p EXCEPT !.cordon = b] \in RealPods
  BY <1>1 DEF RealPods
<1>4. /\ [p EXCEPT !.term = TRUE] \in RealPods
      /\ [p EXCEPT !.at = "Ready"] \in RealPods
      /\ [p EXCEPT !.at = "Unready"] \in RealPods
  BY <1>1 DEF RealPods
<1> QED
  BY <1>1, <1>2, <1>3, <1>4

AnyPods ==
    [at : {"None", "Pending", "Unready", "Ready"}, term : BOOLEAN, cordon : BOOLEAN,
     deadline : Deadlines, old : BOOLEAN]

\* A pod created from the template, the pods of the old revision and of an empty list.
LEMMA NewPodIsPod ==
    /\ NewPod \in Pods /\ NewPod # NoPod
    /\ NewPod.at = "Pending" /\ NewPod.term = FALSE /\ NewPod.cordon = FALSE /\ NewPod.old = FALSE
    /\ NoPod \in Pods
    /\ [NoPod EXCEPT !.at = "Ready", !.old = TRUE] \in Pods
    /\ 0 \in Deadlines
<1>1. 0 \in Deadlines
  BY RollingAssumption DEF Deadlines
<1>2. NoPod \in AnyPods
  BY <1>1 DEF NoPod, AnyPods
<1>3. \A p \in AnyPods :
        /\ [p EXCEPT !.at = "Pending"] \in RealPods
        /\ [p EXCEPT !.at = "Pending"].at = "Pending"
        /\ [p EXCEPT !.at = "Pending"].term = p.term
        /\ [p EXCEPT !.at = "Pending"].cordon = p.cordon
        /\ [p EXCEPT !.at = "Pending"].old = p.old
  BY DEF AnyPods, RealPods
<1>4. \A p \in AnyPods : [p EXCEPT !.at = "Ready", !.old = TRUE] \in RealPods
  BY DEF AnyPods, RealPods
<1>5. NoPod.at = "None" /\ NoPod.term = FALSE /\ NoPod.cordon = FALSE /\ NoPod.old = FALSE
  BY DEF NoPod
<1>6. /\ NewPod \in RealPods /\ [NoPod EXCEPT !.at = "Ready", !.old = TRUE] \in RealPods
      /\ NewPod.at = "Pending" /\ NewPod.term = FALSE /\ NewPod.cordon = FALSE /\ NewPod.old = FALSE
  BY <1>2, <1>3, <1>4, <1>5 DEF NewPod
<1>7. RealPods \subseteq Pods /\ NoPod \in Pods
  BY DEF RealPods, Pods
<1> QED
  BY <1>1, <1>5, <1>6, <1>7

\* What the operator, slurmd and slurmctld make of a Slurm node is one again.
LEMMA NodeUpdates ==
    ASSUME NEW n \in RealNodes
    PROVE  /\ \A r \in OurReasons : Drained(n, r) \in RealNodes /\ Undrained(n, r) \in RealNodes
           /\ n # NoNode /\ n \in SlurmNodes
<1>1. \A r \in OurReasons : Drained(n, r) \in RealNodes /\ Undrained(n, r) \in RealNodes
  BY DEF RealNodes, Drained, Undrained
<1>2. n # NoNode
  BY DEF RealNodes, NoNode, Bases
<1>3. n \in SlurmNodes
  BY DEF RealNodes, SlurmNodes
<1> QED
  BY <1>1, <1>2, <1>3

\* Updating the Slurm nodes of some workers keeps all of them.
LEMMA UpdateNodesType ==
    ASSUME snode \in [Ordinals -> RealNodes], scache \in [Ordinals -> RealNodes],
           NEW S, NEW u, \A o \in Ordinals : u[o] \in RealNodes, UpdateNodes(S, u)
    PROVE  snode' \in [Ordinals -> RealNodes] /\ scache' \in [Ordinals -> RealNodes]
  BY DEF UpdateNodes

\* A set of ordinals is finite, and there are no more of them than replicas.
LEMMA OrdinalsFinite ==
    ASSUME NEW S \in SUBSET Ordinals
    PROVE  IsFiniteSet(S) /\ Cardinality(S) \in Nat /\ Cardinality(S) <= MaxReplicas
<1>1. IsFiniteSet(Ordinals) /\ Cardinality(Ordinals) = MaxReplicas
  BY FS_Interval, RollingAssumption DEF Ordinals
<1>2. IsFiniteSet(S) /\ Cardinality(S) <= Cardinality(Ordinals)
  BY <1>1, FS_Subset
<1> QED
  BY <1>1, <1>2, FS_CardinalityType

ExpType == [adds : Int, dels : Int, keys : SUBSET Ordinals, expired : BOOLEAN]

\* The operations on the expectations keep their type.
LEMMA ExpectationTypes ==
    /\ NoExpectations \in ExpType
    /\ \A K \in SUBSET Ordinals : ExpectDeletions(K) \in ExpType
    /\ \A e \in ExpType :
        /\ SetExpectations(e) \in ExpType
        /\ [e EXCEPT !.expired = TRUE] \in ExpType
        /\ \A n \in Nat : RaiseCreations(e, n) \in ExpType /\ LowerCreations(e, n) \in ExpType
        /\ \A o \in Ordinals : DeletionObserved(e, o) \in ExpType
<1>1. NoExpectations \in ExpType
  BY DEF NoExpectations, ExpType
<1>2. ASSUME NEW K \in SUBSET Ordinals
      PROVE  ExpectDeletions(K) \in ExpType
  BY OrdinalsFinite DEF ExpectDeletions, ExpType
<1>3. ASSUME NEW e \in ExpType
      PROVE  /\ SetExpectations(e) \in ExpType
             /\ [e EXCEPT !.expired = TRUE] \in ExpType
  <2>1. e.keys \in SUBSET Ordinals
    BY DEF ExpType
  <2>2. SetExpectations(e) \in ExpType
    BY <2>1 DEF SetExpectations, ExpType
  <2>3. [e EXCEPT !.expired = TRUE] \in ExpType
    BY DEF ExpType
  <2> QED
    BY <2>2, <2>3
<1>4. ASSUME NEW e \in ExpType, NEW n \in Nat
      PROVE  RaiseCreations(e, n) \in ExpType /\ LowerCreations(e, n) \in ExpType
  BY DEF RaiseCreations, LowerCreations, ExpType
<1>5. ASSUME NEW e \in ExpType, NEW o \in Ordinals
      PROVE  DeletionObserved(e, o) \in ExpType
  BY DEF DeletionObserved, ExpType
<1> QED
  BY <1>1, <1>2, <1>3, <1>4, <1>5

-----------------------------------------------------------------------------
(* The types.                                                               *)

LEMMA InitType == Init => TypeInv
<1> SUFFICES ASSUME Init PROVE TypeInv
  OBVIOUS
<1>1. pod \in [Ordinals -> Pods] /\ snap \in [Ordinals -> Pods] /\ until \in [Ordinals -> Deadlines]
  BY NewPodIsPod DEF Init, NoPods
<1>2. snode \in [Ordinals -> RealNodes]
  BY DEF Init, IdleNode, RealNodes, Bases
<1>3. snode \in [Ordinals -> SlurmNodes]
  BY <1>2, NodeUpdates
<1>4. exp \in ExpType
  BY ExpectationTypes DEF Init
<1> QED
  BY <1>1, <1>2, <1>3, <1>4, RollingAssumption DEF Init, TypeInv, TypeOK, NoPlan, ExpType

\* The nodes that exist are Slurm nodes, so that the types follow from the stronger ones.
LEMMA RealNodesTyped ==
    ASSUME NEW f \in [Ordinals -> RealNodes]
    PROVE  f \in [Ordinals -> SlurmNodes]
  BY NodeUpdates

\* syncPodUncordon patches only pods that both the server and the cache have.
LEMMA UncordonType ==
    ASSUME TypeInv, NEW K \in SUBSET Ordinals, NEW ok \in BOOLEAN, SyncPodUncordon(K, ok)
    PROVE  /\ pod' \in [Ordinals -> Pods] /\ snap' \in [Ordinals -> Pods]
           /\ snode' \in [Ordinals -> RealNodes] /\ scache' \in [Ordinals -> RealNodes]
<1> DEFINE ours == {o \in K : IsNodeReasonOurs(TRUE, scache[o])}
           missing == {o \in ours : snap[o].cordon /\ (pod[o] = NoPod \/ cache[o] = NoPod)}
<1>1. PICK K1 \in SUBSET (ours \ missing) :
        /\ pod' = [o \in Ordinals |-> IF o \in {q \in K1 : snap[q].cordon}
                                      THEN [pod[o] EXCEPT !.cordon = FALSE] ELSE pod[o]]
        /\ snap' = [o \in Ordinals |-> IF o \in {q \in K1 : snap[q].cordon}
                                       THEN cache[o] ELSE snap[o]]
        /\ UpdateNodes({o \in K1 : SendsUndrain(TRUE, scache[o])},
                       [o \in Ordinals |-> Undrained(snode[o], "uncordon")])
  BY DEF SyncPodUncordon
<1>2. /\ pod \in [Ordinals -> Pods] /\ cache \in [Ordinals -> Pods] /\ snap \in [Ordinals -> Pods]
      /\ snode \in [Ordinals -> RealNodes] /\ scache \in [Ordinals -> RealNodes]
  BY DEF TypeInv, TypeOK
<1>3. \A o \in {q \in K1 : snap[q].cordon} : pod[o] # NoPod
  OBVIOUS
<1>4. \A o \in Ordinals : pod[o] # NoPod => [pod[o] EXCEPT !.cordon = FALSE] \in Pods
  BY <1>2, PodUpdates
<1>5. pod' \in [Ordinals -> Pods]
  BY <1>1, <1>2, <1>3, <1>4
<1>6. snap' \in [Ordinals -> Pods]
  BY <1>1, <1>2
<1>7. \A o \in Ordinals : [q \in Ordinals |-> Undrained(snode[q], "uncordon")][o] \in RealNodes
  BY <1>2, NodeUpdates DEF OurReasons
<1> HIDE DEF ours, missing
<1>8. snode' \in [Ordinals -> RealNodes] /\ scache' \in [Ordinals -> RealNodes]
  BY <1>1, <1>2, <1>7, UpdateNodesType
<1> QED
  BY <1>5, <1>6, <1>8

\* processCondemned changes only pods that exist.
LEMMA CondemnedType ==
    ASSUME TypeInv, NEW D \in SUBSET Ordinals, NEW e \in ExpType, ProcessCondemned(D, e)
    PROVE  /\ pod' \in [Ordinals -> Pods] /\ exp' \in ExpType
           /\ snode' \in [Ordinals -> RealNodes] /\ scache' \in [Ordinals -> RealNodes]
<1> DEFINE live == {o \in D : cache[o] # NoPod /\ ~cache[o].term}
           delete == {o \in live : IsNodeDrained(TRUE, scache[o])}
           cordon == {o \in live \ delete : cache[o].cordon \/ pod[o] # NoPod}
           unseen == (D \ {o \in D : cache[o] # NoPod}) \cup (live \ delete)
<1>1. /\ pod' = [o \in Ordinals |->
                   IF o \in Found(delete) THEN [pod[o] EXCEPT !.term = TRUE]
                   ELSE IF o \in Found(cordon) THEN [pod[o] EXCEPT !.cordon = TRUE]
                   ELSE pod[o]]
      /\ UpdateNodes({o \in cordon : SendsDrain(TRUE, scache[o], "term")},
                     [o \in Ordinals |-> Drained(snode[o], "term")])
      /\ exp' = [adds |-> e.adds, dels |-> e.dels - Cardinality(unseen \cap e.keys),
                 keys |-> e.keys \ unseen, expired |-> e.expired]
  BY DEF ProcessCondemned
<1>2. unseen \in SUBSET Ordinals
  OBVIOUS
<1> HIDE DEF live, delete, cordon, unseen
<1>3. /\ pod \in [Ordinals -> Pods]
      /\ snode \in [Ordinals -> RealNodes] /\ scache \in [Ordinals -> RealNodes]
  BY DEF TypeInv, TypeOK
<1>4. \A o \in Ordinals : pod[o] # NoPod =>
        [pod[o] EXCEPT !.cordon = TRUE] \in Pods /\ [pod[o] EXCEPT !.term = TRUE] \in Pods
  BY <1>3, PodUpdates
<1>5. pod' \in [Ordinals -> Pods]
  BY <1>1, <1>3, <1>4 DEF Found
<1>6. \A o \in Ordinals : [q \in Ordinals |-> Drained(snode[q], "term")][o] \in RealNodes
  BY <1>3, NodeUpdates DEF OurReasons
<1>7. snode' \in [Ordinals -> RealNodes] /\ scache' \in [Ordinals -> RealNodes]
  BY <1>1, <1>3, <1>6, UpdateNodesType
<1>8. Cardinality(unseen \cap e.keys) \in Nat
  BY <1>2, OrdinalsFinite
<1>9. exp' \in ExpType
  BY <1>1, <1>2, <1>8 DEF ExpType
<1> QED
  BY <1>5, <1>7, <1>9

\* The split of an update deletes old pods that are listed and keeps pods that are.
LEMMA SplitWithin ==
    ASSUME NEW pods, NEW S \in SUBSET Ordinals, NEW byAge,
           NEW split \in splitUpdatePods(pods, S, byAge)
    PROVE  split.delete \subseteq OldPods(pods, S) /\ split.keep \in SUBSET Ordinals
<1>1. CASE setting.strategy = "OnDelete"
  BY <1>1 DEF splitUpdatePods
<1>2. CASE setting.strategy # "OnDelete"
  <2>1. PICK D \in SplitActivePods(pods, OldPods(pods, S), remainingUnavailable(pods, S), byAge) :
          split = [delete |-> D, keep |-> (NewPods(pods, S) \cup OldPods(pods, S)) \ D]
    BY <1>2 DEF splitUpdatePods
  <2>2. D \subseteq OldPods(pods, S)
    BY DEF SplitActivePods
  <2> QED
    BY <2>1, <2>2 DEF NewPods, OldPods
<1> QED
  BY <1>1, <1>2

LEMMA SyncType == ASSUME TypeInv, Sync PROVE TypeInv'
<1> DEFINE ours == {o \in PodsIn(cache) : cache[o].at # "Pending" /\ IsNodeReasonOurs(TRUE, snode[o])}
           drain == {o \in ours : cache[o].cordon /\ SendsDrain(TRUE, snode[o], "pod")}
           undrain == {o \in ours : ~cache[o].cordon /\ SendsUndrain(TRUE, snode[o])}
<1>1. /\ pod' = syncSlurmDeadline /\ scache' = snode'
      /\ snode' = [o \in Ordinals |->
                     IF o \in drain THEN Drained(snode[o], "pod")
                     ELSE IF o \in undrain THEN Undrained(snode[o], "uncordon")
                     ELSE snode[o]]
  BY DEF Sync
<1> HIDE DEF ours, drain, undrain
<1>2. \A o \in Ordinals :
        pod[o] \in Pods /\ snode[o] \in RealNodes /\ until[o] \in Deadlines
  BY DEF TypeInv, TypeOK
<1>3. \A o \in Ordinals : pod[o] # NoPod => [pod[o] EXCEPT !.deadline = until[o]] \in Pods
  BY <1>2, PodUpdates
<1>4. pod' \in [Ordinals -> Pods]
  BY <1>1, <1>2, <1>3 DEF syncSlurmDeadline, Found
<1>5. snode' \in [Ordinals -> RealNodes]
  BY <1>1, <1>2, NodeUpdates DEF OurReasons
<1>6. snode' \in [Ordinals -> SlurmNodes]
  BY <1>5, RealNodesTyped
<1> QED
  BY <1>1, <1>4, <1>5, <1>6 DEF TypeInv, TypeOK, Sync

LEMMA SyncNodeSetPodsType ==
    ASSUME TypeInv, NEW byAge \in BOOLEAN, SyncNodeSetPods(byAge)
    PROVE  TypeInv'
<1> DEFINE listed == PodsIn(snap)
           diff == Cardinality(listed) - want
           free == Ordinals \ listed
           create == {o \in free : Cardinality({q \in free : q < o}) < 0 - diff}
<1>1. listed \in SUBSET Ordinals /\ create \in SUBSET Ordinals
  BY DEF PodsIn
<1>2. exp \in ExpType
  BY DEF TypeInv, TypeOK, ExpType
<1>3. /\ pc' \in {"scale", "sync", "update"}
      /\ exp' \in ExpType
      /\ plan' \in [delete : SUBSET Ordinals, create : SUBSET Ordinals]
      /\ \E K \in SUBSET Ordinals, ok \in BOOLEAN : SyncPodUncordon(K, ok)
  <2>1. PICK ok \in BOOLEAN :
          \/ /\ exp' = RaiseCreations(ExpectDeletions({}), Cardinality(create))
             /\ plan' = [delete |-> {}, create |-> create]
             /\ SyncPodUncordon(listed, ok)
             /\ pc' = IF ok THEN "scale" ELSE "sync"
          \/ /\ \E D \in SplitActivePods(snap, listed, diff, byAge) :
                  /\ exp' = ExpectDeletions(D)
                  /\ plan' = [delete |-> D, create |-> {}]
                  /\ SyncPodUncordon(listed \ D, ok)
             /\ pc' = IF ok THEN "scale" ELSE "sync"
          \/ /\ exp' = SetExpectations(exp)
             /\ plan' = NoPlan
             /\ \E split \in splitUpdatePods(snap, listed, byAge) : SyncPodUncordon(split.keep, ok)
             /\ pc' = IF ok THEN "update" ELSE "sync"
    BY DEF SyncNodeSetPods
  <2> HIDE DEF listed, diff, create
  <2>2. CASE /\ exp' = RaiseCreations(ExpectDeletions({}), Cardinality(create))
             /\ plan' = [delete |-> {}, create |-> create]
             /\ SyncPodUncordon(listed, ok)
             /\ pc' = IF ok THEN "scale" ELSE "sync"
    <3>1. ExpectDeletions({}) \in ExpType /\ Cardinality(create) \in Nat
      BY <1>1, ExpectationTypes, OrdinalsFinite
    <3>2. exp' \in ExpType
      BY <2>2, <3>1, ExpectationTypes
    <3> QED
      BY <1>1, <2>2, <3>2
  <2>3. CASE /\ \E D \in SplitActivePods(snap, listed, diff, byAge) :
                  /\ exp' = ExpectDeletions(D)
                  /\ plan' = [delete |-> D, create |-> {}]
                  /\ SyncPodUncordon(listed \ D, ok)
             /\ pc' = IF ok THEN "scale" ELSE "sync"
    <3>1. PICK D \in SplitActivePods(snap, listed, diff, byAge) :
            /\ exp' = ExpectDeletions(D)
            /\ plan' = [delete |-> D, create |-> {}]
            /\ SyncPodUncordon(listed \ D, ok)
      BY <2>3
    <3>2. D \in SUBSET Ordinals /\ listed \ D \in SUBSET Ordinals
      BY <1>1 DEF SplitActivePods
    <3>3. exp' \in ExpType
      BY <3>1, <3>2, ExpectationTypes
    <3> QED
      BY <2>3, <3>1, <3>2, <3>3
  <2>4. CASE /\ exp' = SetExpectations(exp)
             /\ plan' = NoPlan
             /\ \E split \in splitUpdatePods(snap, listed, byAge) : SyncPodUncordon(split.keep, ok)
             /\ pc' = IF ok THEN "update" ELSE "sync"
    <3>1. PICK split \in splitUpdatePods(snap, listed, byAge) : SyncPodUncordon(split.keep, ok)
      BY <2>4
    <3>2. split.keep \in SUBSET Ordinals
      BY <1>1, SplitWithin
    <3>3. exp' \in ExpType
      BY <1>2, <2>4, ExpectationTypes
    <3> QED
      BY <2>4, <3>1, <3>2, <3>3 DEF NoPlan
  <2> QED
    BY <2>1, <2>2, <2>3, <2>4
<1>4. UNCHANGED <<setting, replicas, cache, until, want, budget>>
  BY DEF SyncNodeSetPods
<1> HIDE DEF listed, diff, free, create
<1>5. /\ pod' \in [Ordinals -> Pods] /\ snap' \in [Ordinals -> Pods]
      /\ snode' \in [Ordinals -> RealNodes] /\ scache' \in [Ordinals -> RealNodes]
  BY <1>3, UncordonType
<1>6. snode' \in [Ordinals -> SlurmNodes] /\ scache' \in [Ordinals -> SlurmNodes]
  BY <1>5, RealNodesTyped
<1> QED
  BY <1>3, <1>4, <1>5, <1>6 DEF TypeInv, TypeOK, ExpType

LEMMA DoPodScaleType == ASSUME TypeInv, DoPodScale PROVE TypeInv'
<1> DEFINE blocked == Found(plan.create)
           created == plan.create \ blocked
<1>1. /\ plan.create \in SUBSET Ordinals /\ plan.delete \in SUBSET Ordinals
      /\ pod \in [Ordinals -> Pods] /\ exp \in ExpType
      /\ snode \in [Ordinals -> RealNodes] /\ scache \in [Ordinals -> RealNodes]
  BY DEF TypeInv, TypeOK, ExpType
<1>2. /\ pod' \in [Ordinals -> Pods] /\ exp' \in ExpType
      /\ snode' \in [Ordinals -> RealNodes] /\ scache' \in [Ordinals -> RealNodes]
      /\ pc' \in {"update", "sync"}
  <2>1. CASE ProcessCondemned(plan.delete, exp) /\ pc' = "update"
    BY <1>1, <2>1, CondemnedType
  <2>2. CASE /\ pod' = [o \in Ordinals |-> IF o \in created THEN NewPod ELSE pod[o]]
             /\ exp' = LowerCreations(exp, Cardinality(blocked))
             /\ pc' = IF blocked = {} THEN "update" ELSE "sync"
             /\ UNCHANGED slurmVars
    <3>1. Cardinality(blocked) \in Nat
      BY <1>1, OrdinalsFinite DEF Found
    <3> HIDE DEF blocked, created
    <3>2. pod' \in [Ordinals -> Pods]
      BY <1>1, <2>2, NewPodIsPod
    <3>3. exp' \in ExpType
      BY <1>1, <2>2, <3>1, ExpectationTypes
    <3> QED
      BY <1>1, <2>2, <3>2, <3>3 DEF slurmVars
  <2> QED
    BY <2>1, <2>2 DEF DoPodScale
<1>3. snode' \in [Ordinals -> SlurmNodes] /\ scache' \in [Ordinals -> SlurmNodes]
  BY <1>2, RealNodesTyped
<1>4. /\ plan' \in [delete : SUBSET Ordinals, create : SUBSET Ordinals]
      /\ UNCHANGED <<setting, replicas, cache, until, want, snap, budget>>
  BY DEF DoPodScale, NoPlan
<1> QED
  BY <1>2, <1>3, <1>4 DEF TypeInv, TypeOK, ExpType

LEMMA SyncUpdateType == ASSUME TypeInv, SyncUpdate PROVE TypeInv'
<1> DEFINE old == OldPods(snap, Ordinals)
           unhealthy == SplitUnhealthyPods(snap, old)
<1>1. old \in SUBSET Ordinals /\ unhealthy \in SUBSET Ordinals
  BY DEF OldPods, SplitUnhealthyPods
<1>2. /\ pc' = "sync" /\ want' = 0 /\ snap' = NoPods
      /\ UNCHANGED <<setting, replicas, cache, until, plan, budget>>
      /\ \/ UNCHANGED <<pod, slurmVars, exp>>
         \/ \E split \in splitUpdatePods(snap, old \ unhealthy, TRUE) :
              ProcessCondemned(unhealthy \cup split.delete,
                  ExpectDeletions(IF split.delete = {} THEN unhealthy ELSE split.delete))
  BY DEF SyncUpdate
<1> HIDE DEF old, unhealthy
<1>3. /\ pod' \in [Ordinals -> Pods] /\ exp' \in ExpType
      /\ snode' \in [Ordinals -> RealNodes] /\ scache' \in [Ordinals -> RealNodes]
  <2>1. CASE UNCHANGED <<pod, slurmVars, exp>>
    BY <2>1 DEF TypeInv, TypeOK, ExpType, slurmVars
  <2>2. CASE \E split \in splitUpdatePods(snap, old \ unhealthy, TRUE) :
               ProcessCondemned(unhealthy \cup split.delete,
                   ExpectDeletions(IF split.delete = {} THEN unhealthy ELSE split.delete))
    <3>1. PICK split \in splitUpdatePods(snap, old \ unhealthy, TRUE) :
            ProcessCondemned(unhealthy \cup split.delete,
                ExpectDeletions(IF split.delete = {} THEN unhealthy ELSE split.delete))
      BY <2>2
    <3>2. split.delete \subseteq OldPods(snap, old \ unhealthy)
      BY <1>1, SplitWithin
    <3>3. split.delete \in SUBSET Ordinals
      BY <1>1, <3>2 DEF OldPods
    <3>4. ExpectDeletions(IF split.delete = {} THEN unhealthy ELSE split.delete) \in ExpType
      BY <1>1, <3>3, ExpectationTypes
    <3> QED
      BY <1>1, <3>1, <3>3, <3>4, CondemnedType
  <2> QED
    BY <1>2, <2>1, <2>2
<1>4. snode' \in [Ordinals -> SlurmNodes] /\ scache' \in [Ordinals -> SlurmNodes]
  BY <1>3, RealNodesTyped
<1>5. snap' \in [Ordinals -> Pods]
  BY <1>2, NewPodIsPod DEF NoPods
<1> QED
  BY <1>2, <1>3, <1>4, <1>5, RollingAssumption DEF TypeInv, TypeOK, ExpType

\* The informer, the kubelet, slurmd, slurmctld and the users.
LEMMA WorldType ==
    ASSUME TypeInv, NEW o \in Ordinals,
           \/ Deliver(o) \/ PodReady(o) \/ PodGone(o) \/ EndJob(o)
           \/ StartJob(o) \/ PodUnready(o) \/ UserDeletes(o)
    PROVE  TypeInv'
<1> USE DEF opVars, slurmVars
<1>1. /\ pod \in [Ordinals -> Pods] /\ cache \in [Ordinals -> Pods] /\ exp \in ExpType
      /\ snode \in [Ordinals -> RealNodes] /\ snode[o] \in RealNodes /\ pod[o] \in Pods
      /\ until \in [Ordinals -> Deadlines] /\ 0 \in Deadlines /\ NoPod \in Pods
  BY NewPodIsPod DEF TypeInv, TypeOK, ExpType
<1>2. CASE Deliver(o)
  <2>1. exp' \in ExpType
    BY <1>1, <1>2, ExpectationTypes DEF Deliver, HandlePodEvent
  <2>2. cache' \in [Ordinals -> Pods]
    BY <1>1, <1>2 DEF Deliver
  <2> QED
    BY <1>2, <2>1, <2>2 DEF Deliver, TypeInv, TypeOK, ExpType
<1>3. CASE PodReady(o)
  <2>1. pod[o] # NoPod
    BY <1>3 DEF PodReady, NoPod
  <2>2. pod' \in [Ordinals -> Pods]
    BY <1>1, <1>3, <2>1, PodUpdates DEF PodReady
  <2>3. snode' \in [Ordinals -> RealNodes]
    <3>1. PICK d \in {FALSE, snode[o].drain} :
            snode' = [snode EXCEPT ![o] =
                        [base |-> "IDLE", drain |-> d, reason |-> IF d THEN @.reason ELSE "none"]]
      BY <1>3 DEF PodReady
    <3>2. d \in BOOLEAN /\ snode[o].reason \in OurReasons \cup {"none", "ext"}
      BY <1>1 DEF RealNodes
    <3>3. [base |-> "IDLE", drain |-> d, reason |-> IF d THEN snode[o].reason ELSE "none"] \in RealNodes
      BY <3>2 DEF RealNodes, Bases
    <3> QED
      BY <1>1, <3>1, <3>3
  <2>4. snode' \in [Ordinals -> SlurmNodes]
    BY <2>3, RealNodesTyped
  <2> QED
    BY <1>3, <2>2, <2>3, <2>4 DEF PodReady, TypeInv, TypeOK
<1>4. CASE PodGone(o)
  <2>1. snode' \in [Ordinals -> RealNodes]
    <3>1. [base |-> "DOWN", drain |-> snode[o].drain, reason |-> "ext"] \in RealNodes
      BY <1>1 DEF RealNodes, Bases
    <3> QED
      BY <1>1, <1>4, <3>1 DEF PodGone
  <2>2. snode' \in [Ordinals -> SlurmNodes]
    BY <2>1, RealNodesTyped
  <2>3. pod' \in [Ordinals -> Pods] /\ until' \in [Ordinals -> Deadlines]
    BY <1>1, <1>4 DEF PodGone
  <2> QED
    BY <1>4, <2>1, <2>2, <2>3 DEF PodGone, TypeInv, TypeOK
<1>5. \A b \in Bases : [snode[o] EXCEPT !.base = b] \in RealNodes
  BY <1>1 DEF RealNodes
<1>6. CASE EndJob(o) \/ StartJob(o)
  <2>1. snode' \in [Ordinals -> RealNodes]
    BY <1>1, <1>5, <1>6 DEF EndJob, StartJob, Bases
  <2>2. snode' \in [Ordinals -> SlurmNodes]
    BY <2>1, RealNodesTyped
  <2>3. until' \in [Ordinals -> Deadlines]
    BY <1>1, <1>6 DEF EndJob, StartJob
  <2>4. budget' \in 0 .. MaxDisturb
    BY <1>6, RollingAssumption DEF EndJob, StartJob, Disturbs, TypeInv, TypeOK
  <2> QED
    BY <1>6, <2>1, <2>2, <2>3, <2>4 DEF EndJob, StartJob, TypeInv, TypeOK
<1>7. CASE PodUnready(o) \/ UserDeletes(o)
  <2>1. pod[o] # NoPod
    BY <1>7 DEF PodUnready, UserDeletes, NoPod
  <2>2. pod' \in [Ordinals -> Pods]
    BY <1>1, <1>7, <2>1, PodUpdates DEF PodUnready, UserDeletes
  <2>3. budget' \in 0 .. MaxDisturb
    BY <1>7, RollingAssumption DEF PodUnready, UserDeletes, Disturbs, TypeInv, TypeOK
  <2> QED
    BY <1>7, <2>2, <2>3 DEF PodUnready, UserDeletes, TypeInv, TypeOK
<1> QED
  BY <1>2, <1>3, <1>4, <1>6, <1>7

LEMMA TypeStep == TypeInv /\ [Next]_vars => TypeInv'
<1> SUFFICES ASSUME TypeInv, [Next]_vars PROVE TypeInv'
  OBVIOUS
<1>1. CASE Reconcile
  BY <1>1, SyncType, SyncNodeSetPodsType, DoPodScaleType, SyncUpdateType DEF Reconcile
<1>2. CASE Expire
  <2>1. exp' \in ExpType
    BY <1>2, ExpectationTypes DEF Expire, TypeInv, TypeOK, ExpType
  <2> QED
    BY <1>2, <2>1 DEF Expire, TypeInv, TypeOK, ExpType, opVars, slurmVars
<1>3. CASE UserScales
  <2>1. setting.least \in Nat
    BY RollingAssumption DEF TypeInv, TypeOK
  <2>2. replicas' \in 0 .. MaxReplicas /\ budget' \in 0 .. MaxDisturb
    BY <1>3, <2>1, RollingAssumption DEF UserScales, Disturbs, TypeInv, TypeOK
  <2> QED
    BY <1>3, <2>2 DEF UserScales, TypeInv, TypeOK, opVars, slurmVars
<1>4. CASE UNCHANGED vars
  BY <1>4 DEF vars, TypeInv, TypeOK, opVars, slurmVars
<1> QED
  BY <1>1, <1>2, <1>3, <1>4, WorldType DEF Next

\* Every variable keeps its type: no update is made to a pod or to a Slurm node that is
\* gone, though the reconciler acts on lists that may be out of date.
THEOREM RollingTypeCorrect == Spec => []TypeOK
<1>1. Spec => []TypeInv
  BY InitType, TypeStep, PTL DEF Spec
<1>2. TypeInv => TypeOK
  BY DEF TypeInv
<1> QED
  BY <1>1, <1>2, PTL

-----------------------------------------------------------------------------
(* OnDelete.                                                                *)

\* Under the OnDelete strategy syncUpdate writes to no pod.
THEOREM OnDeleteWaits == Spec => OnDeleteWaitsForUsers
<1>1. [Next]_vars => [setting.strategy = "OnDelete" => ~TakesDown]_vars
  <2> SUFFICES ASSUME setting.strategy = "OnDelete", SyncUpdate,
                      NEW o \in Ordinals, Deletes(o) \/ (pod'[o].cordon /\ ~pod[o].cordon)
               PROVE  FALSE
    BY DEF TakesDown
  <2>1. pod' = pod
    BY DEF SyncUpdate
  <2> QED
    BY <2>1 DEF Deletes
<1> QED
  BY <1>1, PTL DEF Spec, OnDeleteWaitsForUsers

-----------------------------------------------------------------------------
(* The update waits: what the steps do to the pods.                         *)

\* The step creates no pod.
Ages == \A o \in Ordinals : pod'[o] # NoPod => pod[o] # NoPod /\ Follows(pod[o], pod'[o])

\* What becomes of a pod follows what it was.
LEMMA PodChanges ==
    ASSUME NEW p \in Pods, p # NoPod
    PROVE  /\ Follows(p, p)
           /\ \A d \in Deadlines : Follows(p, [p EXCEPT !.deadline = d])
           /\ \A b \in BOOLEAN : Follows(p, [p EXCEPT !.cordon = b])
           /\ Follows(p, [p EXCEPT !.term = TRUE])
           /\ Follows(p, [p EXCEPT !.at = "Ready"])
           /\ p.old => Follows(p, [p EXCEPT !.at = "Unready"])
<1>1. p \in RealPods
  BY PodUpdates
<1> QED
  BY <1>1 DEF RealPods, Follows, IsHealthy

LEMMA FollowsTransitive ==
    ASSUME NEW p, NEW q, NEW r, Follows(p, q), Follows(q, r)
    PROVE  Follows(p, r)
  BY DEF Follows

\* The flags of a pod, as truth values.
LEMMA PodFlags ==
    ASSUME TypeInv, NEW o \in Ordinals
    PROVE  /\ pod[o].term \in BOOLEAN /\ pod[o].old \in BOOLEAN /\ pod[o].cordon \in BOOLEAN
           /\ snap[o].term \in BOOLEAN /\ snap[o].old \in BOOLEAN /\ snap[o].cordon \in BOOLEAN
           /\ cache[o].term \in BOOLEAN /\ cache[o].old \in BOOLEAN /\ cache[o].cordon \in BOOLEAN
<1>1. \A p \in Pods : p.term \in BOOLEAN /\ p.old \in BOOLEAN /\ p.cordon \in BOOLEAN
  <2>1. NoPod.term \in BOOLEAN /\ NoPod.old \in BOOLEAN /\ NoPod.cordon \in BOOLEAN
    BY DEF NoPod
  <2>2. \A p \in RealPods : p.term \in BOOLEAN /\ p.old \in BOOLEAN /\ p.cordon \in BOOLEAN
    BY DEF RealPods
  <2> QED
    BY <2>1, <2>2, PodUpdates
<1>2. pod[o] \in Pods /\ snap[o] \in Pods /\ cache[o] \in Pods
  BY DEF TypeInv, TypeOK
<1> QED
  BY <1>1, <1>2

\* A step that creates no pod leaves no more new pods to wait for, and what was read
\* before it still is what the pods come from.
LEMMA AgesKeep ==
    ASSUME TypeInv, TypeInv', Ages
    PROVE  /\ Waiting' \subseteq Waiting
           /\ cache' = cache => Missing' \subseteq Missing
           /\ scache' = scache /\ Spared => Spared'
           /\ cache' = cache /\ FollowsAll(cache) => FollowsAll(cache)'
           /\ snap' = snap /\ FollowsAll(snap) => FollowsAll(snap)'
<1>1. \A o \in Ordinals : pod'[o] # NoPod =>
        /\ pod[o] # NoPod
        /\ pod[o].old = pod'[o].old
        /\ pod[o].term => pod'[o].term
        /\ ~pod'[o].old /\ ~IsHealthy(pod'[o]) => ~IsHealthy(pod[o])
  BY DEF Ages, Follows
<1>2. Waiting' \subseteq Waiting
  BY <1>1 DEF Waiting, NewPods, PodsIn, IsHealthy
<1>3. cache' = cache => Missing' \subseteq Missing
  BY <1>1 DEF Missing
<1>4. scache' = scache /\ Spared => Spared'
  BY <1>1 DEF Spared
<1>5. cache' = cache /\ FollowsAll(cache) => FollowsAll(cache)'
  BY FollowsTransitive DEF Ages, FollowsAll
<1>6. snap' = snap /\ FollowsAll(snap) => FollowsAll(snap)'
  BY FollowsTransitive DEF Ages, FollowsAll
<1> QED
  BY <1>2, <1>3, <1>4, <1>5, <1>6

\* No step but the creation of pods creates any.
LEMMA UnchangedAges == ASSUME TypeInv, pod' = pod PROVE Ages
<1>1. \A o \in Ordinals : pod[o] \in Pods
  BY DEF TypeInv, TypeOK
<1> QED
  BY <1>1, PodChanges DEF Ages

LEMMA DeadlineAges == ASSUME TypeInv, pod' = syncSlurmDeadline PROVE Ages
<1>1. \A o \in Ordinals : pod[o] \in Pods /\ until[o] \in Deadlines
  BY DEF TypeInv, TypeOK
<1>2. \A o \in Ordinals :
        \/ pod'[o] = pod[o]
        \/ pod[o] # NoPod /\ pod'[o] = [pod[o] EXCEPT !.deadline = until[o]]
  BY DEF syncSlurmDeadline, Found
<1>3. \A o \in Ordinals : pod[o] # NoPod =>
        Follows(pod[o], pod[o]) /\ Follows(pod[o], [pod[o] EXCEPT !.deadline = until[o]])
  BY <1>1, PodChanges
<1> QED
  BY <1>2, <1>3 DEF Ages

LEMMA UncordonAges ==
    ASSUME TypeInv, NEW K \in SUBSET Ordinals, NEW ok \in BOOLEAN, SyncPodUncordon(K, ok)
    PROVE  Ages
<1>1. \A o \in Ordinals : pod[o] \in Pods
  BY DEF TypeInv, TypeOK
<1>2. \A o \in Ordinals :
        \/ pod'[o] = pod[o]
        \/ pod[o] # NoPod /\ pod'[o] = [pod[o] EXCEPT !.cordon = FALSE]
  BY DEF SyncPodUncordon
<1> QED
  BY <1>1, <1>2, PodChanges DEF Ages

LEMMA CondemnedAges ==
    ASSUME TypeInv, NEW D \in SUBSET Ordinals, NEW e, ProcessCondemned(D, e)
    PROVE  Ages
<1>1. \A o \in Ordinals : pod[o] \in Pods
  BY DEF TypeInv, TypeOK
<1>2. \A o \in Ordinals :
        \/ pod'[o] = pod[o]
        \/ pod[o] # NoPod /\ pod'[o] = [pod[o] EXCEPT !.cordon = TRUE]
        \/ pod[o] # NoPod /\ pod'[o] = [pod[o] EXCEPT !.term = TRUE]
  BY DEF ProcessCondemned, Found
<1> QED
  BY <1>1, <1>2, PodChanges DEF Ages

LEMMA SyncUpdateAges == ASSUME TypeInv, SyncUpdate PROVE Ages
<1> DEFINE old == OldPods(snap, Ordinals)
           unhealthy == SplitUnhealthyPods(snap, old)
<1>1. old \in SUBSET Ordinals /\ unhealthy \in SUBSET Ordinals
  BY DEF OldPods, SplitUnhealthyPods
<1>2. \/ pod' = pod
      \/ \E split \in splitUpdatePods(snap, old \ unhealthy, TRUE) :
           ProcessCondemned(unhealthy \cup split.delete,
               ExpectDeletions(IF split.delete = {} THEN unhealthy ELSE split.delete))
  BY DEF SyncUpdate
<1> HIDE DEF old, unhealthy
<1>3. ASSUME NEW split \in splitUpdatePods(snap, old \ unhealthy, TRUE)
      PROVE  unhealthy \cup split.delete \in SUBSET Ordinals
  <2>1. split.delete \subseteq OldPods(snap, old \ unhealthy)
    BY <1>1, SplitWithin
  <2> QED
    BY <1>1, <2>1 DEF OldPods
<1> QED
  BY <1>2, <1>3, CondemnedAges, UnchangedAges

LEMMA WorldAges ==
    ASSUME TypeInv, OnlyUpdated, NEW o \in Ordinals,
           \/ Deliver(o) \/ PodReady(o) \/ PodGone(o) \/ EndJob(o)
           \/ StartJob(o) \/ PodUnready(o) \/ UserDeletes(o)
    PROVE  Ages
<1>1. pod \in [Ordinals -> Pods] /\ \A q \in Ordinals : pod[q] \in Pods
  BY DEF TypeInv, TypeOK
<1>2. CASE Deliver(o) \/ EndJob(o) \/ StartJob(o)
  BY <1>2, UnchangedAges DEF Deliver, EndJob, StartJob
<1>3. CASE PodReady(o)
  <2>1. pod[o] # NoPod /\ pod' = [pod EXCEPT ![o] = [pod[o] EXCEPT !.at = "Ready"]]
    BY <1>3 DEF PodReady, NoPod
  <2> QED
    BY <1>1, <2>1, PodChanges DEF Ages
<1>4. CASE PodGone(o)
  BY <1>1, <1>4, PodChanges DEF Ages, PodGone
<1>5. CASE PodUnready(o)
  <2>1. /\ pod[o] # NoPod /\ pod[o].old
        /\ pod' = [pod EXCEPT ![o] = [pod[o] EXCEPT !.at = "Unready"]]
    BY <1>5 DEF PodUnready, NoPod
  <2> QED
    BY <1>1, <2>1, PodChanges DEF Ages
<1>6. CASE UserDeletes(o)
  BY <1>6 DEF UserDeletes, Disturbs, OnlyUpdated
<1> QED
  BY <1>2, <1>3, <1>4, <1>5, <1>6

-----------------------------------------------------------------------------
(* The update waits: the invariant.                                         *)

\* When the expectations are satisfied, the cache shows every pod.
LEMMA SatisfiedSeesAll ==
    ASSUME TypeInv, AwaitsCreated, SatisfiedExpectations(exp)
    PROVE  Missing = {}
<1> SUFFICES ASSUME Missing # {} PROVE FALSE
  OBVIOUS
<1>1. IsFiniteSet(Missing) /\ Cardinality(Missing) \in Nat
  BY OrdinalsFinite DEF Missing
<1>2. Cardinality(Missing) # 0
  BY <1>1, FS_EmptySet
<1>3. exp.adds \in Int /\ exp.adds >= Cardinality(Missing) /\ ~exp.expired
  BY DEF AwaitsCreated, TypeInv, TypeOK
<1>4. exp.adds <= 0
  BY <1>3 DEF SatisfiedExpectations, Fulfilled
<1> QED
  BY <1>1, <1>2, <1>3, <1>4

\* Fewer pods to be seen, with the same expectations, are awaited still.
LEMMA AwaitsKept ==
    ASSUME TypeInv, AwaitsCreated, Missing' \subseteq Missing,
           pc' = pc \/ pc' \in {"sync", "update"},
           exp'.adds = exp.adds, exp'.expired = exp.expired
    PROVE  AwaitsCreated'
<1> SUFFICES ASSUME Missing' # {}
             PROVE  /\ pc' \in {"sync", "update"}
                    /\ exp'.adds >= Cardinality(Missing') /\ ~exp'.expired
  BY DEF AwaitsCreated
<1>1. /\ pc \in {"sync", "update"}
      /\ exp.adds >= Cardinality(Missing) /\ ~exp.expired
  BY DEF AwaitsCreated
<1>2. Missing \in SUBSET Ordinals
  BY DEF Missing
<1>3. IsFiniteSet(Missing) /\ Cardinality(Missing) \in Nat /\ Cardinality(Missing') \in Nat
  BY <1>2, OrdinalsFinite
<1>4. Cardinality(Missing') <= Cardinality(Missing)
  BY <1>3, FS_Subset
<1>5. exp.adds \in Int
  BY DEF TypeInv, TypeOK
<1>6. exp'.adds >= Cardinality(Missing')
  BY <1>1, <1>3, <1>4, <1>5
<1> QED
  BY <1>1, <1>6

\* Fewer pods to wait for leave room for the update.
LEMMA FewKept ==
    ASSUME Waiting' \subseteq Waiting, Cardinality(Waiting) < MaxUnavailable
    PROVE  Cardinality(Waiting') < MaxUnavailable
<1>1. Waiting \in SUBSET Ordinals
  BY DEF Waiting, NewPods, PodsIn
<1>2. IsFiniteSet(Waiting) /\ Cardinality(Waiting) \in Nat /\ Cardinality(Waiting') \in Nat
  BY <1>1, OrdinalsFinite
<1>3. Cardinality(Waiting') <= Cardinality(Waiting)
  BY <1>2, FS_Subset
<1> QED
  BY <1>2, <1>3, RollingAssumption

\* The operator's own updates do not make a reason somebody else's.
LEMMA OldStayOurs ==
    ASSUME TypeInv, Ages, OldAreOurs,
           \A o \in Ordinals :
             pod'[o] # NoPod /\ snode[o].reason # "ext" /\ scache[o].reason # "ext" =>
               snode'[o].reason # "ext" /\ scache'[o].reason # "ext"
    PROVE  OldAreOurs'
  BY DEF OldAreOurs, Ages, Follows

LEMMA InitWaits == Init => UpdateInv
<1> SUFFICES ASSUME Init PROVE UpdateInv
  OBVIOUS
<1>1. TypeInv
  BY InitType
<1>2. Missing = {}
  BY DEF Init, Missing
<1>3. \A o \in Ordinals : pod[o] \in Pods
  BY <1>1 DEF TypeInv, TypeOK
<1>4. FollowsAll(cache)
  BY <1>3, PodChanges DEF Init, FollowsAll
<1>5. OldAreOurs
  BY DEF Init, OldAreOurs, IdleNode
<1> QED
  BY <1>2, <1>4, <1>5
     DEF Init, UpdateInv, SizeKept, AwaitsCreated, SnapComplete, PlanAwaited, SparedOrFew

LEMMA SyncWaits == ASSUME TypeInv, TypeInv', UpdateInv, Sync PROVE UpdateInv'
<1> DEFINE ours == {o \in PodsIn(cache) : cache[o].at # "Pending" /\ IsNodeReasonOurs(TRUE, snode[o])}
           drain == {o \in ours : cache[o].cordon /\ SendsDrain(TRUE, snode[o], "pod")}
           undrain == {o \in ours : ~cache[o].cordon /\ SendsUndrain(TRUE, snode[o])}
<1>1. /\ pc' = "pods" /\ want' = replicas /\ snap' = cache
      /\ pod' = syncSlurmDeadline /\ scache' = snode'
      /\ snode' = [o \in Ordinals |->
                     IF o \in drain THEN Drained(snode[o], "pod")
                     ELSE IF o \in undrain THEN Undrained(snode[o], "uncordon")
                     ELSE snode[o]]
      /\ UNCHANGED <<setting, replicas, cache, exp>>
      /\ SatisfiedExpectations(exp)
  BY DEF Sync
<1> HIDE DEF ours, drain, undrain
<1>2. Ages
  BY <1>1, DeadlineAges
<1>3. Missing = {}
  BY <1>1, SatisfiedSeesAll DEF UpdateInv
<1>4. Missing' = {}
  BY <1>1, <1>2, <1>3, AgesKeep
<1>5. FollowsAll(cache)'
  BY <1>1, <1>2, AgesKeep DEF UpdateInv
<1>6. FollowsAll(snap)'
  BY <1>1, <1>5 DEF FollowsAll
<1>7. SnapComplete'
  BY <1>1, <1>4 DEF SnapComplete, Missing
<1>8. OldAreOurs'
  <2>1. \A o \in Ordinals : snode[o] \in RealNodes
    BY DEF TypeInv
  <2>2. \A n \in RealNodes : Drained(n, "pod").reason = "pod" /\ Undrained(n, "uncordon").reason = "uncordon"
    BY DEF RealNodes, Drained, Undrained
  <2>3. \A o \in Ordinals : snode'[o].reason \in {"pod", "uncordon", snode[o].reason}
    BY <1>1, <2>1, <2>2
  <2> QED
    BY <1>1, <1>2, <2>3, OldStayOurs DEF UpdateInv
<1> QED
  BY <1>1, <1>4, <1>5, <1>6, <1>7, <1>8
     DEF UpdateInv, SizeKept, AwaitsCreated, PlanAwaited, SparedOrFew

\* What syncPodUncordon leaves of the list and of the Slurm nodes: it reads some listed
\* pods again, and if it gets through, none of the workers it was given drains any more.
LEMMA UncordonFacts ==
    ASSUME TypeInv, NEW K \in SUBSET Ordinals, NEW ok \in BOOLEAN, SyncPodUncordon(K, ok)
    PROVE  /\ \A o \in Ordinals :
                \/ snap'[o] = snap[o]
                \/ snap'[o] = cache[o] /\ cache[o] # NoPod /\ snap[o] # NoPod
           /\ \A o \in Ordinals : snode'[o].reason \in {"uncordon", snode[o].reason}
           /\ \A o \in Ordinals : scache'[o].reason \in {"uncordon", scache[o].reason}
           /\ ok => \A o \in K : scache[o].reason # "ext" => ~scache'[o].drain
<1> DEFINE ours == {o \in K : IsNodeReasonOurs(TRUE, scache[o])}
           missing == {o \in ours : snap[o].cordon /\ (pod[o] = NoPod \/ cache[o] = NoPod)}
<1>1. PICK K1 \in SUBSET (ours \ missing) :
        /\ ok => K1 = ours
        /\ snap' = [o \in Ordinals |-> IF o \in {q \in K1 : snap[q].cordon}
                                       THEN cache[o] ELSE snap[o]]
        /\ UpdateNodes({o \in K1 : SendsUndrain(TRUE, scache[o])},
                       [o \in Ordinals |-> Undrained(snode[o], "uncordon")])
  BY DEF SyncPodUncordon
<1>2. \A o \in Ordinals : snode[o] \in RealNodes /\ scache[o] \in RealNodes
  BY DEF TypeInv
<1>3. \A n \in RealNodes :
        Undrained(n, "uncordon").reason = "uncordon" /\ Undrained(n, "uncordon").drain = FALSE
  BY DEF RealNodes, Undrained
<1>4. \A o \in K1 : snap[o].cordon => cache[o] # NoPod /\ snap[o] # NoPod
  <2>1. ~NoPod.cordon
    BY DEF NoPod
  <2> QED
    BY <2>1
<1>5. \A o \in Ordinals :
        \/ snap'[o] = snap[o]
        \/ snap'[o] = cache[o] /\ cache[o] # NoPod /\ snap[o] # NoPod
  BY <1>1, <1>4
<1>6. \A o \in Ordinals :
        /\ snode'[o] = IF o \in K1 /\ SendsUndrain(TRUE, scache[o])
                       THEN Undrained(snode[o], "uncordon") ELSE snode[o]
        /\ scache'[o] = IF o \in K1 /\ SendsUndrain(TRUE, scache[o])
                        THEN Undrained(snode[o], "uncordon") ELSE scache[o]
  BY <1>1 DEF UpdateNodes
<1>7. /\ \A o \in Ordinals : snode'[o].reason \in {"uncordon", snode[o].reason}
      /\ \A o \in Ordinals : scache'[o].reason \in {"uncordon", scache[o].reason}
  BY <1>2, <1>3, <1>6
<1>8. ASSUME ok, NEW o \in K, scache[o].reason # "ext"
      PROVE  ~scache'[o].drain
  <2>1. o \in K1
    BY <1>1, <1>8 DEF IsNodeReasonOurs
  <2>2. CASE SendsUndrain(TRUE, scache[o])
    BY <1>2, <1>3, <1>6, <2>1, <2>2
  <2>3. CASE ~SendsUndrain(TRUE, scache[o])
    <3>1. scache'[o] = scache[o] /\ scache[o] # NoNode
      BY <1>2, <1>6, <2>3, NodeUpdates
    <3> QED
      BY <2>3, <3>1 DEF SendsUndrain, Unknown
  <2> QED
    BY <2>2, <2>3
<1> QED
  BY <1>5, <1>7, <1>8

\* An update that may take no pod down takes none: splitUpdatePods keeps every pod of
\* the old revision that is listed once maxUnavailable new ones are not ready.
LEMMA KeepsAllOrFew ==
    ASSUME TypeInv, FollowsAll(snap), SnapComplete, pc = "pods",
           setting.strategy # "OnDelete", NEW byAge,
           NEW split \in splitUpdatePods(snap, PodsIn(snap), byAge)
    PROVE  \/ Cardinality(Waiting) < MaxUnavailable
           \/ \A o \in Ordinals : pod[o] # NoPod /\ pod[o].old /\ ~pod[o].term => o \in split.keep
<1> DEFINE listed == PodsIn(snap)
           waits == {o \in NewPods(snap, listed) : ~IsHealthy(snap[o])}
           room == remainingUnavailable(snap, listed)
<1>1. \A o \in Ordinals : pod[o] # NoPod =>
        /\ o \in listed
        /\ snap[o].old = pod[o].old
        /\ snap[o].term => pod[o].term
        /\ ~pod[o].old /\ ~IsHealthy(pod[o]) => ~IsHealthy(snap[o])
  BY DEF FollowsAll, Follows, SnapComplete, PodsIn
<1>2. Waiting \subseteq waits
  BY <1>1 DEF Waiting, NewPods, PodsIn
<1>3. waits \in SUBSET Ordinals /\ Waiting \in SUBSET Ordinals
  BY DEF Waiting, NewPods, PodsIn
<1>4. Cardinality(waits) \in Nat /\ Cardinality(Waiting) \in Nat
  BY <1>3, OrdinalsFinite
<1>5. Cardinality(Waiting) <= Cardinality(waits)
  <2>1. IsFiniteSet(waits)
    BY <1>3, OrdinalsFinite
  <2> QED
    BY <1>2, <2>1, FS_Subset
<1>6. room = IF MaxUnavailable - Cardinality(waits) < 0 THEN 0
             ELSE MaxUnavailable - Cardinality(waits)
  BY DEF remainingUnavailable
<1>7. PICK D \in SplitActivePods(snap, OldPods(snap, listed), room, byAge) :
        split = [delete |-> D, keep |-> (NewPods(snap, listed) \cup OldPods(snap, listed)) \ D]
  BY DEF splitUpdatePods
<1> HIDE DEF waits, room
<1>8. CASE room = 0
  <2>1. D \subseteq OldPods(snap, listed)
    BY DEF SplitActivePods
  <2>2. OldPods(snap, listed) \in SUBSET Ordinals /\ D \in SUBSET Ordinals
    BY <2>1 DEF OldPods, PodsIn
  <2>3. Cardinality(OldPods(snap, listed)) \in Nat /\ IsFiniteSet(D)
    BY <2>2, OrdinalsFinite
  <2>4. Cardinality(D) = 0
    BY <1>8, <2>3 DEF SplitActivePods
  <2>5. D = {}
    BY <2>3, <2>4, FS_EmptySet
  <2>6. \A o \in Ordinals : pod[o] # NoPod /\ pod[o].old /\ ~pod[o].term =>
          o \in OldPods(snap, listed)
    BY <1>1 DEF OldPods
  <2> QED
    BY <1>7, <2>5, <2>6
<1>9. CASE room # 0
  BY <1>4, <1>5, <1>6, <1>9, RollingAssumption
<1> QED
  BY <1>8, <1>9

LEMMA SyncNodeSetPodsWaits ==
    ASSUME TypeInv, TypeInv', UpdateInv, NEW byAge \in BOOLEAN, SyncNodeSetPods(byAge)
    PROVE  UpdateInv'
<1> DEFINE listed == PodsIn(snap)
           diff == Cardinality(listed) - want
           free == Ordinals \ listed
           create == {o \in free : Cardinality({q \in free : q < o}) < 0 - diff}
<1>1. listed \in SUBSET Ordinals /\ create \in SUBSET Ordinals
  BY DEF PodsIn
<1>2. ~(diff > 0)
  <2>1. Cardinality(listed) \in Nat /\ Cardinality(listed) <= MaxReplicas
    BY <1>1, OrdinalsFinite
  <2>2. want = MaxReplicas
    BY DEF SyncNodeSetPods, UpdateInv, SizeKept
  <2> QED
    BY <2>1, <2>2, RollingAssumption
<1>3. PICK ok \in BOOLEAN :
        \/ /\ exp' = RaiseCreations(ExpectDeletions({}), Cardinality(create))
           /\ plan' = [delete |-> {}, create |-> create]
           /\ SyncPodUncordon(listed, ok)
           /\ pc' = IF ok THEN "scale" ELSE "sync"
        \/ /\ \E split \in splitUpdatePods(snap, listed, byAge) : SyncPodUncordon(split.keep, ok)
           /\ pc' = IF ok THEN "update" ELSE "sync"
  BY <1>2 DEF SyncNodeSetPods
<1>4. pc = "pods" /\ UNCHANGED <<setting, replicas, cache, want>>
  BY DEF SyncNodeSetPods
<1>5. \A o \in create : snap[o] = NoPod
  BY DEF PodsIn
<1> HIDE DEF listed, diff, free, create
<1>6. PICK K \in SUBSET Ordinals : SyncPodUncordon(K, ok)
  BY <1>1, <1>3, SplitWithin
<1>7. Ages
  BY <1>6, UncordonAges
<1>8. \A o \in Ordinals :
        \/ snap'[o] = snap[o]
        \/ snap'[o] = cache[o] /\ cache[o] # NoPod /\ snap[o] # NoPod
  BY <1>6, UncordonFacts
<1>9. Missing' = {}
  <2>1. Missing = {}
    BY <1>4 DEF UpdateInv, AwaitsCreated
  <2> QED
    BY <1>4, <1>7, <2>1, AgesKeep
<1>10. FollowsAll(cache)'
  BY <1>4, <1>7, AgesKeep DEF UpdateInv
<1>11. FollowsAll(snap)'
  <2> SUFFICES ASSUME NEW o \in Ordinals, snap'[o] # NoPod, pod'[o] # NoPod
               PROVE  Follows(snap'[o], pod'[o])
    BY DEF FollowsAll
  <2>1. pod[o] # NoPod /\ Follows(pod[o], pod'[o])
    BY <1>7 DEF Ages
  <2>2. Follows(snap'[o], pod[o])
    BY <1>4, <1>8, <2>1 DEF UpdateInv, FollowsAll
  <2> QED
    BY <2>1, <2>2, FollowsTransitive
<1>12. SnapComplete'
  BY <1>4, <1>7, <1>8 DEF UpdateInv, SnapComplete, Ages
<1>13. OldAreOurs'
  BY <1>6, <1>7, UncordonFacts, OldStayOurs DEF UpdateInv
<1>14. PlanAwaited'
  <2> SUFFICES ASSUME pc' = "scale"
               PROVE  /\ plan'.delete = {}
                      /\ exp'.adds >= Cardinality(plan'.create) /\ ~exp'.expired
                      /\ \A o \in plan'.create : snap'[o] = NoPod
    BY DEF PlanAwaited
  <2>1. /\ exp' = RaiseCreations(ExpectDeletions({}), Cardinality(create))
        /\ plan' = [delete |-> {}, create |-> create]
    BY <1>3
  <2>2. plan'.delete = {} /\ plan'.create = create
    BY <2>1
  <2>3. Cardinality(create) \in Nat
    BY <1>1, OrdinalsFinite
  <2>4. ExpectDeletions({}) \in ExpType /\ ExpectDeletions({}).adds = 0 /\ ~ExpectDeletions({}).expired
    BY ExpectationTypes DEF ExpectDeletions
  <2>5. \A e \in ExpType : \A n \in Nat :
          RaiseCreations(e, n).adds = e.adds + n /\ RaiseCreations(e, n).expired = e.expired
    BY DEF RaiseCreations, ExpType
  <2>6. exp'.adds = 0 + Cardinality(create) /\ ~exp'.expired
    BY <2>1, <2>3, <2>4, <2>5
  <2>7. exp'.adds >= Cardinality(create)
    BY <2>3, <2>6
  <2> QED
    BY <1>1, <1>5, <1>8, <2>2, <2>6, <2>7
<1>15. ASSUME NEW S \in SUBSET Ordinals, ok, SyncPodUncordon(S, ok),
              \A o \in Ordinals : pod[o] # NoPod /\ pod[o].old /\ ~pod[o].term => o \in S
       PROVE  Spared'
  <2> SUFFICES ASSUME NEW o \in Ordinals, pod'[o] # NoPod, pod'[o].old, ~pod'[o].term
               PROVE  ~scache'[o].drain
    BY DEF Spared
  <2>1. pod[o] # NoPod /\ pod[o].old /\ ~pod[o].term
    BY <1>7 DEF Ages, Follows
  <2>2. o \in S /\ scache[o].reason # "ext"
    BY <1>15, <2>1 DEF UpdateInv, OldAreOurs
  <2> QED
    BY <1>15, <2>2, UncordonFacts
<1>16. SparedOrFew'
  <2>1. CASE pc' = "scale"
    <3>1. ok /\ SyncPodUncordon(listed, ok)
      BY <1>3, <2>1
    <3>2. \A o \in Ordinals : pod[o] # NoPod => o \in listed
      BY <1>4 DEF UpdateInv, SnapComplete, PodsIn, listed
    <3>3. Spared'
      BY <1>1, <1>15, <3>1, <3>2
    <3> QED
      BY <2>1, <3>3 DEF SparedOrFew
  <2>2. CASE pc' = "update" /\ setting.strategy # "OnDelete"
    <3>1. ok /\ \E split \in splitUpdatePods(snap, listed, byAge) : SyncPodUncordon(split.keep, ok)
      BY <1>3, <2>2
    <3>2. PICK split \in splitUpdatePods(snap, listed, byAge) : SyncPodUncordon(split.keep, ok)
      BY <3>1
    <3>3. split.keep \in SUBSET Ordinals
      BY <1>1, SplitWithin
    <3>4. \/ Cardinality(Waiting) < MaxUnavailable
          \/ \A o \in Ordinals : pod[o] # NoPod /\ pod[o].old /\ ~pod[o].term => o \in split.keep
      BY <1>4, <2>2, KeepsAllOrFew DEF UpdateInv, listed
    <3>5. CASE Cardinality(Waiting) < MaxUnavailable
      <4>1. Cardinality(Waiting') < MaxUnavailable
        BY <1>7, <3>5, AgesKeep, FewKept
      <4> QED
        BY <2>2, <4>1 DEF SparedOrFew
    <3>6. CASE \A o \in Ordinals : pod[o] # NoPod /\ pod[o].old /\ ~pod[o].term => o \in split.keep
      <4>1. Spared'
        BY <1>15, <3>1, <3>2, <3>3, <3>6
      <4> QED
        BY <2>2, <4>1 DEF SparedOrFew
    <3> QED
      BY <3>4, <3>5, <3>6
  <2> QED
    BY <1>4, <2>1, <2>2 DEF SparedOrFew
<1>17. SizeKept' /\ AwaitsCreated'
  BY <1>3, <1>4, <1>9 DEF UpdateInv, SizeKept, AwaitsCreated
<1> QED
  BY <1>10, <1>11, <1>12, <1>13, <1>14, <1>16, <1>17 DEF UpdateInv

LEMMA DoPodScaleWaits == ASSUME TypeInv, TypeInv', UpdateInv, DoPodScale PROVE UpdateInv'
<1>1. /\ pc = "scale" /\ plan.delete = {} /\ Spared /\ Missing = {}
      /\ exp.adds >= Cardinality(plan.create) /\ ~exp.expired
      /\ \A o \in plan.create : snap[o] = NoPod
      /\ FollowsAll(cache) /\ FollowsAll(snap)
  BY DEF DoPodScale, UpdateInv, PlanAwaited, SparedOrFew, AwaitsCreated
<1>2. /\ plan.create \in SUBSET Ordinals /\ pod \in [Ordinals -> Pods] /\ exp \in ExpType
      /\ snode \in [Ordinals -> RealNodes] /\ scache \in [Ordinals -> RealNodes]
  BY DEF TypeInv, TypeOK, ExpType
<1>3. \A o \in plan.create : cache[o] = NoPod /\ pod[o] = NoPod
  BY <1>1, <1>2 DEF UpdateInv, SnapComplete
<1>4. Found(plan.create) = {}
  BY <1>3 DEF Found
<1>5. UNCHANGED <<setting, replicas, cache, want, snap>> /\ pc' = "update"
  BY <1>4 DEF DoPodScale
<1>6. CASE ProcessCondemned(plan.delete, exp)
  <2>1. pod' = pod
    BY <1>1, <1>2, <1>6 DEF ProcessCondemned, Found
  <2>2. snode' = snode /\ scache' = scache
    BY <1>1, <1>2, <1>6 DEF ProcessCondemned, UpdateNodes
  <2>3. Ages
    BY <2>1, UnchangedAges
  <2>4. Missing' = {}
    BY <1>1, <1>5, <2>3, AgesKeep
  <2>5. FollowsAll(cache)' /\ FollowsAll(snap)' /\ Spared'
    BY <1>1, <1>5, <2>2, <2>3, AgesKeep
  <2>6. OldAreOurs'
    BY <2>1, <2>2 DEF UpdateInv, OldAreOurs
  <2> QED
    BY <1>5, <2>4, <2>5, <2>6
       DEF UpdateInv, SizeKept, AwaitsCreated, SnapComplete, PlanAwaited, SparedOrFew
<1>7. CASE /\ pod' = [o \in Ordinals |-> IF o \in plan.create \ Found(plan.create)
                                         THEN NewPod ELSE pod[o]]
           /\ exp' = LowerCreations(exp, Cardinality(Found(plan.create)))
           /\ UNCHANGED slurmVars
  <2>1. \A o \in Ordinals : pod'[o] = IF o \in plan.create THEN NewPod ELSE pod[o]
    BY <1>4, <1>7
  <2>2. FollowsAll(cache)' /\ FollowsAll(snap)'
    BY <1>1, <1>3, <1>5, <2>1 DEF FollowsAll
  <2>3. OldAreOurs' /\ Spared'
    BY <1>1, <1>7, <2>1, NewPodIsPod DEF UpdateInv, OldAreOurs, Spared, slurmVars
  <2>4. AwaitsCreated'
    <3>1. Missing' \subseteq plan.create
      BY <1>1, <1>5, <2>1 DEF Missing
    <3>2. IsFiniteSet(plan.create) /\ Cardinality(plan.create) \in Nat /\ Cardinality(Missing') \in Nat
      BY <1>2, <3>1, OrdinalsFinite
    <3>3. Cardinality(Missing') <= Cardinality(plan.create)
      BY <3>1, <3>2, FS_Subset
    <3>4. Cardinality(Found(plan.create)) = 0
      BY <1>4, FS_EmptySet
    <3>5. \A e \in ExpType : LowerCreations(e, 0).adds = e.adds /\ LowerCreations(e, 0).expired = e.expired
      BY DEF LowerCreations, ExpType
    <3>6. exp'.adds = exp.adds /\ exp'.expired = exp.expired /\ exp.adds \in Int
      BY <1>2, <1>7, <3>4, <3>5 DEF ExpType
    <3>7. exp'.adds >= Cardinality(Missing')
      BY <1>1, <3>2, <3>3, <3>6
    <3> QED
      BY <1>1, <1>5, <3>6, <3>7 DEF AwaitsCreated
  <2> QED
    BY <1>5, <2>2, <2>3, <2>4 DEF UpdateInv, SizeKept, SnapComplete, PlanAwaited, SparedOrFew
<1> QED
  BY <1>6, <1>7 DEF DoPodScale

LEMMA SyncUpdateWaits == ASSUME TypeInv, TypeInv', UpdateInv, SyncUpdate PROVE UpdateInv'
<1>1. Ages
  BY SyncUpdateAges
<1>2. pc' = "sync" /\ UNCHANGED <<setting, replicas, cache>>
  BY DEF SyncUpdate
<1>3. FollowsAll(cache)' /\ Missing' \subseteq Missing
  BY <1>1, <1>2, AgesKeep DEF UpdateInv
<1>4. AwaitsCreated' /\ OldAreOurs'
  <2>1. CASE UNCHANGED <<pod, slurmVars, exp>>
    <3>1. AwaitsCreated'
      BY <1>2, <1>3, <2>1, AwaitsKept DEF UpdateInv
    <3>2. OldAreOurs'
      BY <2>1 DEF UpdateInv, OldAreOurs, slurmVars
    <3> QED
      BY <3>1, <3>2
  <2>2. CASE SatisfiedExpectations(exp) /\ \E D, e : ProcessCondemned(D, e)
    <3>1. Missing' = {}
      BY <1>3, <2>2, SatisfiedSeesAll DEF UpdateInv
    <3>2. PICK D, e : ProcessCondemned(D, e)
      BY <2>2
    <3>3. \A o \in Ordinals :
            /\ snode'[o] = snode[o] \/ snode'[o] = Drained(snode[o], "term")
            /\ scache'[o] = scache[o] \/ scache'[o] = Drained(snode[o], "term")
      BY <3>2 DEF ProcessCondemned, UpdateNodes
    <3>4. \A o \in Ordinals : Drained(snode[o], "term").reason = "term"
      BY DEF TypeInv, RealNodes, Drained
    <3>5. OldAreOurs'
      BY <1>1, <3>3, <3>4, OldStayOurs DEF UpdateInv
    <3> QED
      BY <3>1, <3>5 DEF AwaitsCreated
  <2> QED
    BY <2>1, <2>2 DEF SyncUpdate
<1> QED
  BY <1>2, <1>3, <1>4 DEF UpdateInv, SizeKept, SnapComplete, PlanAwaited, SparedOrFew

\* A step that creates no pod, tells the operator nothing and leaves the reasons of the
\* workers whose pods exist alone.
LEMMA UnseenWaits ==
    ASSUME TypeInv, TypeInv', UpdateInv, Ages,
           UNCHANGED <<setting, replicas, cache, exp, scache, opVars>>,
           \A o \in Ordinals :
             pod'[o] # NoPod /\ snode[o].reason # "ext" => snode'[o].reason # "ext"
    PROVE  UpdateInv'
<1>1. UNCHANGED <<setting, replicas, cache, exp, scache, pc, want, snap, plan>>
  BY DEF opVars
<1>2. /\ Waiting' \subseteq Waiting /\ Missing' \subseteq Missing
      /\ Spared => Spared'
      /\ FollowsAll(cache)' /\ (pc' # "sync" => FollowsAll(snap)')
  BY <1>1, AgesKeep DEF UpdateInv
<1>3. AwaitsCreated'
  BY <1>1, <1>2, AwaitsKept DEF UpdateInv
<1>4. SnapComplete'
  BY <1>1 DEF UpdateInv, SnapComplete, Ages
<1>5. OldAreOurs'
  BY <1>1, OldStayOurs DEF UpdateInv
<1>6. SparedOrFew'
  BY <1>1, <1>2, FewKept DEF UpdateInv, SparedOrFew
<1>7. SizeKept' /\ PlanAwaited'
  BY <1>1 DEF UpdateInv, SizeKept, PlanAwaited
<1> QED
  BY <1>2, <1>3, <1>4, <1>5, <1>6, <1>7 DEF UpdateInv

\* An event that shows a pod for the first time lowers the creations that are awaited by
\* one, and no other event does.
LEMMA DeliverWaits ==
    ASSUME TypeInv, TypeInv', UpdateInv, NEW o \in Ordinals, Deliver(o)
    PROVE  UpdateInv'
<1>1. /\ UNCHANGED <<setting, replicas, pod, snode, scache, pc, want, snap, plan>>
      /\ cache' = [cache EXCEPT ![o] = pod[o]]
      /\ exp' = HandlePodEvent(cache[o], pod[o], o)
  BY DEF Deliver, opVars, slurmVars
<1>2. cache \in [Ordinals -> Pods] /\ pod \in [Ordinals -> Pods] /\ exp \in ExpType
  BY DEF TypeInv, TypeOK, ExpType
<1>3. \A q \in Ordinals : cache'[q] = IF q = o THEN pod[q] ELSE cache[q]
  BY <1>1, <1>2
<1>4. Missing' = Missing \ {o}
  BY <1>1, <1>3 DEF Missing
<1>5. /\ exp.adds \in Int /\ exp'.expired = exp.expired
      /\ exp'.adds = exp.adds \/ (o \in Missing /\ exp'.adds = exp.adds - 1)
  <2>1. \A e \in ExpType :
          /\ LowerCreations(e, 1).adds = e.adds - 1
          /\ LowerCreations(e, 1).expired = e.expired
    BY DEF LowerCreations, ExpType
  <2>2. \A e \in ExpType :
          DeletionObserved(e, o).adds = e.adds /\ DeletionObserved(e, o).expired = e.expired
    BY DEF DeletionObserved, ExpType
  <2>3. exp.adds \in Int
    BY <1>2 DEF ExpType
  <2>4. CASE pod[o] = NoPod \/ pod[o].term
    BY <1>1, <1>2, <2>2, <2>3, <2>4 DEF HandlePodEvent
  <2>5. CASE ~(pod[o] = NoPod \/ pod[o].term) /\ cache[o] = NoPod
    BY <1>1, <1>2, <2>1, <2>3, <2>5 DEF HandlePodEvent, Missing
  <2>6. CASE ~(pod[o] = NoPod \/ pod[o].term) /\ cache[o] # NoPod
    BY <1>1, <2>3, <2>6 DEF HandlePodEvent
  <2> QED
    BY <2>4, <2>5, <2>6
<1>6. AwaitsCreated'
  <2>1. CASE exp'.adds = exp.adds
    BY <1>1, <1>4, <1>5, <2>1, AwaitsKept DEF UpdateInv
  <2>2. CASE o \in Missing /\ exp'.adds = exp.adds - 1
    <3>1. IsFiniteSet(Missing) /\ Cardinality(Missing) \in Nat
      BY OrdinalsFinite DEF Missing
    <3>2. Cardinality(Missing') = Cardinality(Missing) - 1
      BY <1>4, <2>2, <3>1, FS_RemoveElement
    <3>3. /\ pc \in {"sync", "update"}
          /\ exp.adds >= Cardinality(Missing) /\ ~exp.expired
      BY <2>2 DEF UpdateInv, AwaitsCreated
    <3>4. exp'.adds >= Cardinality(Missing')
      BY <1>5, <2>2, <3>1, <3>2, <3>3
    <3> QED
      BY <1>1, <1>5, <3>3, <3>4 DEF AwaitsCreated
  <2> QED
    BY <1>5, <2>1, <2>2
<1>7. FollowsAll(cache)'
  <2>1. pod[o] # NoPod => Follows(pod[o], pod[o])
    BY <1>2, PodChanges
  <2> QED
    BY <1>1, <1>3, <2>1 DEF UpdateInv, FollowsAll
<1>8. pc' # "sync" => FollowsAll(snap)'
  BY <1>1 DEF UpdateInv, FollowsAll
<1>9. SnapComplete'
  BY <1>1, <1>3 DEF UpdateInv, SnapComplete
<1>10. PlanAwaited'
  <2>1. pc = "scale" => exp'.adds = exp.adds
    BY <1>5 DEF UpdateInv, AwaitsCreated
  <2> QED
    BY <1>1, <1>5, <2>1 DEF UpdateInv, PlanAwaited
<1>11. SizeKept' /\ OldAreOurs'
  BY <1>1 DEF UpdateInv, SizeKept, OldAreOurs
<1>12. SparedOrFew'
  BY <1>1 DEF UpdateInv, SparedOrFew, Spared, Waiting, NewPods, PodsIn, IsHealthy
<1> QED
  BY <1>6, <1>7, <1>8, <1>9, <1>10, <1>11, <1>12 DEF UpdateInv

LEMMA WorldWaits ==
    ASSUME TypeInv, TypeInv', OnlyUpdated, UpdateInv, NEW o \in Ordinals,
           \/ PodReady(o) \/ PodGone(o) \/ EndJob(o)
           \/ StartJob(o) \/ PodUnready(o) \/ UserDeletes(o)
    PROVE  UpdateInv'
<1>1. Ages
  BY WorldAges
<1>2. UNCHANGED <<setting, replicas, cache, exp, scache, opVars>>
  BY DEF PodReady, PodGone, EndJob, StartJob, PodUnready, UserDeletes, slurmVars
<1>3. snode \in [Ordinals -> RealNodes] /\ snode[o] \in RealNodes /\ pod \in [Ordinals -> Pods]
  BY DEF TypeInv, TypeOK
<1>4. ASSUME NEW q \in Ordinals, pod'[q] # NoPod, snode[q].reason # "ext"
      PROVE  snode'[q].reason # "ext"
  <2>1. CASE PodReady(o)
    <3>1. PICK d \in {FALSE, snode[o].drain} :
            snode' = [snode EXCEPT ![o] =
                        [base |-> "IDLE", drain |-> d, reason |-> IF d THEN @.reason ELSE "none"]]
      BY <2>1 DEF PodReady
    <3>2. d \in BOOLEAN
      BY <1>3 DEF RealNodes
    <3> QED
      BY <1>3, <1>4, <3>1, <3>2
  <2>2. CASE PodGone(o)
    BY <1>3, <1>4, <2>2 DEF PodGone
  <2>3. CASE EndJob(o) \/ StartJob(o)
    <3>1. PICK b \in Bases : snode' = [snode EXCEPT ![o] = [snode[o] EXCEPT !.base = b]]
      BY <2>3 DEF EndJob, StartJob, Bases
    <3>2. [snode[o] EXCEPT !.base = b].reason = snode[o].reason
      BY <1>3 DEF RealNodes
    <3> QED
      BY <1>3, <1>4, <3>1, <3>2
  <2>4. CASE PodUnready(o) \/ UserDeletes(o)
    BY <1>4, <2>4 DEF PodUnready, UserDeletes, slurmVars
  <2> QED
    BY <2>1, <2>2, <2>3, <2>4
<1> QED
  BY <1>1, <1>2, <1>4, UnseenWaits

LEMMA WaitStep == TypeInv /\ TypeInv' /\ WaitInv /\ [Next]_vars => WaitInv'
<1> SUFFICES ASSUME TypeInv, TypeInv', WaitInv, [Next]_vars, OnlyUpdated'
             PROVE  UpdateInv'
  BY DEF WaitInv
<1>1. setting' = setting
  BY DEF Next, Reconcile, vars, Sync, SyncNodeSetPods, DoPodScale, SyncUpdate, Expire, UserScales,
         Deliver, PodReady, PodGone, EndJob, StartJob, PodUnready, UserDeletes
<1>2. OnlyUpdated /\ UpdateInv
  BY <1>1 DEF OnlyUpdated, WaitInv
<1>3. CASE Reconcile
  BY <1>2, <1>3, SyncWaits, SyncNodeSetPodsWaits, DoPodScaleWaits, SyncUpdateWaits DEF Reconcile
<1>4. CASE Expire
  <2>1. Missing' = {} /\ UNCHANGED <<replicas, pod, cache, snode, scache, pc, want, snap>> /\ pc = "sync"
    BY <1>4 DEF Expire, Missing, opVars, slurmVars
  <2> QED
    BY <1>2, <2>1 DEF UpdateInv, SizeKept, AwaitsCreated, FollowsAll, SnapComplete, PlanAwaited,
                      OldAreOurs, SparedOrFew
<1>5. CASE UserScales
  BY <1>2, <1>5 DEF UserScales, Disturbs, OnlyUpdated
<1>6. CASE UNCHANGED vars
  <2>1. UNCHANGED <<setting, replicas, cache, exp, scache, opVars>> /\ UNCHANGED <<pod, snode>>
    BY <1>6 DEF vars, slurmVars
  <2>2. Ages
    BY <2>1, UnchangedAges
  <2> QED
    BY <1>2, <2>1, <2>2, UnseenWaits
<1> QED
  BY <1>2, <1>3, <1>4, <1>5, <1>6, DeliverWaits, WorldWaits DEF Next

\* What the invariant is for: a pod that syncUpdate deletes is one of the old revision
\* whose worker the reconcile found drained.
LEMMA DeletesDrained ==
    ASSUME TypeInv, UpdateInv, SyncUpdate, NEW o \in Ordinals, Deletes(o)
    PROVE  /\ setting.strategy = "RollingUpdate"
           /\ pod[o] # NoPod /\ pod[o].old /\ ~pod[o].term /\ scache[o].drain
<1> DEFINE old == OldPods(snap, Ordinals)
           unhealthy == SplitUnhealthyPods(snap, old)
<1>1. /\ pc = "update"
      /\ \/ pod' = pod
         \/ /\ setting.strategy = "RollingUpdate"
            /\ \E split \in splitUpdatePods(snap, old \ unhealthy, TRUE) :
                 ProcessCondemned(unhealthy \cup split.delete,
                     ExpectDeletions(IF split.delete = {} THEN unhealthy ELSE split.delete))
  BY DEF SyncUpdate
<1>2. pod' # pod
  BY DEF Deletes
<1>3. unhealthy \subseteq old /\ old \in SUBSET Ordinals
  BY DEF SplitUnhealthyPods, OldPods
<1> HIDE DEF unhealthy
<1>4. PICK split \in splitUpdatePods(snap, old \ unhealthy, TRUE) :
        ProcessCondemned(unhealthy \cup split.delete,
            ExpectDeletions(IF split.delete = {} THEN unhealthy ELSE split.delete))
  BY <1>1, <1>2
<1>5. split.delete \subseteq OldPods(snap, old \ unhealthy)
  BY <1>3, SplitWithin
<1>6. unhealthy \cup split.delete \subseteq old
  BY <1>3, <1>5 DEF OldPods
<1>7. pod[o] \in Pods
  BY DEF TypeInv, TypeOK
<1>8. o \in unhealthy \cup split.delete /\ IsNodeDrained(TRUE, scache[o]) /\ pod[o] # NoPod
  <2>1. pod'[o] # pod[o]
    BY DEF Deletes
  <2>2. pod[o] # NoPod => [pod[o] EXCEPT !.cordon = TRUE].term = pod[o].term
    BY <1>7, PodUpdates DEF RealPods
  <2>3. pod[o] # NoPod => pod'[o] # [pod[o] EXCEPT !.cordon = TRUE]
    BY <2>2 DEF Deletes
  <2> QED
    BY <1>4, <2>1, <2>3 DEF ProcessCondemned, Found
<1>9. scache[o].drain
  <2>1. scache[o] # NoNode
    BY NodeUpdates DEF TypeInv
  <2> QED
    BY <1>8, <2>1 DEF IsNodeDrained, Unknown
<1>10. snap[o].old /\ snap[o] # NoPod
  <2>1. snap[o].old /\ ~NoPod.old
    BY <1>6, <1>8 DEF OldPods, NoPod
  <2> QED
    BY <2>1
<1>11. pod[o].old
  BY <1>1, <1>8, <1>10 DEF UpdateInv, FollowsAll, Follows
<1> QED
  BY <1>1, <1>2, <1>8, <1>9, <1>11 DEF Deletes

\* The update deletes no pod while as many of the new revision as maxUnavailable allows
\* are not ready, though syncRollingUpdate does not count those: a pod it deletes was
\* drained, and doPodProcessing has undrained all of them if there was no room.
THEOREM UpdateWaits == Spec => UpdateWaitsForNewPods
<1>1. Init => TypeInv /\ WaitInv
  BY InitType, InitWaits DEF WaitInv
<1>2. TypeInv /\ WaitInv /\ [Next]_vars => (TypeInv /\ WaitInv)'
  BY TypeStep, WaitStep
<1>3. TypeInv /\ WaitInv /\ [Next]_vars => [OnlyUpdated => ~DeletesTooEarly]_vars
  <2> SUFFICES ASSUME TypeInv, WaitInv, OnlyUpdated, SyncUpdate, NEW o \in Ordinals, Deletes(o),
                      Cardinality(Waiting) >= MaxUnavailable
               PROVE  FALSE
    BY DEF DeletesTooEarly, Waiting
  <2>1. UpdateInv
    BY DEF WaitInv
  <2>2. /\ setting.strategy = "RollingUpdate"
        /\ pod[o] # NoPod /\ pod[o].old /\ ~pod[o].term /\ scache[o].drain
    BY <2>1, DeletesDrained
  <2>3. ~Spared
    BY <2>2 DEF Spared
  <2>4. Cardinality(Waiting) < MaxUnavailable
    BY <2>1, <2>2, <2>3 DEF UpdateInv, SparedOrFew, SyncUpdate
  <2>5. Waiting \in SUBSET Ordinals
    BY DEF Waiting, NewPods, PodsIn
  <2>6. Cardinality(Waiting) \in Nat
    BY <2>5, OrdinalsFinite
  <2> QED
    BY <2>4, <2>6, RollingAssumption
<1> QED
  BY <1>1, <1>2, <1>3, PTL DEF Spec, UpdateWaitsForNewPods
=============================================================================
