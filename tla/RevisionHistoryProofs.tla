------------------------ MODULE RevisionHistoryProofs ------------------------
(***************************************************************************)
(* The revision a reconcile hands to its pods is the one of its template,  *)
(* and no two revisions share a name, for every set of templates, every    *)
(* collision of their hashes, any limit of the history and any number of   *)
(* edits.                                                                  *)
(***************************************************************************)
EXTENDS RevisionHistory, FiniteSetTheorems, TLAPS

\* A record with the fields of a revision.
Shaped(r) ==
    \E name, label, data, num, owned :
        r = [name |-> name, label |-> label, data |-> data, num |-> num, owned |-> owned]

\* The inductive invariant: no update revision of an earlier reconcile is left before
\* getNodeSetRevisions, and what is stored and cached are revisions.
IInv ==
    /\ UpdateRevisionFits
    /\ step \in {"idle", "revisions"} => update.rev = {}
    /\ \A r \in revs \cup revsSeen : Shaped(r)

\* Another number or controller leaves a revision its data.
LEMMA ExceptShaped ==
    ASSUME NEW r, Shaped(r), NEW x
    PROVE  /\ Shaped([r EXCEPT !.num = x]) /\ [r EXCEPT !.num = x].data = r.data
           /\ Shaped([r EXCEPT !.name = x]) /\ [r EXCEPT !.name = x].data = r.data
           /\ Shaped([r EXCEPT !.owned = x])
<1>1. PICK n, l, d, k, o : r = [name |-> n, label |-> l, data |-> d, num |-> k, owned |-> o]
  BY DEF Shaped
<1>2. /\ [r EXCEPT !.num = x] = [name |-> n, label |-> l, data |-> d, num |-> x, owned |-> o]
      /\ [r EXCEPT !.name = x] = [name |-> x, label |-> l, data |-> d, num |-> k, owned |-> o]
      /\ [r EXCEPT !.owned = x] = [name |-> n, label |-> l, data |-> d, num |-> k, owned |-> x]
  BY <1>1
<1>3. \A N, L, D, K, O :
          Shaped([name |-> N, label |-> L, data |-> D, num |-> K, owned |-> O])
  BY Zenon DEF Shaped
<1>4. /\ Shaped([name |-> n, label |-> l, data |-> d, num |-> x, owned |-> o])
      /\ Shaped([name |-> x, label |-> l, data |-> d, num |-> k, owned |-> o])
      /\ Shaped([name |-> n, label |-> l, data |-> d, num |-> k, owned |-> x])
  BY <1>3, Zenon
<1>5. [r EXCEPT !.num = x].data = r.data /\ [r EXCEPT !.name = x].data = r.data
  BY <1>1, <1>2
<1> QED
  BY <1>2, <1>4, <1>5

\* What a reconcile that found or made revision r goes on with.
LEMMA ChosenFits ==
    ASSUME NEW r, NEW c, Chosen(r, c), r.data = read.template, read' = read,
           step' = "truncate", \A q \in (revs \cup revsSeen)' : Shaped(q)
    PROVE  IInv'
<1>1. update'.rev = {r}
  BY DEF Chosen
<1> QED
  BY <1>1 DEF IInv, UpdateRevisionFits

\* A reconcile that fails leaves no update revision.
LEMMA FailureFits ==
    ASSUME IInv, step = "revisions", update' = update, revs' = revs, revsSeen' = revsSeen
    PROVE  IInv'
BY DEF IInv, UpdateRevisionFits

\* The revision that CreateControllerRevision returns, made or found in place, holds the
\* data it was given.
LEMMA CreateFits ==
    ASSUME IInv, step = "revisions", NEW num, CreateControllerRevision(newRevision(read, num)),
           step' # "idle" => read' = read, revsSeen' = revsSeen
    PROVE  IInv'
<1> DEFINE v == newRevision(read, num)
<1>1. v.data = read.template /\ Shaped(v)
  BY DEF newRevision, Shaped
<1> HIDE DEF v
<1>2. \A n : [v EXCEPT !.name = n].data = read.template /\ Shaped([v EXCEPT !.name = n])
  BY <1>1, ExceptShaped
<1>3. \/ \E n, c : /\ Chosen([v EXCEPT !.name = n], c) /\ step' = "truncate"
                   /\ revs' = revs \cup {[v EXCEPT !.name = n]}
      \/ \E r, c : Chosen(r, c) /\ r.data = v.data /\ step' = "truncate" /\ revs' = revs
      \/ step' = "idle" /\ update' = update /\ revs' = revs
  BY DEF CreateControllerRevision, v
<1>4. \A q \in (revs \cup revsSeen)' : Shaped(q)
  BY <1>2, <1>3 DEF IInv
<1> QED
  BY <1>1, <1>2, <1>3, <1>4, ChosenFits, FailureFits

\* The revision that is rolled back to holds the template.
LEMMA UpdateFits ==
    ASSUME IInv, step = "revisions", NEW r \in revsSeen, NEW num, r.data = read.template,
           UpdateControllerRevision(r, num), step' # "idle" => read' = read,
           revsSeen' = revsSeen
    PROVE  IInv'
<1>1. [r EXCEPT !.num = num].data = read.template /\ Shaped([r EXCEPT !.num = num])
  BY ExceptShaped DEF IInv
<1>2. \A q \in (revs \cup revsSeen)' : Shaped(q)
  BY <1>1 DEF IInv, UpdateControllerRevision
<1> QED
  BY <1>1, <1>2, ChosenFits, FailureFits DEF UpdateControllerRevision

\* Listed revisions are cached ones.
LEMMA SortedCached ==
    ASSUME NEW s \in Sorted(listRevisions), NEW i \in DOMAIN s
    PROVE  s[i] \in revsSeen
<1>1. s \in [1 .. Cardinality(listRevisions) -> listRevisions]
  BY DEF Sorted, Bijection, Injection
<1> QED
  BY <1>1 DEF listRevisions

\* getNodeSetRevisions chooses a revision of the template, or fails.
LEMMA GetFits ==
    ASSUME IInv, GetNodeSetRevisions
    PROVE  IInv'
<1>1. step = "revisions" /\ revsSeen' = revsSeen
  BY DEF GetNodeSetRevisions, cache
<1>2. PICK s \in Sorted(listRevisions) :
          /\ \/ CreateControllerRevision(newRevision(read, nextRevision(s)))
             \/ /\ Last(s).data = read.template /\ Chosen(Last(s), read.collisions)
                /\ step' = "truncate" /\ UNCHANGED revs
             \/ \E i \in DOMAIN s : /\ s[i].data = read.template
                                    /\ UpdateControllerRevision(s[i], nextRevision(s))
          /\ step' # "idle" => read' = read
  BY DEF GetNodeSetRevisions, LastEqual
<1>3. CASE CreateControllerRevision(newRevision(read, nextRevision(s)))
  BY <1>1, <1>2, <1>3, CreateFits
<1>4. CASE /\ Last(s).data = read.template /\ Chosen(Last(s), read.collisions)
           /\ step' = "truncate" /\ UNCHANGED revs
  <2>1. \A q \in (revs \cup revsSeen)' : Shaped(q)
    BY <1>1, <1>4 DEF IInv
  <2> QED
    BY <1>2, <1>4, <2>1, ChosenFits
<1>5. CASE \E i \in DOMAIN s : /\ s[i].data = read.template
                               /\ UpdateControllerRevision(s[i], nextRevision(s))
  BY <1>1, <1>2, <1>5, SortedCached, UpdateFits
<1> QED
  BY <1>2, <1>3, <1>4, <1>5

\* adoptOrphanRevisions and the steps after getNodeSetRevisions.
LEMMA OtherStepsFit ==
    ASSUME IInv,
           AdoptOrphanRevisions \/ \E f \in BOOLEAN : TruncateHistory(f) \/ SyncStatus(f)
    PROVE  IInv'
<1>1. CASE AdoptOrphanRevisions
  <2>1. /\ update' = update /\ update.rev = {} /\ revsSeen' = revsSeen
    BY <1>1 DEF AdoptOrphanRevisions, IInv, cache
  <2>2. PICK S \in SUBSET revs : revs' = (revs \ S) \cup {[r EXCEPT !.owned = TRUE] : r \in S}
    BY <1>1 DEF AdoptOrphanRevisions, AdoptControllerRevisions
  <2>3. \A r \in revs' : Shaped(r)
    BY <2>2, ExceptShaped DEF IInv
  <2> QED
    BY <2>1, <2>3 DEF IInv, UpdateRevisionFits
<1>2. CASE \E f \in BOOLEAN : TruncateHistory(f)
  <2>1. /\ step' = "status" /\ update' = update /\ read' = read
        /\ revs' \subseteq revs /\ revsSeen' = revsSeen
    BY <1>2 DEF TruncateHistory, cache, local
  <2> QED
    BY <2>1 DEF IInv, UpdateRevisionFits
<1>3. CASE \E f \in BOOLEAN : SyncStatus(f)
  <2>1. update' = NoUpdate /\ revs' = revs /\ revsSeen' = revsSeen
    BY <1>3 DEF SyncStatus, cache
  <2> QED
    BY <2>1 DEF NoUpdate, IInv, UpdateRevisionFits
<1> QED
  BY <1>1, <1>2, <1>3

\* The informers and other hands do not touch what a reconcile has read and chosen.
LEMMA OutsideFits ==
    ASSUME IInv, Deliver \/ Environment
    PROVE  IInv'
<1>1. step' = step /\ update' = update /\ read' = read
  BY DEF Deliver, DeliverNodeSet, DeliverRevisions, Environment, UserEdits, UserOrphans,
         UserDeletesRevision, local
<1>2. \A r \in (revs \cup revsSeen)' : Shaped(r)
  <2>1. CASE Deliver \/ UserEdits \/ UserDeletesRevision
    BY <2>1 DEF Deliver, DeliverNodeSet, DeliverRevisions, UserEdits, UserDeletesRevision,
                IInv, store, cache
  <2>2. CASE UserOrphans
    <3>1. PICK r \in revs : revs' = (revs \ {r}) \cup {[r EXCEPT !.owned = FALSE]}
      BY <2>2 DEF UserOrphans
    <3>2. Shaped([r EXCEPT !.owned = FALSE])
      BY ExceptShaped DEF IInv
    <3>3. revsSeen' = revsSeen
      BY <2>2 DEF UserOrphans, cache
    <3> QED
      BY <3>1, <3>2, <3>3 DEF IInv
  <2> QED
    BY <2>1, <2>2 DEF Environment
<1> QED
  BY <1>1, <1>2 DEF IInv, UpdateRevisionFits

\* The invariant holds at first, and every step preserves it.
LEMMA FitsInductive == (Init => IInv) /\ (IInv /\ [Next]_vars => IInv')
<1>1. Init => IInv
  BY DEF Init, IInv, UpdateRevisionFits, NoUpdate
<1>2. ASSUME IInv, [Next]_vars PROVE IInv'
  <2>1. CASE Reconcile
    BY <1>2, <2>1, GetFits, OtherStepsFit DEF Reconcile
  <2>2. CASE Deliver \/ Environment
    BY <1>2, <2>2, OutsideFits
  <2>3. CASE UNCHANGED vars
    BY <1>2, <2>3 DEF vars, store, cache, local, IInv, UpdateRevisionFits
  <2> QED
    BY <1>2, <2>1, <2>2, <2>3 DEF Next
<1> QED
  BY <1>1, <1>2

\* The update revision of a reconcile, whose label its pods are created with and compared
\* to, holds the template that the reconcile read: after a collision of hashes, a stale
\* list and a lost race for a name too.
THEOREM RevisionFits == Spec => []UpdateRevisionFits
<1>1. IInv => UpdateRevisionFits
  BY DEF IInv
<1> QED
  BY FitsInductive, <1>1, PTL DEF Spec

-----------------------------------------------------------------------------
(* Types and names.                                                         *)

\* There is a template to begin with, and the bounds are numbers.
Bounds == Templates # {} /\ MaxChanges \in Nat

\* TypeOK, and what is stored and cached is finite, so that it can be sorted.
NamesInv == TypeOK /\ IsFiniteSet(revs) /\ IsFiniteSet(revsSeen)

\* What is named and finite stays so when revisions go.
LEMMA NamedSubset ==
    ASSUME NEW S, Named(S), IsFiniteSet(S), NEW T \in SUBSET S
    PROVE  Named(T) /\ IsFiniteSet(T)
BY FS_Subset DEF Named

\* Another number or controller gives a revision that has the same name.
LEMMA ExceptRevision ==
    ASSUME NEW r \in Revisions
    PROVE  /\ \A o \in BOOLEAN : /\ [r EXCEPT !.owned = o] \in Revisions
                                 /\ [r EXCEPT !.owned = o].name = r.name
           /\ \A n \in Numbers : /\ [r EXCEPT !.num = n] \in Revisions
                                 /\ [r EXCEPT !.num = n].name = r.name
           /\ \A n \in {<<h>> : h \in Hashes} : /\ [r EXCEPT !.name = n] \in Revisions
                                               /\ [r EXCEPT !.name = n].name = n
<1> DEFINE Names == {<<h>> : h \in Hashes}
<1>1. Revisions = [name : Names, label : Hashes, data : Templates, num : Numbers, owned : BOOLEAN]
  BY DEF Revisions
<1> HIDE DEF Names
<1>2. \A n \in Names : [r EXCEPT !.name = n] \in Revisions /\ [r EXCEPT !.name = n].name = n
  BY <1>1
<1>3. \A n \in Numbers : [r EXCEPT !.num = n] \in Revisions /\ [r EXCEPT !.num = n].name = r.name
  BY <1>1
<1>4. \A o \in BOOLEAN : [r EXCEPT !.owned = o] \in Revisions /\ [r EXCEPT !.owned = o].name = r.name
  BY <1>1
<1> QED
  BY <1>2, <1>3, <1>4 DEF Names

\* A revision in place of one with the same name.
LEMMA NamedReplace ==
    ASSUME NEW S, Named(S), IsFiniteSet(S), NEW r \in S, NEW q \in Revisions, q.name = r.name
    PROVE  Named((S \ {r}) \cup {q}) /\ IsFiniteSet((S \ {r}) \cup {q})
<1>1. IsFiniteSet((S \ {r}) \cup {q})
  BY FS_RemoveElement, FS_AddElement
<1> QED
  BY <1>1 DEF Named

\* A revision with a name that is free.
LEMMA NamedAdd ==
    ASSUME NEW S, Named(S), IsFiniteSet(S), NEW q \in Revisions, \A r \in S : r.name # q.name
    PROVE  Named(S \cup {q}) /\ IsFiniteSet(S \cup {q})
<1>1. IsFiniteSet(S \cup {q})
  BY FS_AddElement
<1> QED
  BY <1>1 DEF Named

\* Revisions that are adopted keep their names.
LEMMA NamedAdopt ==
    ASSUME NEW S, Named(S), IsFiniteSet(S), NEW T \in SUBSET S
    PROVE  LET A == (S \ T) \cup {[r EXCEPT !.owned = TRUE] : r \in T}
           IN  Named(A) /\ IsFiniteSet(A)
<1> DEFINE G(r) == [r EXCEPT !.owned = TRUE]
           U == {G(r) : r \in T}
<1>1. \A r \in S : G(r) \in Revisions /\ G(r).name = r.name
  BY ExceptRevision DEF Named
<1> HIDE DEF G
<1>2. IsFiniteSet(U)
  <2>1. IsFiniteSet(T)
    BY FS_Subset
  <2>2. [r \in T |-> G(r)] \in Surjection(T, U)
    BY DEF Surjection
  <2> QED
    BY <2>1, <2>2, FS_Surjection
<1>3. IsFiniteSet(S \ T)
  BY FS_Subset
<1>4. IsFiniteSet((S \ T) \cup U)
  BY <1>2, <1>3, FS_Union
<1>5. Named((S \ T) \cup U)
  BY <1>1 DEF Named
<1> QED
  BY <1>4, <1>5 DEF G

\* What the cache holds is sorted into a sequence of cached revisions, which is empty or
\* has a last one.
LEMMA SortedSequence ==
    ASSUME NamesInv, NEW s \in Sorted(listRevisions)
    PROVE  /\ Range(s) \subseteq revsSeen
           /\ s = <<>> \/ Last(s) \in revsSeen
           /\ DOMAIN s # {} => Last(s) \in revsSeen
<1>1. listRevisions \subseteq revsSeen /\ IsFiniteSet(listRevisions)
  BY FS_EmptySet DEF listRevisions, NamesInv
<1> DEFINE n == Cardinality(listRevisions)
<1>2. n \in Nat
  BY <1>1, FS_CardinalityType
<1>3. s \in [1 .. n -> listRevisions]
  BY DEF Sorted, Bijection, Injection
<1> HIDE DEF n
<1>4. s \in Seq(listRevisions) /\ Len(s) = n
  BY <1>2, <1>3
<1>5. n = 0 => s = <<>>
  BY <1>4
<1>6. n # 0 => s[n] \in listRevisions
  BY <1>2, <1>3
<1>7. DOMAIN s # {} => n # 0
  BY <1>3, <1>2
<1> QED
  BY <1>1, <1>3, <1>4, <1>5, <1>6, <1>7 DEF Last, Range

\* The number after those that are listed.
LEMMA NextNumber ==
    ASSUME NamesInv, NEW s \in Sorted(listRevisions)
    PROVE  nextRevision(s) \in Numbers
<1>1. CASE s = <<>>
  BY <1>1 DEF nextRevision, Numbers
<1>2. CASE s # <<>>
  <2>1. Last(s) \in Revisions
    BY <1>2, SortedSequence DEF NamesInv, TypeOK, Named
  <2>2. Last(s).num \in Numbers
    BY <2>1 DEF Revisions
  <2> QED
    BY <1>2, <2>2 DEF nextRevision, Numbers
<1> QED
  BY <1>1, <1>2

\* Every hash is one of Hashes.
LEMMA HashType ==
    \A d \in Templates, c \in 0 .. MaxCollisions : Hash(d, c) \in Hashes
BY DEF Hashes

\* newRevision makes a revision.
LEMMA NewRevisionType ==
    ASSUME NamesInv, NEW num \in Numbers
    PROVE  newRevision(read, num) \in Revisions /\ newRevision(read, num).data = read.template
<1>1. read.template \in Templates /\ read.collisions \in 0 .. MaxCollisions
  BY DEF NamesInv, TypeOK, NodeSets
<1>2. Hash(read.template, read.collisions) \in Hashes
  BY <1>1, HashType
<1> QED
  BY <1>1, <1>2 DEF newRevision, Revisions

\* The choice of a revision.
LEMMA ChosenType ==
    ASSUME NEW r \in Revisions, NEW c \in 0 .. MaxCollisions, Chosen(r, c)
    PROVE  update'.rev \subseteq Revisions /\ update'.collisions \in 0 .. MaxCollisions
BY DEF Chosen

\* CreateControllerRevision takes a name that is free.
LEMMA CreateType ==
    ASSUME NamesInv, NEW v \in Revisions, CreateControllerRevision(v)
    PROVE  /\ Named(revs') /\ IsFiniteSet(revs') /\ step' \in {"idle", "truncate"}
           /\ update'.rev \subseteq Revisions /\ update'.collisions \in 0 .. MaxCollisions
<1>1. /\ Named(revs) /\ IsFiniteSet(revs) /\ revsSeen \subseteq Revisions
      /\ update.rev \subseteq Revisions /\ update.collisions \in 0 .. MaxCollisions
      /\ read.collisions \in 0 .. MaxCollisions /\ v.data \in Templates
  BY DEF NamesInv, TypeOK, NodeSets, Named, Revisions
<1>2. PICK c \in read.collisions .. MaxCollisions :
        LET name == <<Hash(v.data, c)>> IN
        \/ /\ \A r \in revs : r.name # name
           /\ revs' = revs \cup {[v EXCEPT !.name = name]}
           /\ Chosen([v EXCEPT !.name = name], c)
           /\ step' = "truncate"
        \/ \E r \in revsSeen : Chosen(r, c) /\ UNCHANGED revs /\ step' = "truncate"
        \/ step' = "idle" /\ UNCHANGED <<revs, update>>
  BY DEF CreateControllerRevision
<1>3. c \in 0 .. MaxCollisions
  BY <1>1 DEF MaxCollisions
<1> DEFINE name == <<Hash(v.data, c)>>
<1>4. [v EXCEPT !.name = name] \in Revisions /\ [v EXCEPT !.name = name].name = name
  <2>1. name \in {<<h>> : h \in Hashes}
    BY <1>1, <1>3, HashType
  <2> QED
    BY <2>1, ExceptRevision
<1> HIDE DEF name
<1>5. CASE /\ \A r \in revs : r.name # name
           /\ revs' = revs \cup {[v EXCEPT !.name = name]}
           /\ Chosen([v EXCEPT !.name = name], c)
           /\ step' = "truncate"
  BY <1>1, <1>3, <1>4, <1>5, NamedAdd, ChosenType
<1>6. CASE \E r \in revsSeen : Chosen(r, c) /\ UNCHANGED revs /\ step' = "truncate"
  BY <1>1, <1>3, <1>6, ChosenType
<1>7. CASE step' = "idle" /\ UNCHANGED <<revs, update>>
  BY <1>1, <1>7
<1> QED
  BY <1>2, <1>5, <1>6, <1>7 DEF name

\* UpdateControllerRevision leaves a revision its name.
LEMMA UpdateType ==
    ASSUME NamesInv, NEW r \in revsSeen, NEW num \in Numbers, UpdateControllerRevision(r, num)
    PROVE  /\ Named(revs') /\ IsFiniteSet(revs') /\ step' \in {"idle", "truncate"}
           /\ update'.rev \subseteq Revisions /\ update'.collisions \in 0 .. MaxCollisions
<1>1. /\ Named(revs) /\ IsFiniteSet(revs) /\ r \in Revisions
      /\ update.rev \subseteq Revisions /\ update.collisions \in 0 .. MaxCollisions
      /\ read.collisions \in 0 .. MaxCollisions
  BY DEF NamesInv, TypeOK, NodeSets, Named
<1>2. [r EXCEPT !.num = num] \in Revisions /\ [r EXCEPT !.num = num].name = r.name
  BY <1>1, ExceptRevision
<1> DEFINE q == [r EXCEPT !.num = num]
<1>3. \/ /\ r \in revs /\ revs' = (revs \ {r}) \cup {q}
         /\ Chosen(q, read.collisions) /\ step' = "truncate"
      \/ step' = "idle" /\ UNCHANGED <<revs, update>>
  BY DEF UpdateControllerRevision
<1> HIDE DEF q
<1>4. CASE /\ r \in revs /\ revs' = (revs \ {r}) \cup {q}
           /\ Chosen(q, read.collisions) /\ step' = "truncate"
  <2>1. q \in Revisions /\ q.name = r.name
    BY <1>2 DEF q
  <2> QED
    BY <1>1, <1>4, <2>1, NamedReplace, ChosenType
<1> QED
  BY <1>1, <1>3, <1>4

\* getNodeSetRevisions.
LEMMA GetType ==
    ASSUME Bounds, NamesInv, GetNodeSetRevisions
    PROVE  NamesInv'
<1>1. PICK s \in Sorted(listRevisions) :
          /\ \/ CreateControllerRevision(newRevision(read, nextRevision(s)))
             \/ /\ DOMAIN s # {} /\ Chosen(Last(s), read.collisions)
                /\ step' = "truncate" /\ UNCHANGED revs
             \/ \E i \in DOMAIN s : UpdateControllerRevision(s[i], nextRevision(s))
          /\ listed' \in {<<>>, s}
          /\ read' \in {NothingRead, read}
  BY DEF GetNodeSetRevisions
<1>2. nextRevision(s) \in Numbers
  BY NextNumber
<1>3. Named(Range(listed'))
  <2>1. CASE listed' = <<>>
    BY <2>1 DEF Range, Named
  <2>2. CASE listed' = s
    BY <2>2, SortedSequence DEF NamesInv, TypeOK, Named
  <2> QED
    BY <1>1, <2>1, <2>2
<1>4. read' \in NodeSets
  <2>1. NothingRead \in NodeSets
    BY DEF NothingRead, NodeSets, Bounds, MaxCollisions
  <2> QED
    BY <1>1, <2>1 DEF NamesInv, TypeOK
<1>5. /\ Named(revs') /\ IsFiniteSet(revs') /\ step' \in {"idle", "truncate"}
      /\ update'.rev \subseteq Revisions /\ update'.collisions \in 0 .. MaxCollisions
  <2>1. CASE CreateControllerRevision(newRevision(read, nextRevision(s)))
    BY <1>2, <2>1, NewRevisionType, CreateType
  <2>2. CASE /\ DOMAIN s # {} /\ Chosen(Last(s), read.collisions)
             /\ step' = "truncate" /\ UNCHANGED revs
    <3>1. Last(s) \in Revisions /\ read.collisions \in 0 .. MaxCollisions
      BY <2>2, SortedSequence DEF NamesInv, TypeOK, Named, NodeSets
    <3> QED
      BY <2>2, <3>1, ChosenType DEF NamesInv, TypeOK
  <2>3. ASSUME NEW i \in DOMAIN s, UpdateControllerRevision(s[i], nextRevision(s))
        PROVE  /\ Named(revs') /\ IsFiniteSet(revs') /\ step' \in {"idle", "truncate"}
               /\ update'.rev \subseteq Revisions /\ update'.collisions \in 0 .. MaxCollisions
    BY <1>2, <2>3, SortedCached, UpdateType
  <2> QED
    BY <1>1, <2>1, <2>2, <2>3
<1>6. UNCHANGED <<nodeset, nodesetSeen, revsSeen, changes>>
  BY DEF GetNodeSetRevisions, cache
<1> QED
  BY <1>3, <1>4, <1>5, <1>6 DEF NamesInv, TypeOK

\* The budget of failures and disturbances.
LEMMA SpendType ==
    ASSUME Bounds, NamesInv, NEW f \in BOOLEAN, Spend(f)
    PROVE  changes' \in 0 .. MaxChanges
BY DEF Bounds, NamesInv, TypeOK, Spend

\* adoptOrphanRevisions.
LEMMA AdoptType ==
    ASSUME NamesInv, AdoptOrphanRevisions
    PROVE  NamesInv'
<1>1. PICK T \in SUBSET revs : revs' = (revs \ T) \cup {[r EXCEPT !.owned = TRUE] : r \in T}
  BY DEF AdoptOrphanRevisions, AdoptControllerRevisions
<1>2. Named(revs') /\ IsFiniteSet(revs')
  BY <1>1, NamedAdopt DEF NamesInv, TypeOK
<1>3. /\ step' \in {"idle", "revisions"} /\ read' \in {read, nodesetSeen}
      /\ UNCHANGED <<nodeset, nodesetSeen, revsSeen, listed, update, changes>>
  BY DEF AdoptOrphanRevisions, cache
<1> QED
  BY <1>2, <1>3 DEF NamesInv, TypeOK

\* truncateHistory.
LEMMA TruncateType ==
    ASSUME Bounds, NamesInv, NEW f \in BOOLEAN, TruncateHistory(f)
    PROVE  NamesInv'
<1>1. changes' \in 0 .. MaxChanges
  BY SpendType DEF TruncateHistory
<1>2. revs' \subseteq revs
  BY DEF TruncateHistory
<1>3. Named(revs') /\ IsFiniteSet(revs')
  BY <1>2, NamedSubset DEF NamesInv, TypeOK
<1>4. step' = "status" /\ UNCHANGED <<nodeset, nodesetSeen, revsSeen, read, listed, update>>
  BY DEF TruncateHistory, cache, local
<1> QED
  BY <1>1, <1>3, <1>4 DEF NamesInv, TypeOK

\* syncNodeSetStatus.
LEMMA StatusType ==
    ASSUME Bounds, NamesInv, NEW f \in BOOLEAN, SyncStatus(f)
    PROVE  NamesInv'
<1>1. changes' \in 0 .. MaxChanges
  BY SpendType DEF SyncStatus
<1>2. nodeset' \in NodeSets
  <2>1. nodeset' = nodeset
        \/ \E r \in update.rev :
              nodeset' = [nodeset EXCEPT !.hash = r.label, !.collisions = update.collisions]
    BY DEF SyncStatus, updateNodeSetStatus
  <2>2. ASSUME NEW r \in update.rev
        PROVE  [nodeset EXCEPT !.hash = r.label, !.collisions = update.collisions] \in NodeSets
    <3>1. r.label \in Hashes \cup {<<>>} /\ update.collisions \in 0 .. MaxCollisions
      BY <2>2 DEF NamesInv, TypeOK, Revisions
    <3>2. nodeset \in NodeSets
      BY DEF NamesInv, TypeOK
    <3> QED
      BY <3>1, <3>2 DEF NodeSets
  <2> QED
    BY <2>1, <2>2 DEF NamesInv, TypeOK
<1>3. NothingRead \in NodeSets
  BY DEF NothingRead, NodeSets, Bounds, MaxCollisions
<1>4. Named(Range(<<>>))
  BY DEF Range, Named
<1>5. NoUpdate.rev \subseteq Revisions /\ NoUpdate.collisions \in 0 .. MaxCollisions
  BY DEF NoUpdate, MaxCollisions
<1>6. /\ step' = "idle" /\ listed' = <<>> /\ update' = NoUpdate /\ read' = NothingRead
      /\ UNCHANGED <<revs, nodesetSeen, revsSeen>>
  BY DEF SyncStatus, cache
<1> QED
  BY <1>1, <1>2, <1>3, <1>4, <1>5, <1>6 DEF NamesInv, TypeOK

\* The informers and the people around the NodeSet.
LEMMA OutsideType ==
    ASSUME Bounds, NamesInv, Deliver \/ Environment
    PROVE  NamesInv'
<1>1. CASE Deliver
  BY <1>1 DEF Deliver, DeliverNodeSet, DeliverRevisions, store, local, NamesInv, TypeOK
<1>2. ASSUME Disturbs PROVE changes' \in 0 .. MaxChanges
  BY <1>2 DEF Disturbs, Bounds, NamesInv, TypeOK
<1>3. CASE UserEdits
  <2>1. PICK t \in Templates : nodeset' = [nodeset EXCEPT !.template = t]
    BY <1>3 DEF UserEdits
  <2>2. nodeset' \in NodeSets
    BY <2>1 DEF NamesInv, TypeOK, NodeSets
  <2> QED
    BY <1>2, <1>3, <2>2 DEF UserEdits, cache, local, NamesInv, TypeOK
<1>4. CASE UserOrphans
  <2>1. PICK r \in revs : revs' = (revs \ {r}) \cup {[r EXCEPT !.owned = FALSE]}
    BY <1>4 DEF UserOrphans
  <2>2. r \in Revisions
    BY DEF NamesInv, TypeOK, Named
  <2>3. [r EXCEPT !.owned = FALSE] \in Revisions /\ [r EXCEPT !.owned = FALSE].name = r.name
    BY <2>2, ExceptRevision
  <2>4. Named(revs') /\ IsFiniteSet(revs')
    BY <2>1, <2>3, NamedReplace DEF NamesInv, TypeOK
  <2> QED
    BY <1>2, <1>4, <2>4 DEF UserOrphans, cache, local, NamesInv, TypeOK
<1>5. CASE UserDeletesRevision
  <2>1. revs' \subseteq revs
    BY <1>5 DEF UserDeletesRevision
  <2>2. Named(revs') /\ IsFiniteSet(revs')
    BY <2>1, NamedSubset DEF NamesInv, TypeOK
  <2> QED
    BY <1>2, <1>5, <2>2 DEF UserDeletesRevision, cache, local, NamesInv, TypeOK
<1> QED
  BY <1>1, <1>3, <1>4, <1>5 DEF Environment

\* The types hold at first, and every step preserves them.
LEMMA NamesInductive ==
    ASSUME Bounds
    PROVE  (Init => NamesInv) /\ (NamesInv /\ [Next]_vars => NamesInv')
<1>1. ASSUME Init PROVE NamesInv
  <2>1. nodeset \in NodeSets
    BY <1>1 DEF Init, NodeSets, MaxCollisions
  <2>2. NothingRead \in NodeSets
    BY DEF NothingRead, NodeSets, Bounds, MaxCollisions
  <2>3. Named({}) /\ Named(Range(<<>>)) /\ IsFiniteSet({})
    BY FS_EmptySet DEF Range, Named
  <2>4. NoUpdate.rev \subseteq Revisions /\ NoUpdate.collisions \in 0 .. MaxCollisions
    BY DEF NoUpdate, MaxCollisions
  <2> QED
    BY <1>1, <2>1, <2>2, <2>3, <2>4 DEF Init, NamesInv, TypeOK, Bounds
<1>2. ASSUME NamesInv, [Next]_vars PROVE NamesInv'
  <2>1. CASE Reconcile
    BY <1>2, <2>1, GetType, AdoptType, TruncateType, StatusType DEF Reconcile
  <2>2. CASE Deliver \/ Environment
    BY <1>2, <2>2, OutsideType
  <2>3. CASE UNCHANGED vars
    BY <1>2, <2>3 DEF vars, store, cache, local, NamesInv, TypeOK
  <2> QED
    BY <1>2, <2>1, <2>2, <2>3 DEF Next
<1> QED
  BY <1>1, <1>2

\* The state stays in its types: in particular neither the API server nor a cache nor a
\* reconcile ever has two revisions with one name.
THEOREM RevisionsTypeCorrect ==
    ASSUME Bounds
    PROVE  Spec => []TypeOK
<1>1. Init => NamesInv
  BY NamesInductive
<1>2. NamesInv /\ [Next]_vars => NamesInv'
  BY NamesInductive
<1>3. NamesInv => TypeOK
  BY DEF NamesInv
<1> QED
  BY <1>1, <1>2, <1>3, PTL DEF Spec
=============================================================================
