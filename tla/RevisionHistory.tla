-------------------------- MODULE RevisionHistory --------------------------
(***************************************************************************)
(* The ControllerRevisions of one NodeSet: nodeset_history.go, the         *)
(* revisions part of Sync in nodeset_sync.go and                           *)
(* internal/utils/historycontrol.                                          *)
(*                                                                         *)
(* A revision has a name, the hash label that the pods created for it      *)
(* carry, the patch with the template (its data), a number and a           *)
(* controller.  Label and name are made of one hash of the data and the    *)
(* collision count, but a name starts with the name of the NodeSet: here   *)
(* <<hash>>.  truncateHistory and getNodeSetRevisions look labels of pods  *)
(* and status.nodeSetHash (a label) up among names, so that neither finds  *)
(* one: the current revision is always the update revision, and no pod     *)
(* keeps a revision alive.                                                 *)
(*                                                                         *)
(* A new revision has the labels of spec.template.metadata, and            *)
(* listRevisions selects those of the worker's pods: it lists revisions    *)
(* only if the template carries these labels itself (Labelled).            *)
(*                                                                         *)
(* Reads come from the operator's cache, which lags.  A reconcile that     *)
(* fails is retried, one that does not asks to be repeated after 30 s, so  *)
(* that one may start at any time.                                         *)
(***************************************************************************)
EXTENDS Integers, FiniteSets, Sequences, Functions

CONSTANTS
    Templates,   \* what spec.template and the fields beside it may hold
    Colliding,   \* templates with the same hash at collision count 0
    Labelled,    \* whether the templates carry the worker's selector labels
    Limit,       \* spec.revisionHistoryLimit
    MaxChanges   \* bound: number of edits, failures and other disturbances

VARIABLES
    nodeset,     \* the NodeSet in the API server
    nodesetSeen, \* the same in the operator's cache
    revs,        \* the ControllerRevisions in the API server
    revsSeen,    \* the same in the operator's cache
    step,        \* the step of Sync
    read,        \* the NodeSet as this reconcile read it
    listed,      \* the revisions as this reconcile listed them
    update,      \* updateRevision and collisionCount of this reconcile
    changes      \* disturbances left

store == <<nodeset, revs>>
cache == <<nodesetSeen, revsSeen>>
local == <<read, listed, update>>
vars == <<store, cache, step, local, changes>>

MaxCollisions == 1

\* HashControllerRevision.
Hash(data, collisions) == IF data \in Colliding /\ collisions = 0 THEN <<"same", 0>>
                          ELSE <<data, collisions>>

Hashes == {Hash(d, c) : d \in Templates, c \in 0 .. MaxCollisions}
Numbers == Nat \ {0}

Revisions == [name : {<<h>> : h \in Hashes}, label : Hashes, data : Templates,
              num : Numbers, owned : BOOLEAN]
NodeSets == [template : Templates, hash : Hashes \cup {<<>>}, collisions : 0 .. MaxCollisions]
NoUpdate == [rev |-> {}, collisions |-> 0]
NothingRead == [template |-> CHOOSE t \in Templates : TRUE, hash |-> <<>>, collisions |-> 0]

\* Revisions of which no two have one name.
Named(S) == S \subseteq Revisions /\ \A r, q \in S : r.name = q.name => r = q

\* Types of the state; no two revisions have the same name.
TypeOK ==
    /\ nodeset \in NodeSets /\ nodesetSeen \in NodeSets /\ read \in NodeSets
    /\ Named(revs) /\ Named(revsSeen) /\ Named(Range(listed))
    /\ update.rev \subseteq Revisions /\ update.collisions \in 0 .. MaxCollisions
    /\ step \in {"idle", "revisions", "truncate", "status"}
    /\ changes \in 0 .. MaxChanges

\* A NodeSet that was just created.
Init ==
    /\ nodeset \in [template : Templates, hash : {<<>>}, collisions : {0}]
    /\ nodesetSeen = nodeset /\ read = NothingRead
    /\ revs = {} /\ revsSeen = {} /\ listed = <<>> /\ update = NoUpdate
    /\ step = "idle" /\ changes = MaxChanges

-----------------------------------------------------------------------------
\* ListControllerRevisions with the selector of listRevisions.
listRevisions == IF Labelled THEN revsSeen ELSE {}

\* SortControllerRevisions. Revisions with one number are told apart by their creation
\* time, to the second, and then by their names: either may be first.
Sorted(S) ==
    {s \in Bijection(1 .. Cardinality(S), S) : \A i, j \in DOMAIN s : i < j => s[i].num <= s[j].num}

Last(revisions) == revisions[Len(revisions)]

nextRevision(revisions) == IF revisions = <<>> THEN 1 ELSE Last(revisions).num + 1

newRevision(set, num) ==
    LET hash == Hash(set.template, set.collisions)
    IN [name |-> <<hash>>, label |-> hash, data |-> set.template, num |-> num, owned |-> TRUE]

Chosen(rev, collisions) == update' = [rev |-> {rev}, collisions |-> collisions]

AdoptControllerRevisions(S) == revs' = (revs \ S) \cup {[r EXCEPT !.owned = TRUE] : r \in S}

\* Sync up to adoptOrphanRevisions. A revision that changed after it was listed cannot
\* be adopted; those listed before it are.
AdoptOrphanRevisions ==
    LET orphans == {r \in listRevisions : ~r.owned}
    IN
    /\ step = "idle"
    /\ \/ /\ orphans \subseteq revs /\ AdoptControllerRevisions(orphans)
          /\ step' = "revisions" /\ read' = nodesetSeen
       \/ /\ ~(orphans \subseteq revs)
          /\ \E done \in SUBSET (orphans \cap revs) : AdoptControllerRevisions(done)
          /\ UNCHANGED <<step, read>>
    /\ UNCHANGED <<nodeset, cache, listed, update, changes>>

\* Faulty variant: a name that is taken is taken for the revision's own.
CreateControllerRevisionUnread(revision) ==
    LET name == <<Hash(revision.data, read.collisions)>>
        existing == {r \in revsSeen : r.name = name}
        taken == \E r \in revs : r.name = name
    IN
    \/ /\ ~taken
       /\ revs' = revs \cup {[revision EXCEPT !.name = name]}
       /\ Chosen([revision EXCEPT !.name = name], read.collisions)
       /\ step' = "truncate"
    \/ taken /\ \E r \in existing : Chosen(r, read.collisions) /\ UNCHANGED revs /\ step' = "truncate"
    \/ taken /\ existing = {} /\ step' = "idle" /\ UNCHANGED <<revs, update>>

\* CreateControllerRevision: a name taken by other data is left for the next one; the
\* label is not computed again. What is in place is read from the cache.
CreateControllerRevision(revision) ==
    LET name(c) == <<Hash(revision.data, c)>>
        taken(c) == \E r \in revs : r.name = name(c)
        existing(c) == {r \in revsSeen : r.name = name(c)}
        collides(c) == taken(c) /\ \E r \in existing(c) : r.data # revision.data
    IN
    \E c \in read.collisions .. MaxCollisions :
        /\ \A k \in read.collisions .. c - 1 : collides(k)
        /\ ~collides(c)
        /\ \/ /\ ~taken(c)
              /\ revs' = revs \cup {[revision EXCEPT !.name = name(c)]}
              /\ Chosen([revision EXCEPT !.name = name(c)], c)
              /\ step' = "truncate"
           \/ taken(c) /\ \E r \in existing(c) : Chosen(r, c) /\ UNCHANGED revs /\ step' = "truncate"
           \/ taken(c) /\ existing(c) = {} /\ step' = "idle" /\ UNCHANGED <<revs, update>>

\* Faulty variant: the revision that is rolled back to keeps its number.
UpdateControllerRevisionKept(revision, num) ==
    Chosen(revision, read.collisions) /\ step' = "truncate" /\ UNCHANGED revs

\* UpdateControllerRevision: a stale copy conflicts, and is read again from the cache
\* for a moment before the reconcile fails.
UpdateControllerRevision(revision, num) ==
    \/ /\ revision \in revs
       /\ revs' = (revs \ {revision}) \cup {[revision EXCEPT !.num = num]}
       /\ Chosen([revision EXCEPT !.num = num], read.collisions)
       /\ step' = "truncate"
    \/ revision \notin revs /\ step' = "idle" /\ UNCHANGED <<revs, update>>

\* FindEqualRevisions keeps the order: i is the last of the revisions with data d.
LastEqual(revisions, d, i) ==
    /\ revisions[i].data = d
    /\ \A j \in DOMAIN revisions : revisions[j].data = d => j <= i

\* listRevisions and getNodeSetRevisions.
GetNodeSetRevisions ==
    /\ step = "revisions"
    /\ \E revisions \in Sorted(listRevisions) :
          LET num == nextRevision(revisions)
              known == \E i \in DOMAIN revisions : revisions[i].data = read.template
          IN
          /\ \/ ~known /\ CreateControllerRevision(newRevision(read, num))
             \/ /\ known /\ Last(revisions).data = read.template
                /\ Chosen(Last(revisions), read.collisions)
                /\ step' = "truncate" /\ UNCHANGED revs
             \/ /\ known /\ Last(revisions).data # read.template
                /\ \E i \in DOMAIN revisions :
                      /\ LastEqual(revisions, read.template, i)
                      /\ UpdateControllerRevision(revisions[i], num)
          /\ listed' = IF step' = "idle" THEN <<>> ELSE revisions
          /\ read' = IF step' = "idle" THEN NothingRead ELSE read
    /\ UNCHANGED <<nodeset, cache, changes>>

Spend(f) == IF f THEN changes > 0 /\ changes' = changes - 1 ELSE changes' = changes

\* Faulty variant: one more is kept.
DoomedOneShort(history) == SubSeq(history, 1, Len(history) - Limit - 1)

\* The history beyond its limit, oldest first.
Doomed(history) == SubSeq(history, 1, Len(history) - Limit)

\* truncateHistory, up to the first revision that is gone already. It is not reached
\* when a step of sync fails or a pod is still expected.
TruncateHistory(skip) ==
    LET live == {r.name : r \in update.rev}
        history == SelectSeq(listed, LAMBDA r : r.name \notin live)
        doomed == Doomed(history)
        there(i) == \E r \in revs : r.name = doomed[i].name
        deleted == {doomed[i].name : i \in {j \in DOMAIN doomed : \A k \in 1 .. j : there(k)}}
    IN
    /\ step = "truncate"
    /\ step' = "status"
    /\ Spend(skip)
    /\ revs' = IF skip THEN revs ELSE {r \in revs : r.name \notin deleted}
    /\ UNCHANGED <<nodeset, cache, local>>

\* The update of a stale copy conflicts, and is tried again for a moment before the
\* reconcile fails.
updateNodeSetStatus(hash, collisions) ==
    nodeset' = IF nodesetSeen # nodeset THEN nodeset
               ELSE [nodeset EXCEPT !.hash = hash, !.collisions = collisions]

\* syncNodeSetStatus, the end of the reconcile.
SyncStatus(f) ==
    /\ step = "status"
    /\ step' = "idle"
    /\ Spend(f)
    /\ IF f THEN UNCHANGED nodeset
       ELSE \E r \in update.rev : updateNodeSetStatus(r.label, update.collisions)
    /\ listed' = <<>> /\ update' = NoUpdate /\ read' = NothingRead
    /\ UNCHANGED <<revs, cache>>

-----------------------------------------------------------------------------
(* The informers and the people around the NodeSet.                         *)

DeliverNodeSet ==
    /\ nodesetSeen # nodeset
    /\ nodesetSeen' = nodeset
    /\ UNCHANGED <<store, revsSeen, step, local, changes>>

DeliverRevisions ==
    /\ revsSeen # revs
    /\ revsSeen' = revs
    /\ UNCHANGED <<store, nodesetSeen, step, local, changes>>

Disturbs == changes > 0 /\ changes' = changes - 1

UserEdits ==
    /\ Disturbs
    /\ \E t \in Templates \ {nodeset.template} : nodeset' = [nodeset EXCEPT !.template = t]
    /\ UNCHANGED <<revs, cache, step, local>>

\* A revision loses its controller, or is deleted, by another hand.
UserOrphans ==
    /\ Disturbs
    /\ \E r \in revs : r.owned /\ revs' = (revs \ {r}) \cup {[r EXCEPT !.owned = FALSE]}
    /\ UNCHANGED <<nodeset, cache, step, local>>

UserDeletesRevision ==
    /\ Disturbs
    /\ \E r \in revs : revs' = revs \ {r}
    /\ UNCHANGED <<nodeset, cache, step, local>>

Reconcile ==
    \/ AdoptOrphanRevisions
    \/ GetNodeSetRevisions
    \/ \E f \in BOOLEAN : TruncateHistory(f) \/ SyncStatus(f)

Deliver == DeliverNodeSet \/ DeliverRevisions

Environment == UserEdits \/ UserOrphans \/ UserDeletesRevision

Next == Reconcile \/ Deliver \/ Environment

Spec == Init /\ [][Next]_vars

\* Reconciles go on, and each informer delivers what there is.
FairSpec ==
    /\ Spec
    /\ WF_vars(Reconcile) /\ WF_vars(DeliverNodeSet) /\ WF_vars(DeliverRevisions)

-----------------------------------------------------------------------------
\* The revision that this reconcile gives its pods the label of holds the template that
\* this reconcile read, whatever the names of revisions and the cache say.
UpdateRevisionFits == \A r \in update.rev : r.data = read.template

\* The revision of the last template is there, its label is in the status and, if the
\* revisions can be listed, no other revision has a higher number and none is an orphan.
RevisionRecorded ==
    \E r \in revs :
        /\ r.data = nodeset.template /\ nodeset.hash = r.label
        /\ Labelled => \A q \in revs : q.owned /\ q.num <= r.num

\* No more revisions of other templates than revisionHistoryLimit allows.
WithinLimit == Cardinality({r \in revs : r.data # nodeset.template}) <= Limit
=============================================================================
