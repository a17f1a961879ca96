----------------------------- MODULE NodeSetSync -----------------------------
(***************************************************************************)
(* The NodeSet reconciler in StatefulSet scaling mode, one NodeSet, one    *)
(* revision: internal/controller/nodeset/nodeset_sync.go with the pod      *)
(* event handler, the controller expectations and the Slurm client it      *)
(* acts through.                                                           *)
(*                                                                         *)
(* A reconcile (Sync) is not atomic. It lists the pods from the informer   *)
(* cache once, refreshes the Slurm node cache once, and then runs its      *)
(* steps pod by pod; every step works from that snapshot while pods, Slurm *)
(* nodes, Kubernetes nodes, users and administrators move on. "pc" is the  *)
(* step the reconciler is in and "batch" how far its SlowStartBatch is.    *)
(***************************************************************************)
EXTENDS Integers, Sequences, FiniteSets, SlurmControl, SlowStart, Expectations

CONSTANTS
    MaxReplicas,    \* bound: the largest spec.replicas a user asks for
    BurstReplicas,  \* burstReplicas (250 in the code)
    MaxLag,         \* bound: undelivered pod events when a reconcile starts
    MaxDisturb,     \* bound: number of disturbances and faults
    Disturb,        \* which disturbances the environment may cause
    Faults,         \* which calls may fail
    WriteThrough    \* whether a Slurm update refreshes the client's cached copy

ASSUME NodeSetSyncAssumption ==
    /\ MaxReplicas \in Nat \ {0}
    /\ BurstReplicas \in Nat \ {0}
    /\ MaxLag \in Nat \ {0}
    /\ MaxDisturb \in Nat
    /\ Disturb \subseteq {"scale", "cordonPod", "cordonNode", "drain", "undrain",
                          "kill", "fail", "client", "crash", "job"}
    /\ Faults \subseteq {"patch", "slurm", "create", "createLate", "delete"}
    /\ WriteThrough \in BOOLEAN

VARIABLES
    replicas,   \* spec.replicas of the NodeSet in the API server
    pod,        \* the worker pods in the API server, by ordinal
    kcordon,    \* whether the Kubernetes node under each ordinal is unschedulable
    watch,      \* pod events sent by the API server and not yet delivered, oldest first
    cache,      \* the operator's informer cache of the pods
    exp,        \* the NodeSet's entry in the controller expectations
    snode,      \* the Slurm nodes, as slurmctld has them
    scache,     \* the Slurm nodes, as cached by the operator's Slurm client
    newReg,     \* workers that registered since the Slurm nodes were last listed
    client,     \* whether the client map holds a Slurm client for the cluster
    pc,         \* the step of Sync the reconciler is in
    mode,       \* which caller the batch belongs to: doPodScale or doPodProcessing
    want,       \* spec.replicas as this reconcile read it
    snap,       \* the pods as this reconcile listed them
    batch,      \* the SlowStartBatch in progress
    plan,       \* the pods to keep, delete and create that doPodScale was given
    budget      \* disturbances and faults left

apiVars == <<replicas, pod, kcordon, watch>>
slurmVars == <<snode, scache, newReg>>
opVars == <<pc, mode, want, snap, batch, plan>>
vars == <<apiVars, cache, exp, slurmVars, client, opVars, budget>>

Ordinals == 0 .. (MaxReplicas - 1)

-----------------------------------------------------------------------------
(* Pods.  "Pending" pods have no Kubernetes node yet; "Running" pods are    *)
(* ready; "term" is the deletion timestamp and "cordon" the pod-cordon      *)
(* annotation.                                                              *)

NoPod == [phase |-> "None", term |-> FALSE, cordon |-> FALSE]
NewPod == [phase |-> "Pending", term |-> FALSE, cordon |-> FALSE]
RunningPod == [phase |-> "Running", term |-> FALSE, cordon |-> FALSE]
NoPods == [o \in Ordinals |-> NoPod]

Pods ==
    {NoPod} \cup
    [phase : {"Pending", "Running", "Failed"}, term : BOOLEAN, cordon : BOOLEAN]

PodsIn(pods) == {o \in Ordinals : pods[o] # NoPod}

\* A write to the API server sends an event when it changes the object.
WritePod(o, p) ==
    /\ pod' = [pod EXCEPT ![o] = p]
    /\ watch' = IF p = pod[o] THEN watch ELSE Append(watch, [ord |-> o, pod |-> p])

-----------------------------------------------------------------------------
(* Which pods a scale-in takes first: ActivePods.Less of utils/sort.go, of  *)
(* which the phase, the cordon and the ordinal are kept.  Two cordoned pods *)
(* of the same phase each precede the other in the code, so neither is      *)
(* certain to come first.                                                   *)

Weight(p) == CASE p.phase = "Pending" -> 0 [] p.phase = "Failed" -> 1 [] OTHER -> 2

Precedes(pods, o, q) ==
    \/ Weight(pods[o]) < Weight(pods[q])
    \/ /\ Weight(pods[o]) = Weight(pods[q])
       /\ \/ pods[o].cordon /\ ~pods[q].cordon
          \/ ~pods[o].cordon /\ ~pods[q].cordon /\ o > q

\* The possible results of SplitActivePods(S, n): n pods that come first.
SplitActivePods(pods, S, n) ==
    {D \in SUBSET S :
        /\ Cardinality(D) = n
        /\ \A d \in D : \A k \in S \ D : ~Precedes(pods, k, d)}

\* Faulty variant: a gap in the ordinals is not filled.
UnusedOrdinalsAbove(S, n) ==
    LET next == IF S = {} THEN 0 ELSE 1 + CHOOSE o \in S : \A q \in S : q <= o
    IN  next .. (next + n - 1)

\* The n lowest ordinals that no listed pod uses.
UnusedOrdinals(S, n) ==
    LET free == Ordinals \ S
    IN  {o \in free : Cardinality({q \in free : q < o}) < n}

\* Faulty variant: the burst limit is never reached.
ClampBelow(n) == IF n >= BurstReplicas THEN BurstReplicas - 1 ELSE n

\* At most burstReplicas pods are created or deleted at a time.
Clamp(n) == IF n > BurstReplicas THEN BurstReplicas ELSE n

-----------------------------------------------------------------------------
NoPlan == [keep |-> {}, del |-> {}, crt |-> {}]

PCs == {"idle", "refresh", "cordon", "pods", "uncordon", "create", "delete",
        "process", "nodes", "drift"}

\* Types of the state, with the counters of the expectations unbounded below.
TypeOK ==
    /\ replicas \in 0 .. MaxReplicas
    /\ pod \in [Ordinals -> Pods]
    /\ kcordon \in [Ordinals -> BOOLEAN]
    /\ watch \in Seq([ord : Ordinals, pod : Pods])
    /\ cache \in [Ordinals -> Pods]
    /\ exp \in [adds : Int, dels : Int, keys : SUBSET Ordinals, expired : BOOLEAN]
    /\ snode \in [Ordinals -> SlurmNodes]
    /\ scache \in [Ordinals -> SlurmNodes]
    /\ newReg \in SUBSET Ordinals
    /\ client \in BOOLEAN
    /\ pc \in PCs
    /\ mode \in {"scale", "process"}
    /\ want \in 0 .. MaxReplicas
    /\ snap \in [Ordinals -> Pods]
    /\ batch \in Batches(Ordinals)
    /\ plan \in [keep : SUBSET Ordinals, del : SUBSET Ordinals, crt : SUBSET Ordinals]
    /\ budget \in 0 .. MaxDisturb

\* A NodeSet at rest with as many running, registered workers as it asks for.
Init ==
    /\ replicas \in 0 .. MaxReplicas
    /\ pod = [o \in Ordinals |-> IF o < replicas THEN RunningPod ELSE NoPod]
    /\ kcordon = [o \in Ordinals |-> FALSE]
    /\ watch = <<>>
    /\ cache = pod
    /\ exp = NoExpectations
    /\ snode = [o \in Ordinals |->
                  IF o < replicas THEN [base |-> "IDLE", drain |-> FALSE, reason |-> "none"]
                  ELSE NoNode]
    /\ scache = snode
    /\ newReg = {}
    /\ client = TRUE
    /\ pc = "idle"
    /\ mode = "process"
    /\ want = 0
    /\ snap = NoPods
    /\ batch = NoBatch
    /\ plan = NoPlan
    /\ budget = MaxDisturb

-----------------------------------------------------------------------------
(* Calls.  "f" is the call that fails in this step, "none" if none does;    *)
(* "res" is what a call returns: "ok", "notfound" or "error".               *)

Results == {"ok", "notfound", "error"}

Spend(f) == IF f = "none" THEN budget' = budget ELSE budget > 0 /\ budget' = budget - 1

SlurmFails(f) == f = "slurm" /\ client

\* Update of a Slurm node by the operator.
UpdateNode(o, n) ==
    /\ snode' = [snode EXCEPT ![o] = n]
    /\ scache' = IF WriteThrough THEN [scache EXCEPT ![o] = n] ELSE scache
    /\ newReg' = IF WriteThrough THEN newReg \ {o} ELSE newReg

\* Faulty variant: the cached node is marked before the update, which may fail.
MakeNodeDrainAhead(o, reason, f, res) ==
    /\ res = IF SlurmFails(f) THEN "error" ELSE "ok"
    /\ IF ~SendsDrain(client, scache[o], reason) THEN UNCHANGED slurmVars
       ELSE IF SlurmFails(f)
       THEN scache' = [scache EXCEPT ![o] = Drained(@, reason)] /\ UNCHANGED <<snode, newReg>>
       ELSE UpdateNode(o, Drained(snode[o], reason))

MakeNodeDrain(o, reason, f, res) ==
    \/ SlurmFails(f) /\ res = "error" /\ UNCHANGED slurmVars
    \/ /\ ~SlurmFails(f)
       /\ res = "ok"
       /\ IF SendsDrain(client, scache[o], reason)
          THEN UpdateNode(o, Drained(snode[o], reason))
          ELSE UNCHANGED slurmVars

MakeNodeUndrain(o, reason, f, res) ==
    \/ SlurmFails(f) /\ res = "error" /\ UNCHANGED slurmVars
    \/ /\ ~SlurmFails(f)
       /\ res = "ok"
       /\ IF SendsUndrain(client, scache[o])
          THEN UpdateNode(o, Undrained(snode[o], reason))
          ELSE UNCHANGED slurmVars

\* makePodCordon and makePodUncordon: patch the annotation of the pod "p" the
\* caller holds, then re-read the pod, from the cache, into the snapshot.
SetPodCordon(o, p, v, f, res) ==
    \/ /\ p.cordon = v
       /\ res = "ok"
       /\ snap' = [snap EXCEPT ![o] = p]
       /\ UNCHANGED <<pod, watch>>
    \/ /\ p.cordon # v
       /\ res = IF f = "patch" THEN "error" ELSE "notfound"
       /\ f = "patch" \/ pod[o] = NoPod
       /\ snap' = [snap EXCEPT ![o] = p]
       /\ UNCHANGED <<pod, watch>>
    \/ /\ p.cordon # v
       /\ f # "patch"
       /\ pod[o] # NoPod
       /\ WritePod(o, [pod[o] EXCEPT !.cordon = v])
       /\ res = IF cache[o] = NoPod THEN "notfound" ELSE "ok"
       /\ snap' = [snap EXCEPT ![o] = IF cache[o] = NoPod THEN p ELSE cache[o]]

MakePodCordonAndDrain(o, p, reason, f, res) ==
    \E r \in Results :
        /\ SetPodCordon(o, p, TRUE, f, r)
        /\ IF r = "ok" THEN MakeNodeDrain(o, reason, f, res)
           ELSE res = r /\ UNCHANGED slurmVars

MakePodUncordonAndUndrain(o, p, f, res) ==
    \E r \in Results :
        /\ SetPodCordon(o, p, FALSE, f, r)
        /\ IF r = "ok" /\ (SlurmFails(f) \/ IsNodeDrain(client, scache[o]))
           THEN MakeNodeUndrain(o, "uncordon", f, res)
           ELSE res = r /\ UNCHANGED slurmVars

\* Deleting a pod only sets its deletion timestamp; the kubelet removes it.
DeletePod(o, f, res) ==
    \/ f = "delete" /\ res = "error" /\ UNCHANGED <<pod, watch>>
    \/ f # "delete" /\ pod[o] = NoPod /\ res = "notfound" /\ UNCHANGED <<pod, watch>>
    \/ f # "delete" /\ pod[o] # NoPod /\ res = "ok" /\ WritePod(o, [pod[o] EXCEPT !.term = TRUE])

\* The end of one pod's turn in a SlowStartBatch.
BatchNext(o, res) == batch' = CallReturns(batch, o, res = "ok")

-----------------------------------------------------------------------------
(* The reconciler.                                                          *)

EndSync ==
    /\ pc' = "idle"
    /\ want' = 0
    /\ snap' = NoPods
    /\ batch' = NoBatch
    /\ plan' = NoPlan
    /\ UNCHANGED mode

\* Sync: list the pods and go on if the expectations are satisfied. Otherwise
\* only the status is synchronised, which changes nothing here.
Sync ==
    /\ pc = "idle"
    /\ Len(watch) <= MaxLag
    /\ SatisfiedExpectations(exp)
    /\ pc' = "refresh"
    /\ want' = replicas
    /\ snap' = cache
    /\ UNCHANGED <<apiVars, cache, exp, slurmVars, client, mode, batch, plan, budget>>

\* The RefreshNodeCache step, the only one whose error stops the steps.
RefreshNodeCache(f) ==
    /\ pc = "refresh"
    /\ Spend(f)
    /\ UNCHANGED <<apiVars, cache, exp, snode, client>>
    /\ \/ SlurmFails(f) /\ EndSync /\ UNCHANGED <<scache, newReg>>
       \/ /\ f = "none"
          /\ scache' = IF client THEN snode ELSE scache
          /\ newReg' = IF client THEN {} ELSE newReg
          /\ pc' = "cordon"
          /\ batch' = StartBatch(PodsIn(snap))
          /\ UNCHANGED <<mode, want, snap, plan>>

\* syncCordon for one pod: propagate a cordon of its Kubernetes node, or its own
\* pod-cordon annotation, to its Slurm node.
SyncCordon(o, f) ==
    LET p == snap[o]
        node == scache[o]
    IN
    /\ pc = "cordon"
    /\ o \in batch.todo
    /\ Spend(f)
    /\ UNCHANGED <<replicas, kcordon, cache, exp, client, pc, mode, want, plan>>
    /\ \E res \in Results :
        /\ BatchNext(o, res)
        /\ \/ /\ p.phase = "Pending"
              /\ res = "ok"
              /\ UNCHANGED <<pod, watch, snap, slurmVars>>
           \/ /\ p.phase # "Pending"
              /\ SlurmFails(f)
              /\ res = "error"
              /\ UNCHANGED <<pod, watch, snap, slurmVars>>
           \/ /\ p.phase # "Pending"
              /\ ~IsNodeReasonOurs(client, node) \/ IsNodeDownForUnresponsive(client, node)
              /\ res = "ok"
              /\ UNCHANGED <<pod, watch, snap, slurmVars>>
           \/ /\ p.phase # "Pending"
              /\ IsNodeReasonOurs(client, node) /\ ~IsNodeDownForUnresponsive(client, node)
              /\ IF kcordon[o]
                 THEN MakePodCordonAndDrain(o, p, "node", f, res)
                 ELSE /\ IF p.cordon
                         THEN MakeNodeDrain(o, "pod", f, res)
                         ELSE MakeNodeUndrain(o, "uncordon", f, res)
                      /\ UNCHANGED <<pod, watch, snap>>

CordonDone ==
    /\ pc = "cordon"
    /\ batch.todo = {}
    /\ pc' = "pods"
    /\ batch' = NoBatch
    /\ UNCHANGED <<apiVars, cache, exp, slurmVars, client, mode, want, snap, plan, budget>>

\* doPodScale up to its first batch: the expectations are raised for all that is
\* to be deleted and created, in one burst, before anything is attempted.
DoPodScale(keep, del, crt) ==
    /\ mode' = "scale"
    /\ plan' = [keep |-> keep, del |-> del, crt |-> crt]
    /\ exp' = RaiseCreations(ExpectDeletions(del), Cardinality(crt))
    /\ batch' = StartBatch(keep)
    /\ pc' = "uncordon"

\* doPodProcessing up to its first batch. No pod is of an old revision, so
\* splitUpdatePods keeps every pod that is not terminating.
DoPodProcessing(keep) ==
    /\ mode' = "process"
    /\ plan' = [keep |-> keep, del |-> {}, crt |-> {}]
    /\ exp' = SetExpectations(exp)
    /\ batch' = StartBatch(keep)
    /\ pc' = "uncordon"

\* Faulty variant: terminating pods do not count as replicas.
SyncNodeSetPodsLive ==
    LET listed == PodsIn(snap)
        diff == Cardinality({o \in listed : ~snap[o].term}) - want
    IN
    /\ pc = "pods"
    /\ UNCHANGED <<apiVars, cache, slurmVars, client, want, snap, budget>>
    /\ \/ /\ diff < 0
          /\ DoPodScale(listed, {}, UnusedOrdinals(listed, Clamp(-diff)))
       \/ /\ diff > 0
          /\ \E D \in SplitActivePods(snap, listed, diff) :
             \E B \in SplitActivePods(snap, D, Clamp(diff)) :
                DoPodScale(listed \ D, B, {})
       \/ /\ diff = 0
          /\ DoPodProcessing({o \in listed : ~snap[o].term})

\* syncNodeSetPods: compare the listed pods, terminating ones included, with the
\* replicas that were asked for.
SyncNodeSetPods ==
    LET listed == PodsIn(snap)
        diff == Cardinality(listed) - want
    IN
    /\ pc = "pods"
    /\ UNCHANGED <<apiVars, cache, slurmVars, client, want, snap, budget>>
    /\ \/ /\ diff < 0
          /\ DoPodScale(listed, {}, UnusedOrdinals(listed, Clamp(-diff)))
       \/ /\ diff > 0
          /\ \E D \in SplitActivePods(snap, listed, diff) :
             \E B \in SplitActivePods(snap, D, Clamp(diff)) :
                DoPodScale(listed \ D, B, {})
       \/ /\ diff = 0
          /\ DoPodProcessing({o \in listed : ~snap[o].term})

\* syncPodUncordon for one pod that is kept.
SyncPodUncordon(o, f) ==
    LET p == snap[o]
        nodeIsCordoned == p.phase # "Pending" /\ kcordon[o]
        ours == IsNodeReasonOurs(client, scache[o])
    IN
    /\ pc = "uncordon"
    /\ o \in batch.todo
    /\ Spend(f)
    /\ UNCHANGED <<replicas, kcordon, cache, exp, client, pc, mode, want, plan>>
    /\ \E res \in Results :
        /\ BatchNext(o, res)
        /\ \/ /\ nodeIsCordoned \/ (~SlurmFails(f) /\ ~ours)
              /\ res = "ok"
              /\ UNCHANGED <<pod, watch, snap, slurmVars>>
           \/ /\ ~nodeIsCordoned /\ SlurmFails(f)
              /\ res = "error"
              /\ UNCHANGED <<pod, watch, snap, slurmVars>>
           \/ /\ ~nodeIsCordoned /\ ours
              /\ MakePodUncordonAndUndrain(o, p, f, res)

\* In doPodScale an error of the batch returns at once, with the expectations as they
\* were raised; in doPodProcessing it is only collected.
UncordonDone ==
    /\ pc = "uncordon"
    /\ batch.todo = {}
    /\ \/ mode = "scale" /\ ~batch.failed /\ pc' = "create" /\ batch' = StartBatch(plan.crt)
       \/ mode = "scale" /\ batch.failed /\ pc' = "nodes" /\ batch' = NoBatch
       \/ mode = "process" /\ pc' = "process" /\ batch' = StartBatch(PodsIn(snap))
    /\ UNCHANGED <<apiVars, cache, exp, slurmVars, client, mode, want, snap, plan, budget>>

\* CreateNodeSetPod for one ordinal. It may fail before the pod is created, because
\* the pod exists, or after it was created ("createLate": the claims' owners could
\* not be updated).
CreateNodeSetPod(o, f) ==
    LET fails == f \in {"create", "createLate"} \/ pod[o] # NoPod
    IN
    /\ pc = "create"
    /\ o \in batch.todo
    /\ Spend(f)
    /\ IF pod[o] = NoPod /\ f # "create" THEN WritePod(o, NewPod) ELSE UNCHANGED <<pod, watch>>
    /\ BatchNext(o, IF fails THEN "error" ELSE "ok")
    /\ UNCHANGED <<replicas, kcordon, cache, exp, slurmVars, client, pc, mode, want, snap, plan>>

\* The creations that failed or were never attempted are no longer expected.
CreateDone ==
    /\ pc = "create"
    /\ batch.todo = {}
    /\ pc' = "delete"
    /\ batch' = StartBatch(plan.del)
    /\ exp' = LowerCreations(exp, Cardinality(plan.crt) - batch.ok)
    /\ UNCHANGED <<apiVars, cache, slurmVars, client, mode, want, snap, plan, budget>>

\* processCondemned for one pod, and the expectation it lowers: the pod is deleted
\* if its Slurm node is drained, and cordoned and drained otherwise. An error stops
\* the batch unless it says that the pod is gone.
ProcessCondemned(o, f) ==
    LET p == cache[o]
        drained == IsNodeDrained(client, scache[o])
    IN
    /\ pc = "delete"
    /\ o \in batch.todo
    /\ Spend(f)
    /\ UNCHANGED <<replicas, kcordon, cache, client, pc, mode, want, plan>>
    /\ \E res \in Results :
        /\ BatchNext(o, IF res = "error" THEN "error" ELSE "ok")
        /\ \/ /\ p = NoPod
              /\ res = "notfound"
              /\ exp' = DeletionObserved(exp, o)
              /\ UNCHANGED <<pod, watch, snap, slurmVars>>
           \/ /\ p # NoPod /\ p.term
              /\ res = "ok"
              /\ snap' = [snap EXCEPT ![o] = p]
              /\ UNCHANGED <<pod, watch, exp, slurmVars>>
           \/ /\ p # NoPod /\ ~p.term /\ SlurmFails(f)
              /\ res = "error"
              /\ exp' = DeletionObserved(exp, o)
              /\ snap' = [snap EXCEPT ![o] = p]
              /\ UNCHANGED <<pod, watch, slurmVars>>
           \/ /\ p # NoPod /\ ~p.term /\ ~drained
              /\ exp' = DeletionObserved(exp, o)
              /\ MakePodCordonAndDrain(o, p, "term", f, res)
           \/ /\ p # NoPod /\ ~p.term /\ ~SlurmFails(f) /\ drained
              /\ DeletePod(o, f, res)
              /\ exp' = IF res = "error" THEN DeletionObserved(exp, o) ELSE exp
              /\ snap' = [snap EXCEPT ![o] = p]
              /\ UNCHANGED slurmVars

DeleteDone ==
    /\ pc = "delete"
    /\ batch.todo = {}
    /\ pc' = "nodes"
    /\ batch' = NoBatch
    /\ UNCHANGED <<apiVars, cache, exp, slurmVars, client, mode, want, snap, plan, budget>>

\* processNodeSetPod for one pod: a failed pod is deleted, without a drain, to be
\* created again by a later reconcile; any other has its identity and storage
\* updated, which changes nothing here.
ProcessNodeSetPod(o, f) ==
    /\ pc = "process"
    /\ o \in batch.todo
    /\ Spend(f)
    /\ UNCHANGED <<replicas, kcordon, cache, exp, slurmVars, client, pc, mode, want, snap, plan>>
    /\ \E res \in Results :
        /\ BatchNext(o, res)
        /\ IF snap[o].phase = "Failed" /\ ~snap[o].term
           THEN DeletePod(o, f, res)
           ELSE /\ res = IF f = "patch" /\ snap[o].phase # "Failed" THEN "error" ELSE "ok"
                /\ UNCHANGED <<pod, watch>>

ProcessDone ==
    /\ pc = "process"
    /\ batch.todo = {}
    /\ pc' = "nodes"
    /\ batch' = NoBatch
    /\ UNCHANGED <<apiVars, cache, exp, slurmVars, client, mode, want, snap, plan, budget>>

\* syncSlurmNodes: healthy pods whose Slurm node is not registered are deleted, so
\* that their replacement registers.
SyncSlurmNodes ==
    /\ pc = "nodes"
    /\ pc' = "drift"
    /\ batch' = StartBatch({o \in PodsIn(snap) :
                    client /\ scache[o] = NoNode /\ snap[o].phase = "Running" /\ ~snap[o].term})
    /\ UNCHANGED <<apiVars, cache, exp, slurmVars, client, mode, want, snap, plan, budget>>

DeleteUnregistered(o, f) ==
    /\ pc = "drift"
    /\ o \in batch.todo
    /\ Spend(f)
    /\ \E res \in Results :
        /\ DeletePod(o, f, res)
        /\ BatchNext(o, IF res = "error" THEN "error" ELSE "ok")
    /\ UNCHANGED <<replicas, kcordon, cache, exp, slurmVars, client, pc, mode, want, snap, plan>>

SyncDone ==
    /\ pc = "drift"
    /\ batch.todo = {}
    /\ EndSync
    /\ UNCHANGED <<apiVars, cache, exp, slurmVars, client, budget>>

-----------------------------------------------------------------------------
(* The pod event handler and the informer behind it.                        *)

\* createPod, updatePod and deletePod on a pod the NodeSet owns.
HandlePodEvent(old, new, o) ==
    IF new = NoPod \/ new.term THEN DeletionObserved(exp, o)
    ELSE IF old = NoPod THEN LowerCreations(exp, 1)
    ELSE exp

Deliver ==
    /\ watch # <<>>
    /\ LET e == Head(watch)
       IN  /\ cache' = [cache EXCEPT ![e.ord] = e.pod]
           /\ exp' = HandlePodEvent(cache[e.ord], e.pod, e.ord)
    /\ watch' = Tail(watch)
    /\ UNCHANGED <<replicas, pod, kcordon, slurmVars, client, opVars, budget>>

\* Five minutes pass. They are longer than the informer lags and than a reconcile
\* takes.
Expire ==
    /\ pc = "idle"
    /\ watch = <<>>
    /\ ~SatisfiedExpectations(exp)
    /\ exp' = [exp EXCEPT !.expired = TRUE]
    /\ UNCHANGED <<apiVars, cache, slurmVars, client, opVars, budget>>

-----------------------------------------------------------------------------
(* The kubelet, slurmd, slurmctld and the Slurm client's background poll.   *)

PodRuns(o) ==
    /\ pod[o].phase = "Pending" /\ ~pod[o].term /\ ~kcordon[o]
    /\ WritePod(o, [pod[o] EXCEPT !.phase = "Running"])
    /\ UNCHANGED <<replicas, kcordon, cache, exp, slurmVars, client, opVars, budget>>

\* slurmd -Z registers. A record left by an earlier pod of the ordinal returns to
\* service, and may or may not still be drained.
Register(o) ==
    /\ pod[o].phase = "Running" /\ ~pod[o].term
    /\ snode[o].base \in {"NONE", "DOWN", "NORESP"}
    /\ \E d \in {FALSE, snode[o].drain} :
        snode' = [snode EXCEPT ![o] =
                    [base |-> "IDLE", drain |-> d, reason |-> IF d THEN @.reason ELSE "none"]]
    /\ newReg' = newReg \cup {o}
    /\ UNCHANGED <<apiVars, cache, exp, scache, client, opVars, budget>>

\* slurmctld schedules no work on a drained node. Jobs are not budgeted.
StartJob(o) ==
    /\ "job" \in Disturb
    /\ snode[o].base = "IDLE" /\ ~snode[o].drain
    /\ snode' = [snode EXCEPT ![o].base = "BUSY"]
    /\ UNCHANGED <<apiVars, cache, exp, scache, newReg, client, opVars, budget>>

EndJob(o) ==
    /\ snode[o].base = "BUSY"
    /\ snode' = [snode EXCEPT ![o].base = "IDLE"]
    /\ UNCHANGED <<apiVars, cache, exp, scache, newReg, client, opVars, budget>>

\* The kubelet stops a terminating pod: its preStop hook sets the Slurm node DOWN
\* with a reason of its own, and the pod is removed.
PodGone(o) ==
    /\ pod[o].term
    /\ WritePod(o, NoPod)
    /\ snode' = IF snode[o].base \in {"IDLE", "BUSY"}
                THEN [snode EXCEPT ![o] = [base |-> "DOWN", drain |-> @.drain, reason |-> "ext"]]
                ELSE snode
    /\ UNCHANGED <<replicas, kcordon, cache, exp, scache, newReg, client, opVars, budget>>

PollSlurm ==
    /\ client
    /\ scache' = snode
    /\ newReg' = {}
    /\ UNCHANGED <<apiVars, cache, exp, snode, client, opVars, budget>>

-----------------------------------------------------------------------------
(* Disturbances, each of which spends from the budget.                      *)

Disturbs(kind) == kind \in Disturb /\ budget > 0 /\ budget' = budget - 1

UserScales ==
    /\ Disturbs("scale")
    /\ replicas' \in (0 .. MaxReplicas) \ {replicas}
    /\ UNCHANGED <<pod, kcordon, watch, cache, exp, slurmVars, client, opVars>>

UserCordonsPod(o) ==
    /\ Disturbs("cordonPod")
    /\ pod[o] # NoPod
    /\ WritePod(o, [pod[o] EXCEPT !.cordon = ~@])
    /\ UNCHANGED <<replicas, kcordon, cache, exp, slurmVars, client, opVars>>

UserCordonsNode(o) ==
    /\ Disturbs("cordonNode")
    /\ kcordon' = [kcordon EXCEPT ![o] = ~@]
    /\ UNCHANGED <<replicas, pod, watch, cache, exp, slurmVars, client, opVars>>

\* An administrator drains a node with scontrol, and puts one back into service.
AdminDrains(o) ==
    /\ Disturbs("drain")
    /\ snode[o].base \in {"IDLE", "BUSY"}
    /\ snode' = [snode EXCEPT ![o] = Drained(@, "ext")]
    /\ UNCHANGED <<apiVars, cache, exp, scache, newReg, client, opVars>>

AdminUndrains(o) ==
    /\ Disturbs("undrain")
    /\ snode[o].base \in {"IDLE", "BUSY"} /\ snode[o].drain
    /\ snode' = [snode EXCEPT ![o] = Undrained(@, "none")]
    /\ UNCHANGED <<apiVars, cache, exp, scache, newReg, client, opVars>>

\* A pod is deleted or evicted by someone else.
PodKilled(o) ==
    /\ Disturbs("kill")
    /\ pod[o] # NoPod /\ ~pod[o].term
    /\ WritePod(o, [pod[o] EXCEPT !.term = TRUE])
    /\ UNCHANGED <<replicas, kcordon, cache, exp, slurmVars, client, opVars>>

\* A pod fails with its slurmd: its Slurm node stops responding.
PodFails(o) ==
    /\ Disturbs("fail")
    /\ pod[o].phase = "Running" /\ ~pod[o].term
    /\ WritePod(o, [pod[o] EXCEPT !.phase = "Failed"])
    /\ snode' = IF snode[o].base \in {"IDLE", "BUSY"}
                THEN [snode EXCEPT ![o] =
                        [base |-> "NORESP", drain |-> @.drain,
                         reason |-> IF @.reason = "none" THEN "ext" ELSE @.reason]]
                ELSE snode
    /\ UNCHANGED <<replicas, kcordon, cache, exp, scache, newReg, client, opVars>>

\* The cluster's Slurm client leaves the client map, and comes back with a new cache.
ClientChanges ==
    /\ Disturbs("client")
    /\ client' = ~client
    /\ scache' = IF client THEN scache ELSE snode
    /\ newReg' = IF client THEN newReg ELSE {}
    /\ UNCHANGED <<apiVars, cache, exp, snode, opVars>>

\* The operator restarts: what it held in memory is gone and the informer lists anew.
Restart ==
    /\ Disturbs("crash")
    /\ watch' = <<>>
    /\ cache' = pod
    /\ exp' = NoExpectations
    /\ scache' = snode
    /\ newReg' = {}
    /\ EndSync
    /\ UNCHANGED <<replicas, pod, kcordon, snode, client>>

-----------------------------------------------------------------------------
Failing(kinds) == {"none"} \cup (kinds \cap Faults)

Reconcile ==
    \/ Sync
    \/ \E f \in Failing({"slurm"}) : RefreshNodeCache(f)
    \/ \E o \in Ordinals, f \in Failing({"patch", "slurm"}) : SyncCordon(o, f)
    \/ CordonDone
    \/ SyncNodeSetPods
    \/ \E o \in Ordinals, f \in Failing({"patch", "slurm"}) : SyncPodUncordon(o, f)
    \/ UncordonDone
    \/ \E o \in Ordinals, f \in Failing({"create", "createLate"}) : CreateNodeSetPod(o, f)
    \/ CreateDone
    \/ \E o \in Ordinals, f \in Failing({"patch", "slurm", "delete"}) : ProcessCondemned(o, f)
    \/ DeleteDone
    \/ \E o \in Ordinals, f \in Failing({"patch", "delete"}) : ProcessNodeSetPod(o, f)
    \/ ProcessDone
    \/ SyncSlurmNodes
    \/ \E o \in Ordinals, f \in Failing({"delete"}) : DeleteUnregistered(o, f)
    \/ SyncDone

Cluster ==
    \/ Deliver
    \/ Expire
    \/ PollSlurm
    \/ \E o \in Ordinals :
        PodRuns(o) \/ Register(o) \/ StartJob(o) \/ EndJob(o) \/ PodGone(o)

Disturbance ==
    \/ UserScales
    \/ ClientChanges
    \/ Restart
    \/ \E o \in Ordinals :
        \/ UserCordonsPod(o) \/ UserCordonsNode(o) \/ AdminDrains(o)
        \/ AdminUndrains(o) \/ PodKilled(o) \/ PodFails(o)

Next == Reconcile \/ Cluster \/ Disturbance

Spec == Init /\ [][Next]_vars

\* A reconcile that can take its next step takes it: Sync pushes a 30 second requeue
\* on every pass and an error is requeued by the work queue. Events are delivered,
\* expectations expire, jobs end (they have a time limit), the kubelet runs and stops
\* pods. slurmd registers under strong fairness: syncSlurmNodes may delete the pod
\* first, again and again, but not forever.
EnvironmentFairness ==
    /\ WF_vars(Deliver)
    /\ WF_vars(Expire)
    /\ \A o \in Ordinals :
        /\ WF_vars(EndJob(o))
        /\ WF_vars(PodRuns(o))
        /\ WF_vars(PodGone(o))
        /\ SF_vars(Register(o))

Fairness == WF_vars(Reconcile) /\ EnvironmentFairness

FairSpec == Spec /\ Fairness

-----------------------------------------------------------------------------
(* Properties.                                                              *)

\* A node that has no work and, unless it is resumed or registers, gets none.
Quiet(n) == n.base \in {"DOWN", "NORESP"} \/ (n.base = "IDLE" /\ n.drain)

\* What the reconciler may rely on between two listings of the Slurm nodes, when the
\* client's updates refresh its cache and no administrator resumes a node the operator
\* drained. For a worker that has not registered since the last listing: a node known
\* to the cache is known to Slurm and the other way round, and one that is drained and
\* idle in the cache cannot be running work.
SlurmCacheSound ==
    \A o \in Ordinals :
        /\ scache[o] # NoNode => snode[o] # NoNode
        /\ o \notin newReg =>
            /\ scache[o] = NoNode => snode[o] = NoNode
            /\ scache[o].drain /\ scache[o].base # "BUSY" => Quiet(snode[o])

\* The step in which processCondemned deletes pod o.
CondemnedDelete(o) ==
    pc = "delete" /\ o \in batch.todo /\ o \notin batch'.todo /\ ~pod[o].term /\ pod'[o].term

\* Scale-in kills no job: when processCondemned deletes a pod on the word of a Slurm
\* cache that is older than the check, the Slurm node has no work at that very moment,
\* unless slurmd registered after the nodes were last listed.
NoJobKilledByScaleIn ==
    [][\A o \in Ordinals :
        CondemnedDelete(o) /\ client /\ o \notin newReg => snode[o].base # "BUSY"]_vars

\* However far the informer lags behind, a creation never brings the NodeSet above the
\* replicas the reconcile was asked for, terminating pods included: that is what the
\* expectations and the count of syncNodeSetPods are for. It takes creations that fail
\* only before the pod is there: one that fails later is no longer expected, so the next
\* reconcile may start from a cache without that pod, and create another in its place.
CreateNeverOvershoots ==
    [][\A o \in Ordinals :
        "createLate" \notin Faults /\ pod[o] = NoPod /\ pod'[o] # NoPod
            => Cardinality(PodsIn(pod')) <= want]_vars

\* The pod of event i before that event.
Before(i) ==
    LET earlier == {j \in 1 .. (i - 1) : watch[j].ord = watch[i].ord}
    IN  IF earlier = {} THEN cache[watch[i].ord]
        ELSE watch[CHOOSE j \in earlier : \A k \in earlier : k <= j].pod

CreationsInFlight ==
    {i \in DOMAIN watch : watch[i].pod # NoPod /\ ~watch[i].pod.term /\ Before(i) = NoPod}

\* Between reconciles no creation is awaited that no event will announce: a creation
\* that doPodScale still expects was made, and its event is on the way. A NodeSet with a
\* phantom sleeps until the expectations expire.
NoPhantomCreation ==
    pc = "idle" => exp.adds <= Cardinality(CreationsInFlight)

\* Once users and faults leave it alone, the NodeSet settles at the number of pods it
\* asks for, and none of them is terminating or has failed.
Converges ==
    <>[](/\ Cardinality(PodsIn(pod)) = replicas
         /\ \A o \in Ordinals : ~pod[o].term /\ pod[o].phase # "Failed")

InService(o) == pod[o].phase = "Running" /\ ~pod[o].term /\ snode[o].base \in {"IDLE", "BUSY"}

\* The cordon of a Kubernetes node reaches Slurm and its uncordon does too: a worker
\* that stays in service under the operator's own reason ends up drained exactly if
\* its Kubernetes node stays cordoned, or its pod does.
CordonReachesSlurm ==
    \A o \in Ordinals :
        /\ <>[](InService(o) /\ snode[o].reason # "ext" /\ kcordon[o]) => <>[]snode[o].drain
        /\ <>[](InService(o) /\ snode[o].reason # "ext" /\ ~kcordon[o] /\ ~pod[o].cordon)
              => <>[]~snode[o].drain
=============================================================================
