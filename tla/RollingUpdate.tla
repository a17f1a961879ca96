---------------------------- MODULE RollingUpdate ----------------------------
(***************************************************************************)
(* A NodeSet whose pod template has changed, in StatefulSet scaling mode:  *)
(* syncUpdate of internal/controller/nodeset/nodeset_sync.go with the      *)
(* steps of sync that act on the same pods, and the order in which pods    *)
(* are given up (utils/sort.go).                                           *)
(*                                                                         *)
(* NodeSetSync interleaves the pods of one step and lets calls fail. Here  *)
(* a reconcile has four steps, each of which handles its pods together:    *)
(* "sync" (list, refresh, deadlines, cordons), "pods" (syncNodeSetPods up  *)
(* to the uncordoning), "scale" (the rest of it) and "update".             *)
(* No call fails, the client is connected and its updates refresh its      *)
(* cache.  A pod becomes ready when its slurmd has registered, so          *)
(* syncSlurmNodes finds nothing to delete.                                 *)
(***************************************************************************)
EXTENDS Integers, FiniteSets, SlurmControl, Expectations

CONSTANTS
    MaxReplicas,     \* bound: the largest spec.replicas a user asks for
    MaxUnavailable,  \* spec.updateStrategy.rollingUpdate.maxUnavailable, as a number of pods
    MaxDeadline,     \* bound: the number of different times at which jobs end
    MaxDisturb,      \* bound: the number of disturbances
    Settings         \* the settings in which the update is looked at

\* A setting has the update strategy (spec.updateStrategy.type), the disturbances that
\* may happen and the smallest spec.replicas a user asks for.
ASSUME RollingAssumption ==
    /\ MaxReplicas \in Nat
    /\ MaxUnavailable \in Nat
    /\ MaxDeadline \in Nat
    /\ MaxDisturb \in Nat
    /\ Settings \subseteq [strategy : {"RollingUpdate", "OnDelete"},
                           disturb : SUBSET {"job", "scale", "unready", "kill"}, least : Nat]

VARIABLES
    setting,    \* the setting of this behaviour
    replicas,   \* spec.replicas
    pod,        \* the worker pods in the API server, by ordinal
    cache,      \* the operator's informer cache of the pods
    exp,        \* the NodeSet's entry in the controller expectations
    snode,      \* the Slurm nodes, as slurmctld has them
    scache,     \* the Slurm nodes, as cached by the Slurm client
    until,      \* when the jobs of each Slurm node end, 0 if it has none
    pc,         \* the step of Sync the reconciler is in
    want,       \* spec.replicas as this reconcile read it
    snap,       \* the pods as this reconcile holds them
    plan,       \* the pods that doPodScale is to delete and to create
    budget      \* disturbances left

slurmVars == <<snode, scache>>
opVars == <<pc, want, snap, plan>>
vars == <<setting, replicas, pod, cache, exp, slurmVars, until, opVars, budget>>

Ordinals == 0 .. (MaxReplicas - 1)

-----------------------------------------------------------------------------
(* Pods.  "at" is Pending, Unready (running, not ready) or Ready; "old"     *)
(* tells that the revision label is not the hash of the current template;   *)
(* "deadline" is the pod-deadline annotation, 0 if it is not set.           *)

Deadlines == 0 .. MaxDeadline
NoPod == [at |-> "None", term |-> FALSE, cordon |-> FALSE, deadline |-> 0, old |-> FALSE]
NewPod == [NoPod EXCEPT !.at = "Pending"]
NoPlan == [delete |-> {}, create |-> {}]
NoPods == [o \in Ordinals |-> NoPod]

Pods ==
    {NoPod} \cup
    [at : {"Pending", "Unready", "Ready"}, term : BOOLEAN, cordon : BOOLEAN,
     deadline : Deadlines, old : BOOLEAN]

PodsIn(pods) == {o \in Ordinals : pods[o] # NoPod}

\* podutils.IsHealthy and podutil.IsPodAvailable, of a pod that is not terminating
\* (minReadySeconds is 0).
IsHealthy(p) == p.at = "Ready"

Weight(p) == CASE p.at = "Pending" -> 0 [] p.at = "Unready" -> 1 [] OTHER -> 2

\* ActivePods.Less: Pending before running, not ready before ready, an earlier deadline
\* (none is the earliest) before a later one, cordoned before not, higher ordinals
\* first. Two cordoned pods each precede the other in the code, so neither is certain
\* to come first.
Precedes(pods, o, q) ==
    LET a == pods[o]
        b == pods[q]
    IN  \/ Weight(a) < Weight(b)
        \/ Weight(a) = Weight(b) /\ a.deadline < b.deadline
        \/ /\ Weight(a) = Weight(b) /\ a.deadline = b.deadline
           /\ \/ a.cordon /\ ~b.cordon
              \/ ~a.cordon /\ ~b.cordon /\ o > q

\* The possible results of SplitActivePods(S, n). The sort turns two pods round that
\* precede each other: when the list comes sorted by age, the younger goes first.
SplitActivePods(pods, S, n, byAge) ==
    {D \in SUBSET S :
        /\ Cardinality(D) = IF n > Cardinality(S) THEN Cardinality(S) ELSE n
        /\ \A d \in D : \A k \in S \ D :
            /\ ~Precedes(pods, k, d)
            /\ byAge => Precedes(pods, d, k) \/ d > k}

\* SplitUnhealthyPods: as many pods as are unhealthy, and of these the oldest ones. The
\* pods of one scale-out have the same creation time, so their names decide.
SplitUnhealthyPods(pods, S) ==
    LET n == Cardinality({o \in S : ~IsHealthy(pods[o])})
    IN  {o \in S : Cardinality({q \in S : q < o}) < n}

\* findUpdatedPods: terminating pods are neither new nor old.
NewPods(pods, S) == {o \in S : ~pods[o].term /\ ~pods[o].old}
OldPods(pods, S) == {o \in S : ~pods[o].term /\ pods[o].old}

\* Faulty variant: new pods that are not available yet do not count.
remainingUnavailableAll(pods, S) == MaxUnavailable

remainingUnavailable(pods, S) ==
    LET n == MaxUnavailable - Cardinality({o \in NewPods(pods, S) : ~IsHealthy(pods[o])})
    IN  IF n < 0 THEN 0 ELSE n

\* Faulty variant: the pods to delete are kept until they are gone.
splitUpdatePodsKept(pods, S, byAge) ==
    {[delete |-> D, keep |-> NewPods(pods, S) \cup OldPods(pods, S)] :
        D \in SplitActivePods(pods, OldPods(pods, S), remainingUnavailable(pods, S), byAge)}

\* The possible results of splitUpdatePods under RollingUpdate: the old pods to delete.
\* All others that are not terminating are to be kept. Under OnDelete both lists are
\* empty.
splitUpdatePods(pods, S, byAge) ==
    IF setting.strategy = "OnDelete" THEN {[delete |-> {}, keep |-> {}]}
    ELSE {[delete |-> D, keep |-> (NewPods(pods, S) \cup OldPods(pods, S)) \ D] :
             D \in SplitActivePods(pods, OldPods(pods, S), remainingUnavailable(pods, S), byAge)}

-----------------------------------------------------------------------------
IdleNode == [base |-> "IDLE", drain |-> FALSE, reason |-> "none"]

TypeOK ==
    /\ setting \in Settings
    /\ replicas \in 0 .. MaxReplicas
    /\ pod \in [Ordinals -> Pods]
    /\ cache \in [Ordinals -> Pods]
    /\ exp \in [adds : Int, dels : Int, keys : SUBSET Ordinals, expired : BOOLEAN]
    /\ snode \in [Ordinals -> SlurmNodes]
    /\ scache \in [Ordinals -> SlurmNodes]
    /\ until \in [Ordinals -> Deadlines]
    /\ pc \in {"sync", "pods", "scale", "update"}
    /\ want \in 0 .. MaxReplicas
    /\ snap \in [Ordinals -> Pods]
    /\ plan \in [delete : SUBSET Ordinals, create : SUBSET Ordinals]
    /\ budget \in 0 .. MaxDisturb

\* Every worker runs, and is of the revision before the template changed.
Init ==
    /\ setting \in Settings
    /\ replicas = MaxReplicas
    /\ pod = [o \in Ordinals |-> [NoPod EXCEPT !.at = "Ready", !.old = TRUE]]
    /\ cache = pod
    /\ exp = NoExpectations
    /\ snode = [o \in Ordinals |-> IdleNode]
    /\ scache = snode
    /\ until = [o \in Ordinals |-> 0]
    /\ pc = "sync"
    /\ want = 0
    /\ snap = NoPods
    /\ plan = NoPlan
    /\ budget = MaxDisturb

-----------------------------------------------------------------------------
(* The reconciler.                                                          *)

\* Faulty variant: a pod that is listed exists.
FoundListed(S) == S

\* The pods of S that an API call finds.
Found(S) == {o \in S : pod[o] # NoPod}

\* The operator updates the Slurm nodes of S to what they are in "updated".
UpdateNodes(S, updated) ==
    /\ snode' = [o \in Ordinals |-> IF o \in S THEN updated[o] ELSE snode[o]]
    /\ scache' = [o \in Ordinals |-> IF o \in S THEN updated[o] ELSE scache[o]]

\* The pods once their deadlines are annotated.
syncSlurmDeadline ==
    [o \in Ordinals |->
        IF o \in Found(PodsIn(cache)) THEN [pod[o] EXCEPT !.deadline = until[o]] ELSE pod[o]]

\* Sync up to syncCordon: list the pods, list the Slurm nodes, annotate the deadlines,
\* drain the nodes of cordoned pods and undrain the others, unless their reason is
\* somebody else's.
Sync ==
    LET ours == {o \in PodsIn(cache) : cache[o].at # "Pending" /\ IsNodeReasonOurs(TRUE, snode[o])}
        drain == {o \in ours : cache[o].cordon /\ SendsDrain(TRUE, snode[o], "pod")}
        undrain == {o \in ours : ~cache[o].cordon /\ SendsUndrain(TRUE, snode[o])}
    IN
    /\ pc = "sync"
    /\ SatisfiedExpectations(exp)
    /\ want' = replicas
    /\ snap' = cache
    /\ pod' = syncSlurmDeadline
    /\ snode' = [o \in Ordinals |->
                   IF o \in drain THEN Drained(snode[o], "pod")
                   ELSE IF o \in undrain THEN Undrained(snode[o], "uncordon")
                   ELSE snode[o]]
    /\ scache' = snode'
    /\ pc' = "pods"
    /\ UNCHANGED <<setting, replicas, cache, exp, until, plan, budget>>

\* Faulty variant: pods that are kept stay as they are.
SyncPodUncordonNothing(K, ok) == ok /\ UNCHANGED <<pod, snap, slurmVars>>

\* syncPodUncordon for the pods K: the annotation is removed, the pod read again and
\* its Slurm node undrained, unless its reason is somebody else's. A cordoned pod
\* that is gone by then is an error, before which any of the others were handled.
SyncPodUncordon(K, ok) ==
    LET ours == {o \in K : IsNodeReasonOurs(TRUE, scache[o])}
        missing == {o \in ours : snap[o].cordon /\ (pod[o] = NoPod \/ cache[o] = NoPod)}
    IN
    /\ ok = (missing = {})
    /\ \E K1 \in SUBSET (ours \ missing) :
        /\ ok => K1 = ours
        /\ LET patch == {o \in K1 : snap[o].cordon}
           IN  /\ pod' = [o \in Ordinals |->
                            IF o \in patch THEN [pod[o] EXCEPT !.cordon = FALSE] ELSE pod[o]]
               /\ snap' = [o \in Ordinals |-> IF o \in patch THEN cache[o] ELSE snap[o]]
        /\ UpdateNodes({o \in K1 : SendsUndrain(TRUE, scache[o])},
                       [o \in Ordinals |-> Undrained(snode[o], "uncordon")])

\* processCondemned for the pods D, from the cached pods and Slurm nodes, with the
\* expectations "e" raised for them: a drained worker is deleted, any other is
\* cordoned and drained, and no longer expected to be deleted.
ProcessCondemned(D, e) ==
    LET live == {o \in D : cache[o] # NoPod /\ ~cache[o].term}
        delete == {o \in live : IsNodeDrained(TRUE, scache[o])}
        cordon == {o \in live \ delete : cache[o].cordon \/ pod[o] # NoPod}
        unseen == (D \ {o \in D : cache[o] # NoPod}) \cup (live \ delete)
    IN
    /\ pod' = [o \in Ordinals |->
                 IF o \in Found(delete) THEN [pod[o] EXCEPT !.term = TRUE]
                 ELSE IF o \in Found(cordon) THEN [pod[o] EXCEPT !.cordon = TRUE]
                 ELSE pod[o]]
    /\ UpdateNodes({o \in cordon : SendsDrain(TRUE, scache[o], "term")},
                   [o \in Ordinals |-> Drained(snode[o], "term")])
    /\ exp' = [adds |-> e.adds, dels |-> e.dels - Cardinality(unseen \cap e.keys),
               keys |-> e.keys \ unseen, expired |-> e.expired]

\* syncNodeSetPods up to the pods it uncordons. Too few pods: all that are listed.
\* Too many: all but the ones that go first. Otherwise doPodProcessing asks
\* splitUpdatePods which ones to keep.
SyncNodeSetPods(byAge) ==
    LET listed == PodsIn(snap)
        diff == Cardinality(listed) - want
        free == Ordinals \ listed
        create == {o \in free : Cardinality({q \in free : q < o}) < 0 - diff}
    IN
    /\ pc = "pods"
    /\ UNCHANGED <<setting, replicas, cache, until, want, budget>>
    /\ \E ok \in BOOLEAN :
        \/ /\ diff < 0
           /\ exp' = RaiseCreations(ExpectDeletions({}), Cardinality(create))
           /\ plan' = [delete |-> {}, create |-> create]
           /\ SyncPodUncordon(listed, ok)
           /\ pc' = IF ok THEN "scale" ELSE "sync"
        \/ /\ diff > 0
           /\ \E D \in SplitActivePods(snap, listed, diff, byAge) :
                /\ exp' = ExpectDeletions(D)
                /\ plan' = [delete |-> D, create |-> {}]
                /\ SyncPodUncordon(listed \ D, ok)
           /\ pc' = IF ok THEN "scale" ELSE "sync"
        \/ /\ diff = 0
           /\ exp' = SetExpectations(exp)
           /\ plan' = NoPlan
           /\ \E split \in splitUpdatePods(snap, listed, byAge) : SyncPodUncordon(split.keep, ok)
           /\ pc' = IF ok THEN "update" ELSE "sync"

\* The rest of doPodScale for syncNodeSetPods: create from the new template, condemn.
\* A creation that finds the pod still there fails, is no longer expected and stops
\* the reconcile.
DoPodScale ==
    LET blocked == Found(plan.create)
        created == plan.create \ blocked
    IN
    /\ pc = "scale"
    /\ plan' = NoPlan
    /\ UNCHANGED <<setting, replicas, cache, until, want, snap, budget>>
    /\ \/ /\ plan.create = {}
          /\ ProcessCondemned(plan.delete, exp)
          /\ pc' = "update"
       \/ /\ plan.create # {}
          /\ pod' = [o \in Ordinals |-> IF o \in created THEN NewPod ELSE pod[o]]
          /\ exp' = LowerCreations(exp, Cardinality(blocked))
          /\ pc' = IF blocked = {} THEN "update" ELSE "sync"
          /\ UNCHANGED slurmVars

\* Faulty variant: the strategy is not asked for.
SyncUpdateAlways ==
    LET old == OldPods(snap, Ordinals) IN
    /\ pc = "update"
    /\ pc' = "sync"
    /\ want' = 0
    /\ snap' = NoPods
    /\ UNCHANGED <<setting, replicas, cache, until, plan, budget>>
    /\ \/ /\ ~SatisfiedExpectations(exp) \/ old = {}
          /\ UNCHANGED <<pod, slurmVars, exp>>
       \/ /\ SatisfiedExpectations(exp) /\ old # {}
          /\ ProcessCondemned(old, ExpectDeletions(old))

\* syncUpdate: nothing under OnDelete. Otherwise doPodScale for the old pods taken
\* for unhealthy and then, replacing the expectations, for those that splitUpdatePods
\* takes of the others.
SyncUpdate ==
    LET old == OldPods(snap, Ordinals)
        unhealthy == SplitUnhealthyPods(snap, old)
    IN
    /\ pc = "update"
    /\ pc' = "sync"
    /\ want' = 0
    /\ snap' = NoPods
    /\ UNCHANGED <<setting, replicas, cache, until, plan, budget>>
    /\ \/ /\ ~SatisfiedExpectations(exp) \/ setting.strategy = "OnDelete" \/ old = {}
          /\ UNCHANGED <<pod, slurmVars, exp>>
       \/ /\ SatisfiedExpectations(exp) /\ setting.strategy = "RollingUpdate" /\ old # {}
          /\ \E split \in splitUpdatePods(snap, old \ unhealthy, TRUE) :
                ProcessCondemned(unhealthy \cup split.delete,
                    ExpectDeletions(IF split.delete = {} THEN unhealthy ELSE split.delete))

-----------------------------------------------------------------------------
(* The informer, the kubelet, slurmd and slurmctld.                         *)

HandlePodEvent(old, new, o) ==
    IF new = NoPod \/ new.term THEN DeletionObserved(exp, o)
    ELSE IF old = NoPod THEN LowerCreations(exp, 1)
    ELSE exp

\* The pod events that are on their way for one ordinal are delivered.
Deliver(o) ==
    /\ cache[o] # pod[o]
    /\ cache' = [cache EXCEPT ![o] = pod[o]]
    /\ exp' = HandlePodEvent(cache[o], pod[o], o)
    /\ UNCHANGED <<setting, replicas, pod, slurmVars, until, opVars, budget>>

\* Five minutes pass.
Expire ==
    /\ pc = "sync"
    /\ cache = pod
    /\ ~SatisfiedExpectations(exp)
    /\ exp' = [exp EXCEPT !.expired = TRUE]
    /\ UNCHANGED <<setting, replicas, pod, cache, slurmVars, until, opVars, budget>>

\* A new pod starts, registers its Slurm node and becomes ready. The record of the
\* pod before it may or may not still be drained.
PodReady(o) ==
    /\ pod[o].at = "Pending" /\ ~pod[o].term
    /\ pod' = [pod EXCEPT ![o].at = "Ready"]
    /\ \E d \in {FALSE, snode[o].drain} :
        snode' = [snode EXCEPT ![o] =
                    [base |-> "IDLE", drain |-> d, reason |-> IF d THEN @.reason ELSE "none"]]
    /\ UNCHANGED <<setting, replicas, cache, exp, scache, until, opVars, budget>>

\* The kubelet stops a terminating pod, whose preStop hook sets its Slurm node DOWN.
PodGone(o) ==
    /\ pod[o].term
    /\ pod' = [pod EXCEPT ![o] = NoPod]
    /\ snode' = IF snode[o].base \in {"IDLE", "BUSY"}
                THEN [snode EXCEPT ![o] = [base |-> "DOWN", drain |-> @.drain, reason |-> "ext"]]
                ELSE snode
    /\ until' = [until EXCEPT ![o] = 0]
    /\ UNCHANGED <<setting, replicas, cache, exp, scache, opVars, budget>>

Disturbs(kind) == kind \in setting.disturb /\ budget > 0 /\ budget' = budget - 1

StartJob(o) ==
    /\ Disturbs("job")
    /\ snode[o].base = "IDLE" /\ ~snode[o].drain
    /\ snode' = [snode EXCEPT ![o].base = "BUSY"]
    /\ \E d \in Deadlines \ {0} : until' = [until EXCEPT ![o] = d]
    /\ UNCHANGED <<setting, replicas, pod, cache, exp, scache, opVars>>

EndJob(o) ==
    /\ snode[o].base = "BUSY"
    /\ snode' = [snode EXCEPT ![o].base = "IDLE"]
    /\ until' = [until EXCEPT ![o] = 0]
    /\ UNCHANGED <<setting, replicas, pod, cache, exp, scache, opVars, budget>>

UserScales ==
    /\ Disturbs("scale")
    /\ replicas' \in (setting.least .. MaxReplicas) \ {replicas}
    /\ UNCHANGED <<setting, pod, cache, exp, slurmVars, until, opVars>>

\* A running pod of the old revision stops being ready. (One of the new revision that
\* never is ready stalls the update, as it should.)
PodUnready(o) ==
    /\ Disturbs("unready")
    /\ pod[o].at = "Ready" /\ pod[o].old /\ ~pod[o].term
    /\ pod' = [pod EXCEPT ![o].at = "Unready"]
    /\ UNCHANGED <<setting, replicas, cache, exp, slurmVars, until, opVars>>

\* Someone deletes a pod, as the OnDelete strategy asks.
UserDeletes(o) ==
    /\ Disturbs("kill")
    /\ pod[o] # NoPod /\ ~pod[o].term
    /\ pod' = [pod EXCEPT ![o].term = TRUE]
    /\ UNCHANGED <<setting, replicas, cache, exp, slurmVars, until, opVars>>

-----------------------------------------------------------------------------
Reconcile ==
    Sync \/ (\E byAge \in BOOLEAN : SyncNodeSetPods(byAge)) \/ DoPodScale \/ SyncUpdate

Next ==
    \/ Reconcile
    \/ Expire
    \/ UserScales
    \/ \E o \in Ordinals :
        \/ Deliver(o) \/ PodReady(o) \/ PodGone(o) \/ EndJob(o)
        \/ StartJob(o) \/ PodUnready(o) \/ UserDeletes(o)

Spec == Init /\ [][Next]_vars

\* As in NodeSetSync: the reconcile is requeued every 30 seconds, expectations expire,
\* events are delivered, jobs end and the kubelet runs and stops pods. The informer's
\* cache lists the pods in a random order, so now and then by age.
Fairness ==
    /\ WF_vars(Sync \/ DoPodScale \/ SyncUpdate)
    /\ SF_vars(SyncNodeSetPods(TRUE))
    /\ WF_vars(Expire)
    /\ \A o \in Ordinals :
        /\ WF_vars(Deliver(o))
        /\ WF_vars(PodReady(o) \/ PodGone(o) \/ EndJob(o))

FairSpec == Spec /\ Fairness

-----------------------------------------------------------------------------
(* Properties.                                                              *)

\* The step deletes the pod o.
Deletes(o) == pod'[o] # NoPod /\ pod'[o].term /\ ~pod[o].term

\* syncRollingUpdate replaces every pod of the old revision, whatever jobs run and pods
\* fail, and however the NodeSet is scaled meanwhile: in the end there are as many pods
\* as replicas, and all are of the new revision.
RollingUpdateCompletes ==
    setting.strategy = "RollingUpdate" =>
        <>[](/\ Cardinality(PodsIn(pod)) = replicas
             /\ \A o \in PodsIn(pod) : ~pod[o].old /\ ~pod[o].term)

\* doPodScale says of the pods it keeps that they "should be uncordoned and undrained":
\* a worker that a scale-in or an update began to drain, and that is still wanted in the
\* end, is put back into service, unless somebody else set its reason. (Under OnDelete
\* splitUpdatePods keeps nothing, and a worker whose scale-in is called off stays drained.)
KeptWorkersReturn ==
    setting.strategy = "RollingUpdate" =>
        <>[](\A o \in PodsIn(pod) :
                IsNodeReasonOurs(TRUE, snode[o]) => ~pod[o].cordon /\ ~snode[o].drain)

\* A syncUpdate that deletes a pod while as many pods of the new revision as
\* maxUnavailable allows are not ready.
DeletesTooEarly ==
    /\ SyncUpdate
    /\ \E o \in Ordinals : Deletes(o)
    /\ Cardinality({o \in NewPods(pod, PodsIn(pod)) : ~IsHealthy(pod[o])}) >= MaxUnavailable

\* Nobody but the operator deletes pods, and it only to update them.
OnlyUpdated == setting.disturb \cap {"scale", "kill"} = {}

\* The update waits for the pods it has created: it deletes none while as many of the
\* new revision as maxUnavailable allows are not ready. syncRollingUpdate itself does not
\* count them; what keeps the bound is that doPodProcessing, which does, undrains the
\* pods that it keeps, so that processCondemned finds none of them drained.
UpdateWaitsForNewPods == [][OnlyUpdated => ~DeletesTooEarly]_vars

\* A syncUpdate that takes a worker out of service or deletes its pod.
TakesDown ==
    /\ SyncUpdate
    /\ \E o \in Ordinals : Deletes(o) \/ (pod'[o].cordon /\ ~pod[o].cordon)

\* Under OnDelete pods "will only be replaced when the old pod is killed" by somebody
\* else (api/v1beta1/nodeset_types.go): syncUpdate takes no worker down.
OnDeleteWaitsForUsers == [][setting.strategy = "OnDelete" => ~TakesDown]_vars

Unavailable == {o \in Ordinals : ~IsHealthy(pod[o]) \/ pod[o].term}

\* maxUnavailable is "the maximum number of pods that can be unavailable during the
\* update" (api/v1beta1/nodeset_types.go): the update takes no pod down that would
\* bring more than that many down at a time. Terminating pods are neither new nor old
\* to findUpdatedPods, so they do not count.
UpdateStaysWithinMaxUnavailable ==
    [][SyncUpdate /\ Unavailable' # Unavailable => Cardinality(Unavailable') <= MaxUnavailable]_vars
=============================================================================
