-------------------------- MODULE NodeSetSyncProofs --------------------------
(***************************************************************************)
(* Proofs about the NodeSet reconciler, for every number of replicas,      *)
(* burst size, informer lag and set of disturbances and faults: its        *)
(* invariants, and that it implements WorkerLife.                          *)
(*                                                                         *)
(* For the refinement a step of NodeSetSync is first reduced to what it    *)
(* does to the pods and the Slurm nodes (Effect); that this is a step of   *)
(* WorkerLife, and keeps the invariant, is shown of the effects.           *)
(***************************************************************************)
EXTENDS NodeSetRefinement, FiniteSetTheorems, TLAPS

\* What the soundness of the Slurm cache rests on: an update refreshes the client's own
\* copy, and no administrator resumes a node.
CacheAssumption == WriteThrough /\ "undrain" \notin Disturb

\* A Slurm node in the cache exists.
NodesKnown == \A o \in Ordinals : scache[o] # NoNode => snode[o] # NoNode

(* The inductive invariant, in three parts: the API server's pods, the      *)
(* Slurm nodes with their cached copies, and the reconciler.                *)

ApiPart ==
    /\ pod \in [Ordinals -> Pods]
    /\ watch \in Seq([ord : Ordinals, pod : Pods])

SlurmPart ==
    /\ snode \in [Ordinals -> SlurmNodes]
    /\ scache \in [Ordinals -> SlurmNodes]
    /\ newReg \in SUBSET Ordinals
    /\ NodesKnown
    /\ CacheAssumption => SlurmCacheSound

OpPart ==
    /\ replicas \in 0 .. MaxReplicas
    /\ kcordon \in [Ordinals -> BOOLEAN]
    /\ cache \in [Ordinals -> Pods]
    /\ exp \in [adds : Int, dels : Int, keys : SUBSET Ordinals, expired : BOOLEAN]
    /\ client \in BOOLEAN
    /\ pc \in PCs
    /\ mode \in {"scale", "process"}
    /\ want \in 0 .. MaxReplicas
    /\ snap \in [Ordinals -> Pods]
    /\ batch \in Batches(Ordinals)
    /\ plan \in [keep : SUBSET Ordinals, del : SUBSET Ordinals, crt : SUBSET Ordinals]
    /\ budget \in 0 .. MaxDisturb

\* The invariant.
IInv == ApiPart /\ SlurmPart /\ OpPart

-----------------------------------------------------------------------------
(* Pods, Slurm nodes and expectations keep their types.                     *)

\* There are finitely many ordinals, so every set of them has a size.
LEMMA OrdinalsFinite ==
    IsFiniteSet(Ordinals) /\ \A S \in SUBSET Ordinals : Cardinality(S) \in Nat
<1>1. IsFiniteSet(Ordinals)
  BY NodeSetSyncAssumption, FS_Interval DEF Ordinals
<1> QED
  BY <1>1, FS_Subset, FS_CardinalityType

\* The pods the model writes are pods.
LEMMA PodTypes ==
    /\ NoPod \in Pods /\ NewPod \in Pods /\ RunningPod \in Pods
    /\ NoPods \in [Ordinals -> Pods]
BY DEF NoPod, NewPod, RunningPod, Pods, NoPods

\* A pod stays one when its annotation, its deletion timestamp or its phase changes.
LEMMA PodUpdate ==
    ASSUME NEW p \in Pods, p # NoPod, NEW v \in BOOLEAN
    PROVE  /\ [p EXCEPT !.cordon = v] \in Pods
           /\ [p EXCEPT !.term = v] \in Pods
           /\ [p EXCEPT !.phase = "Running"] \in Pods
           /\ [p EXCEPT !.phase = "Failed"] \in Pods
BY DEF Pods

\* The absent pod is neither terminating nor in a phase.
LEMMA NoPodFields ==
    NoPod.term = FALSE /\ NoPod.phase = "None" /\ NoPod.cordon = FALSE
BY DEF NoPod

\* A record of Slurm is one of its records after it is drained or undrained.
LEMMA NodeUpdate ==
    ASSUME NEW n \in SlurmNodes, n # NoNode,
           NEW r \in OurReasons \cup {"none", "ext"}
    PROVE  /\ Drained(n, r) \in SlurmNodes /\ Drained(n, r) # NoNode
           /\ Undrained(n, r) \in SlurmNodes /\ Undrained(n, r) # NoNode
           /\ Drained(n, r).base = n.base /\ Drained(n, r).drain = TRUE
BY ZenonT(40) DEF SlurmNodes, NoNode, Drained, Undrained, Bases

\* A node that is drained and has no work is idle or down.
LEMMA DrainedNode ==
    ASSUME NEW n \in SlurmNodes, n.drain, n.base # "BUSY"
    PROVE  Quiet(n)
BY DEF SlurmNodes, NoNode, Bases, Quiet

\* The absent node has no drain flag and no base state.
LEMMA NoNodeFields == NoNode \in SlurmNodes /\ NoNode.drain = FALSE /\ NoNode.base = "NONE"
BY DEF NoNode, SlurmNodes

\* The expectations keep their type.
LEMMA ExpectationTypes ==
    ASSUME NEW e \in [adds : Int, dels : Int, keys : SUBSET Ordinals, expired : BOOLEAN],
           NEW o \in Ordinals, NEW S \in SUBSET Ordinals, NEW n \in Int
    PROVE  LET E == [adds : Int, dels : Int, keys : SUBSET Ordinals, expired : BOOLEAN]
           IN  /\ NoExpectations \in E
               /\ ExpectDeletions(S) \in E
               /\ RaiseCreations(e, n) \in E
               /\ LowerCreations(e, n) \in E
               /\ SetExpectations(e) \in E
               /\ DeletionObserved(e, o) \in E
               /\ [e EXCEPT !.expired = TRUE] \in E
<1> DEFINE E == [adds : Int, dels : Int, keys : SUBSET Ordinals, expired : BOOLEAN]
<1>1. NoExpectations \in E
  BY DEF NoExpectations
<1>2. ExpectDeletions(S) \in E
  BY OrdinalsFinite DEF ExpectDeletions
<1>3. RaiseCreations(e, n) \in E /\ LowerCreations(e, n) \in E
  BY DEF RaiseCreations, LowerCreations
<1>4. SetExpectations(e) \in E
  BY DEF SetExpectations
<1>5. DeletionObserved(e, o) \in E
  BY DEF DeletionObserved
<1>6. [e EXCEPT !.expired = TRUE] \in E
  BY ZenonT(40)
<1> QED
  BY <1>1, <1>2, <1>3, <1>4, <1>5, <1>6

-----------------------------------------------------------------------------
(* The calls.                                                               *)

\* A write to the API server.
LEMMA WritePodPart ==
    ASSUME ApiPart, NEW o \in Ordinals, NEW p \in Pods, WritePod(o, p)
    PROVE  ApiPart'
<1>1. [ord |-> o, pod |-> p] \in [ord : Ordinals, pod : Pods]
  OBVIOUS
<1>2. pod' \in [Ordinals -> Pods]
  BY DEF ApiPart, WritePod
<1>3. watch' \in Seq([ord : Ordinals, pod : Pods])
  <2> DEFINE Event == [ord : Ordinals, pod : Pods]
  <2>1. watch \in Seq(Event) /\ [ord |-> o, pod |-> p] \in Event
    BY <1>1 DEF ApiPart
  <2>2. watch' = watch \/ watch' = Append(watch, [ord |-> o, pod |-> p])
    BY DEF WritePod
  <2> HIDE DEF Event
  <2>3. watch' \in Seq(Event)
    BY <2>1, <2>2
  <2> QED
    BY <2>3 DEF Event
<1> QED
  BY <1>2, <1>3 DEF ApiPart

\* makePodCordon and makePodUncordon.
LEMMA SetPodCordonPart ==
    ASSUME ApiPart, cache \in [Ordinals -> Pods], snap \in [Ordinals -> Pods],
           NEW o \in Ordinals, NEW p \in Pods, NEW v \in BOOLEAN, NEW f, NEW res,
           SetPodCordon(o, p, v, f, res)
    PROVE  ApiPart' /\ snap' \in [Ordinals -> Pods]
<1>1. CASE UNCHANGED <<pod, watch>>
  BY <1>1 DEF SetPodCordon, ApiPart
<1>2. CASE pod[o] # NoPod /\ WritePod(o, [pod[o] EXCEPT !.cordon = v])
  <2>1. pod[o] \in Pods
    BY DEF ApiPart
  <2>2. ApiPart'
    BY <1>2, <2>1, PodUpdate, WritePodPart, ZenonT(40)
  <2> QED
    BY <2>2 DEF SetPodCordon
<1> QED
  BY <1>1, <1>2 DEF SetPodCordon

\* DeletePod.
LEMMA DeletePodPart ==
    ASSUME ApiPart, NEW o \in Ordinals, NEW f, NEW res, DeletePod(o, f, res)
    PROVE  ApiPart'
<1>1. CASE UNCHANGED <<pod, watch>>
  BY <1>1 DEF ApiPart
<1>2. CASE pod[o] # NoPod /\ WritePod(o, [pod[o] EXCEPT !.term = TRUE])
  <2>1. pod[o] \in Pods
    BY DEF ApiPart
  <2> QED
    BY <1>2, <2>1, PodUpdate, WritePodPart, ZenonT(40)
<1> QED
  BY <1>1, <1>2 DEF DeletePod

\* Slurm is untouched.
LEMMA SlurmUnchanged == SlurmPart /\ UNCHANGED slurmVars => SlurmPart'
BY DEF SlurmPart, slurmVars, NodesKnown, SlurmCacheSound

\* A fresh listing of the nodes makes the cache equal to Slurm.
LEMMA SlurmListed ==
    ASSUME SlurmPart, snode' = snode, scache' = snode, newReg' = {}
    PROVE  SlurmPart'
BY DrainedNode DEF SlurmPart, NodesKnown, SlurmCacheSound

\* An update by the operator.
LEMMA UpdateNodePart ==
    ASSUME SlurmPart, NEW o \in Ordinals, NEW n \in SlurmNodes, n # NoNode,
           UpdateNode(o, n)
    PROVE  SlurmPart'
<1>1. /\ snode' \in [Ordinals -> SlurmNodes] /\ scache' \in [Ordinals -> SlurmNodes]
      /\ newReg' \in SUBSET Ordinals
  BY DEF SlurmPart, UpdateNode
<1>2. NodesKnown'
  BY DEF SlurmPart, NodesKnown, UpdateNode
<1>3. ASSUME CacheAssumption PROVE SlurmCacheSound'
  <2>1. /\ snode' = [snode EXCEPT ![o] = n] /\ scache' = [scache EXCEPT ![o] = n]
        /\ newReg' = newReg \ {o}
        /\ SlurmCacheSound
    BY <1>3 DEF UpdateNode, SlurmPart, CacheAssumption
  <2>2. SUFFICES ASSUME NEW q \in Ordinals, q \notin newReg'
                 PROVE  /\ scache'[q] = NoNode => snode'[q] = NoNode
                        /\ scache'[q].drain /\ scache'[q].base # "BUSY" => Quiet(snode'[q])
    BY <1>2 DEF SlurmCacheSound, NodesKnown
  <2>3. CASE q = o
    BY <2>1, <2>3, DrainedNode DEF SlurmPart
  <2>4. CASE q # o
    BY <2>1, <2>2, <2>4 DEF SlurmPart, SlurmCacheSound
  <2> QED
    BY <2>3, <2>4
<1> QED
  BY <1>1, <1>2, <1>3 DEF SlurmPart, CacheAssumption

\* MakeNodeDrain and MakeNodeUndrain: what they update is known to Slurm.
LEMMA MakeNodeDrainPart ==
    ASSUME SlurmPart, NEW o \in Ordinals, NEW r \in OurReasons, NEW f, NEW res,
           MakeNodeDrain(o, r, f, res) \/ MakeNodeUndrain(o, r, f, res)
    PROVE  SlurmPart'
<1>1. CASE UNCHANGED slurmVars
  BY <1>1, SlurmUnchanged
<1>2. CASE /\ SendsDrain(client, scache[o], r) \/ SendsUndrain(client, scache[o])
           /\ UpdateNode(o, Drained(snode[o], r)) \/ UpdateNode(o, Undrained(snode[o], r))
  <2>1. snode[o] \in SlurmNodes /\ snode[o] # NoNode
    BY <1>2 DEF SendsDrain, SendsUndrain, Unknown, SlurmPart, NodesKnown
  <2> QED
    BY <1>2, <2>1, NodeUpdate, UpdateNodePart, ZenonT(40)
<1> QED
  BY <1>1, <1>2 DEF MakeNodeDrain, MakeNodeUndrain

\* makePodCordonAndDrain and makePodUncordonAndUndrain.
LEMMA CordonPart ==
    ASSUME ApiPart, SlurmPart, cache \in [Ordinals -> Pods], snap \in [Ordinals -> Pods],
           NEW o \in Ordinals, NEW p \in Pods, NEW r \in OurReasons, NEW f, NEW res,
           MakePodCordonAndDrain(o, p, r, f, res) \/ MakePodUncordonAndUndrain(o, p, f, res)
    PROVE  ApiPart' /\ SlurmPart' /\ snap' \in [Ordinals -> Pods]
<1>1. PICK x \in Results, v \in BOOLEAN : SetPodCordon(o, p, v, f, x)
  BY ZenonT(40) DEF MakePodCordonAndDrain, MakePodUncordonAndUndrain
<1>2. ApiPart' /\ snap' \in [Ordinals -> Pods]
  BY <1>1, SetPodCordonPart
<1>3. \/ UNCHANGED slurmVars
      \/ MakeNodeDrain(o, r, f, res)
      \/ MakeNodeUndrain(o, "uncordon", f, res)
  BY ZenonT(40) DEF MakePodCordonAndDrain, MakePodUncordonAndUndrain
<1>4. "uncordon" \in OurReasons
  BY DEF OurReasons
<1>5. SlurmPart'
  BY <1>3, <1>4, SlurmUnchanged, MakeNodeDrainPart
<1> QED
  BY <1>2, <1>5

\* The budget of disturbances is never overdrawn.
LEMMA BudgetType ==
    ASSUME budget \in 0 .. MaxDisturb, NEW x, Spend(x) \/ Disturbs(x)
    PROVE  budget' \in 0 .. MaxDisturb
BY NodeSetSyncAssumption DEF Spend, Disturbs

\* A batch over ordinals starts as one and stays one when a call returns.
LEMMA BatchTypes ==
    /\ NoBatch \in Batches(Ordinals)
    /\ \A S \in SUBSET Ordinals : StartBatch(S) \in Batches(Ordinals)
    /\ \A b \in Batches(Ordinals), success \in BOOLEAN :
          \A x \in b.todo : CallReturns(b, x, success) \in Batches(Ordinals)
<1>1. \A S \in SUBSET Ordinals : S # {} => Cardinality(S) > 0
  BY OrdinalsFinite, FS_Subset, FS_EmptySet
<1>2. NoBatch \in Batches(Ordinals)
  BY DEF NoBatch, Batches
<1>3. ASSUME NEW S \in SUBSET Ordinals
      PROVE  StartBatch(S) \in Batches(Ordinals)
  BY <1>1, OrdinalsFinite DEF StartBatch, AtMost, Batches
<1>4. ASSUME NEW b \in Batches(Ordinals), NEW success \in BOOLEAN, NEW x \in b.todo
      PROVE  CallReturns(b, x, success) \in Batches(Ordinals)
  <2>1. /\ b.todo \ {x} \in SUBSET Ordinals
        /\ b.left \in Nat /\ b.size \in Nat /\ b.ok \in Nat /\ b.failed \in BOOLEAN
        /\ b.left <= b.size /\ b.left > 0
    BY DEF Batches
  <2>2. CASE b.left = 1 /\ (b.failed \/ ~success)
    BY <2>1, <2>2 DEF CallReturns, Batches
  <2>3. CASE b.left = 1 /\ ~(b.failed \/ ~success)
    BY <1>1, <2>1, <2>3, OrdinalsFinite DEF CallReturns, AtMost, Batches
  <2>4. CASE b.left # 1
    BY <2>1, <2>4 DEF CallReturns, Batches
  <2> QED
    BY <2>2, <2>3, <2>4
<1> QED
  BY <1>2, <1>3, <1>4

\* A pod's turn leaves a batch a batch.
LEMMA BatchNextType ==
    ASSUME batch \in Batches(Ordinals), NEW o \in batch.todo, NEW res, BatchNext(o, res)
    PROVE  batch' \in Batches(Ordinals)
<1>1. CallReturns(batch, o, res = "ok") \in Batches(Ordinals)
  BY BatchTypes
<1> QED
  BY <1>1 DEF BatchNext

\* The end of a reconcile.
LEMMA EndSyncPart ==
    ASSUME OpPart, EndSync,
           UNCHANGED replicas /\ UNCHANGED kcordon /\ UNCHANGED client,
           cache' \in [Ordinals -> Pods],
           exp' \in [adds : Int, dels : Int, keys : SUBSET Ordinals, expired : BOOLEAN],
           budget' \in 0 .. MaxDisturb
    PROVE  OpPart'
<1>1. 0 \in 0 .. MaxReplicas
  BY NodeSetSyncAssumption
<1> QED
  BY <1>1, PodTypes, BatchTypes DEF OpPart, EndSync, PCs, NoPlan

-----------------------------------------------------------------------------
(* The inductive invariant holds at first and is kept.                      *)

\* A NodeSet at rest satisfies the invariant.
LEMMA InitIInv == Init => IInv
<1> SUFFICES ASSUME Init PROVE IInv
  OBVIOUS
<1> DEFINE up == [base |-> "IDLE", drain |-> FALSE, reason |-> "none"]
<1>1. up \in SlurmNodes /\ NoNode \in SlurmNodes /\ up # NoNode
  BY DEF SlurmNodes, NoNode, Bases
<1> HIDE DEF up
<1>2. snode \in [Ordinals -> SlurmNodes] /\ scache = snode /\ newReg = {}
  BY <1>1 DEF Init, up
<1>3. SlurmPart
  BY <1>2, DrainedNode DEF SlurmPart, NodesKnown, SlurmCacheSound
<1>4. ApiPart
  BY PodTypes DEF Init, ApiPart
<1>5. replicas \in 0 .. MaxReplicas /\ 0 \in 0 .. MaxReplicas /\ MaxDisturb \in 0 .. MaxDisturb
  BY NodeSetSyncAssumption DEF Init
<1>6. exp \in [adds : Int, dels : Int, keys : SUBSET Ordinals, expired : BOOLEAN]
  BY DEF Init, NoExpectations
<1>7. OpPart
  BY <1>4, <1>5, <1>6, PodTypes, BatchTypes DEF Init, OpPart, ApiPart, PCs, NoPlan
<1> QED
  BY <1>3, <1>4, <1>7 DEF IInv

\* The steps of a reconcile.
LEMMA ReconcileIInv == IInv /\ Reconcile => IInv'
<1> SUFFICES ASSUME IInv, Reconcile PROVE IInv'
  OBVIOUS
<1> USE DEF IInv
<1>1. CASE Sync
  <2>1. ApiPart' /\ SlurmPart'
    BY <1>1, SlurmUnchanged DEF Sync, apiVars, ApiPart
  <2>2. OpPart'
    BY <1>1 DEF Sync, OpPart, apiVars, PCs
  <2> QED
    BY <2>1, <2>2
<1>2. ASSUME NEW f, RefreshNodeCache(f) PROVE IInv'
  <2>1. ApiPart' /\ budget' \in 0 .. MaxDisturb
    BY <1>2, BudgetType DEF RefreshNodeCache, apiVars, ApiPart, OpPart
  <2>2. CASE EndSync /\ UNCHANGED <<scache, newReg>>
    <3>1. SlurmPart'
      BY <1>2, <2>2, SlurmUnchanged DEF RefreshNodeCache, slurmVars
    <3>2. OpPart'
      BY <1>2, <2>1, <2>2, EndSyncPart DEF RefreshNodeCache, OpPart, apiVars
    <3> QED
      BY <2>1, <3>1, <3>2
  <2>3. CASE /\ scache' = IF client THEN snode ELSE scache
             /\ newReg' = IF client THEN {} ELSE newReg
             /\ pc' = "cordon"
             /\ batch' = StartBatch(PodsIn(snap))
             /\ UNCHANGED <<mode, want, snap, plan>>
    <3>1. SlurmPart'
      <4>1. CASE client
        BY <1>2, <2>3, <4>1, SlurmListed DEF RefreshNodeCache
      <4>2. CASE ~client
        BY <1>2, <2>3, <4>2, SlurmUnchanged DEF RefreshNodeCache, slurmVars
      <4> QED
        BY <4>1, <4>2
    <3>2. batch' \in Batches(Ordinals)
      BY <2>3, BatchTypes DEF PodsIn
    <3>3. OpPart'
      BY <1>2, <2>1, <2>3, <3>2 DEF RefreshNodeCache, OpPart, apiVars, PCs
    <3> QED
      BY <2>1, <3>1, <3>3
  <2> QED
    BY <1>2, <2>2, <2>3 DEF RefreshNodeCache
<1>3. ASSUME NEW o \in Ordinals, NEW f, SyncCordon(o, f) PROVE IInv'
  <2>1. snap[o] \in Pods /\ budget' \in 0 .. MaxDisturb /\ o \in batch.todo
    BY <1>3, BudgetType DEF SyncCordon, OpPart
  <2>2. PICK res \in Results :
          /\ BatchNext(o, res)
          /\ \/ UNCHANGED <<pod, watch, snap, slurmVars>>
             \/ MakePodCordonAndDrain(o, snap[o], "node", f, res)
             \/ /\ MakeNodeDrain(o, "pod", f, res) \/ MakeNodeUndrain(o, "uncordon", f, res)
                /\ UNCHANGED <<pod, watch, snap>>
    BY <1>3 DEF SyncCordon
  <2>3. {"node", "pod", "uncordon"} \subseteq OurReasons
    BY DEF OurReasons
  <2>4. cache \in [Ordinals -> Pods] /\ snap \in [Ordinals -> Pods]
        /\ batch \in Batches(Ordinals)
    BY DEF OpPart
  <2>5. batch' \in Batches(Ordinals)
    BY <2>1, <2>2, <2>4, BatchNextType
  <2>6. ApiPart' /\ SlurmPart' /\ snap' \in [Ordinals -> Pods]
    <3>1. CASE UNCHANGED <<pod, watch, snap, slurmVars>>
      BY <2>4, <3>1, SlurmUnchanged DEF ApiPart
    <3>2. CASE MakePodCordonAndDrain(o, snap[o], "node", f, res)
      BY <2>1, <2>3, <2>4, <3>2, CordonPart
    <3>3. CASE /\ MakeNodeDrain(o, "pod", f, res) \/ MakeNodeUndrain(o, "uncordon", f, res)
               /\ UNCHANGED <<pod, watch, snap>>
      BY <2>3, <2>4, <3>3, MakeNodeDrainPart, SMTT(20) DEF ApiPart
    <3> QED
      BY <2>2, <3>1, <3>2, <3>3
  <2>7. OpPart'
    BY <1>3, <2>1, <2>5, <2>6 DEF SyncCordon, OpPart
  <2> QED
    BY <2>6, <2>7
<1>4. CASE CordonDone
  <2>1. ApiPart' /\ SlurmPart'
    BY <1>4, SlurmUnchanged DEF CordonDone, apiVars, ApiPart
  <2>2. OpPart'
    BY <1>4, BatchTypes DEF CordonDone, OpPart, apiVars, PCs
  <2> QED
    BY <2>1, <2>2
<1>5. CASE SyncNodeSetPods
  <2>1. ApiPart' /\ SlurmPart'
    BY <1>5, SlurmUnchanged DEF SyncNodeSetPods, apiVars, ApiPart
  <2>2. PICK keep \in SUBSET Ordinals, del \in SUBSET Ordinals, crt \in SUBSET Ordinals :
          DoPodScale(keep, del, crt) \/ DoPodProcessing(keep)
    <3> DEFINE listed == PodsIn(snap)
               diff == Cardinality(listed) - want
    <3>1. listed \in SUBSET Ordinals
      BY DEF PodsIn
    <3> HIDE DEF listed
    <3>2. CASE DoPodScale(listed, {}, UnusedOrdinals(listed, Clamp(-diff)))
      BY <3>1, <3>2, ZenonT(40) DEF UnusedOrdinals
    <3>3. ASSUME NEW D \in SplitActivePods(snap, listed, diff),
                 NEW B \in SplitActivePods(snap, D, Clamp(diff)),
                 DoPodScale(listed \ D, B, {})
          PROVE  \E keep, del, crt \in SUBSET Ordinals :
                    DoPodScale(keep, del, crt) \/ DoPodProcessing(keep)
      <4>1. D \in SUBSET Ordinals /\ B \in SUBSET Ordinals
        BY <3>1 DEF SplitActivePods
      <4> QED
        BY <3>1, <3>3, <4>1
    <3>4. CASE DoPodProcessing({o \in listed : ~snap[o].term})
      BY <3>1, <3>4
    <3> QED
      BY <1>5, <3>2, <3>3, <3>4, ZenonT(40) DEF SyncNodeSetPods, listed
  <2>3. plan' \in [keep : SUBSET Ordinals, del : SUBSET Ordinals, crt : SUBSET Ordinals]
    BY <2>2 DEF DoPodScale, DoPodProcessing
  <2>4. exp' \in [adds : Int, dels : Int, keys : SUBSET Ordinals, expired : BOOLEAN]
    <3>1. ExpectDeletions(del) \in
            [adds : Int, dels : Int, keys : SUBSET Ordinals, expired : BOOLEAN]
      BY OrdinalsFinite DEF ExpectDeletions
    <3>2. Cardinality(crt) \in Int
      BY OrdinalsFinite
    <3>3. RaiseCreations(ExpectDeletions(del), Cardinality(crt)) \in
            [adds : Int, dels : Int, keys : SUBSET Ordinals, expired : BOOLEAN]
      BY <3>1, <3>2 DEF RaiseCreations
    <3>4. SetExpectations(exp) \in
            [adds : Int, dels : Int, keys : SUBSET Ordinals, expired : BOOLEAN]
      BY DEF SetExpectations, OpPart
    <3> QED
      BY <2>2, <3>3, <3>4 DEF DoPodScale, DoPodProcessing
  <2>5. batch' \in Batches(Ordinals)
    BY <2>2, BatchTypes DEF DoPodScale, DoPodProcessing
  <2>6. pc' \in PCs /\ mode' \in {"scale", "process"}
    BY <2>2 DEF DoPodScale, DoPodProcessing, PCs
  <2>7. OpPart'
    BY <1>5, <2>3, <2>4, <2>5, <2>6, SMTT(20) DEF SyncNodeSetPods, OpPart, apiVars
  <2> QED
    BY <2>1, <2>7
<1>6. ASSUME NEW o \in Ordinals, NEW f, SyncPodUncordon(o, f) PROVE IInv'
  <2>1. snap[o] \in Pods /\ budget' \in 0 .. MaxDisturb /\ o \in batch.todo
    BY <1>6, BudgetType, SMTT(20) DEF SyncPodUncordon, OpPart
  <2>2. PICK res \in Results :
          /\ BatchNext(o, res)
          /\ \/ UNCHANGED <<pod, watch, snap, slurmVars>>
             \/ MakePodUncordonAndUndrain(o, snap[o], f, res)
    BY <1>6 DEF SyncPodUncordon
  <2>3. cache \in [Ordinals -> Pods] /\ snap \in [Ordinals -> Pods]
        /\ batch \in Batches(Ordinals) /\ "pod" \in OurReasons
    BY DEF OpPart, OurReasons
  <2>4. batch' \in Batches(Ordinals)
    BY <2>1, <2>2, <2>3, BatchNextType
  <2>5. ApiPart' /\ SlurmPart' /\ snap' \in [Ordinals -> Pods]
    <3>1. CASE UNCHANGED <<pod, watch, snap, slurmVars>>
      BY <2>3, <3>1, SlurmUnchanged DEF ApiPart
    <3>2. CASE MakePodUncordonAndUndrain(o, snap[o], f, res)
      BY <2>1, <2>3, <3>2, CordonPart, SMTT(20)
    <3> QED
      BY <2>2, <3>1, <3>2
  <2>6. OpPart'
    BY <1>6, <2>1, <2>4, <2>5, SMTT(20) DEF SyncPodUncordon, OpPart
  <2> QED
    BY <2>5, <2>6
<1>7. CASE UncordonDone
  <2>1. ApiPart' /\ SlurmPart'
    BY <1>7, SlurmUnchanged DEF UncordonDone, apiVars, ApiPart
  <2>2. plan.crt \in SUBSET Ordinals /\ PodsIn(snap) \in SUBSET Ordinals
    BY DEF OpPart, PodsIn
  <2>3. batch' \in Batches(Ordinals) /\ pc' \in PCs
    BY <1>7, <2>2, BatchTypes DEF UncordonDone, PCs
  <2>4. OpPart'
    BY <1>7, <2>3 DEF UncordonDone, OpPart, apiVars
  <2> QED
    BY <2>1, <2>4
<1>8. ASSUME NEW o \in Ordinals, NEW f, CreateNodeSetPod(o, f) PROVE IInv'
  <2>1. SlurmPart'
    BY <1>8, SlurmUnchanged DEF CreateNodeSetPod
  <2>2. WritePod(o, NewPod) \/ UNCHANGED <<pod, watch>>
    BY <1>8 DEF CreateNodeSetPod
  <2>3. ApiPart'
    <3>1. CASE WritePod(o, NewPod)
      BY <3>1, PodTypes, WritePodPart
    <3>2. CASE UNCHANGED <<pod, watch>>
      BY <3>2 DEF ApiPart
    <3> QED
      BY <2>2, <3>1, <3>2
  <2>4. batch' \in Batches(Ordinals) /\ budget' \in 0 .. MaxDisturb
    BY <1>8, BatchNextType, BudgetType DEF CreateNodeSetPod, OpPart
  <2>5. OpPart'
    BY <1>8, <2>4 DEF CreateNodeSetPod, OpPart
  <2> QED
    BY <2>1, <2>3, <2>5
<1>9. CASE CreateDone
  <2>1. ApiPart' /\ SlurmPart'
    BY <1>9, SlurmUnchanged DEF CreateDone, apiVars, ApiPart
  <2>2. plan.del \in SUBSET Ordinals /\ Cardinality(plan.crt) \in Int /\ batch.ok \in Int
    BY OrdinalsFinite DEF OpPart, Batches
  <2>3. exp' \in [adds : Int, dels : Int, keys : SUBSET Ordinals, expired : BOOLEAN]
    BY <1>9, <2>2 DEF CreateDone, LowerCreations, OpPart
  <2>4. batch' \in Batches(Ordinals) /\ pc' \in PCs
    BY <1>9, <2>2, BatchTypes DEF CreateDone, PCs
  <2>5. OpPart'
    BY <1>9, <2>3, <2>4 DEF CreateDone, OpPart, apiVars
  <2> QED
    BY <2>1, <2>5
<1>10. ASSUME NEW o \in Ordinals, NEW f, ProcessCondemned(o, f) PROVE IInv'
  <2> DEFINE p == cache[o]
  <2>1. p \in Pods /\ budget' \in 0 .. MaxDisturb /\ o \in batch.todo
    BY <1>10, BudgetType DEF ProcessCondemned, OpPart
  <2>2. PICK res \in Results, x \in Results :
          /\ BatchNext(o, x)
          /\ exp' = exp \/ exp' = DeletionObserved(exp, o)
          /\ \/ /\ UNCHANGED <<pod, watch, slurmVars>>
                /\ UNCHANGED snap \/ snap' = [snap EXCEPT ![o] = p]
             \/ MakePodCordonAndDrain(o, p, "term", f, res)
             \/ /\ DeletePod(o, f, res)
                /\ snap' = [snap EXCEPT ![o] = p]
                /\ UNCHANGED slurmVars
    BY <1>10 DEF ProcessCondemned, Results
  <2>3. cache \in [Ordinals -> Pods] /\ snap \in [Ordinals -> Pods]
        /\ batch \in Batches(Ordinals) /\ "term" \in OurReasons
    BY DEF OpPart, OurReasons
  <2>4. batch' \in Batches(Ordinals)
    BY <2>1, <2>2, <2>3, BatchNextType
  <2>5. exp' \in [adds : Int, dels : Int, keys : SUBSET Ordinals, expired : BOOLEAN]
    BY <2>2 DEF OpPart, DeletionObserved
  <2>6. ApiPart' /\ SlurmPart' /\ snap' \in [Ordinals -> Pods]
    <3>1. CASE /\ UNCHANGED <<pod, watch, slurmVars>>
               /\ UNCHANGED snap \/ snap' = [snap EXCEPT ![o] = p]
      BY <2>1, <2>3, <3>1, SlurmUnchanged, SMTT(20) DEF ApiPart
    <3>2. CASE MakePodCordonAndDrain(o, p, "term", f, res)
      BY <2>1, <2>3, <3>2, CordonPart
    <3>3. CASE /\ DeletePod(o, f, res)
               /\ snap' = [snap EXCEPT ![o] = p]
               /\ UNCHANGED slurmVars
      BY <2>1, <2>3, <3>3, DeletePodPart, SlurmUnchanged
    <3> QED
      BY <2>2, <3>1, <3>2, <3>3, SMTT(20)
  <2>7. OpPart'
    BY <1>10, <2>1, <2>4, <2>5, <2>6, ZenonT(40) DEF ProcessCondemned, OpPart
  <2> QED
    BY <2>6, <2>7, SMTT(20)
<1>11. CASE DeleteDone
  <2>1. ApiPart' /\ SlurmPart'
    BY <1>11, SlurmUnchanged DEF DeleteDone, apiVars, ApiPart
  <2>2. OpPart'
    BY <1>11, BatchTypes DEF DeleteDone, OpPart, apiVars, PCs
  <2> QED
    BY <2>1, <2>2
<1>12. ASSUME NEW o \in Ordinals, NEW f, ProcessNodeSetPod(o, f) PROVE IInv'
  <2>1. SlurmPart'
    BY <1>12, SlurmUnchanged DEF ProcessNodeSetPod
  <2>2. PICK res \in Results :
          BatchNext(o, res) /\ (DeletePod(o, f, res) \/ UNCHANGED <<pod, watch>>)
    BY <1>12 DEF ProcessNodeSetPod
  <2>3. ApiPart'
    <3>1. CASE DeletePod(o, f, res)
      BY <3>1, DeletePodPart
    <3>2. CASE UNCHANGED <<pod, watch>>
      BY <3>2 DEF ApiPart
    <3> QED
      BY <2>2, <3>1, <3>2
  <2>4. batch' \in Batches(Ordinals) /\ budget' \in 0 .. MaxDisturb
    BY <1>12, <2>2, BatchNextType, BudgetType DEF ProcessNodeSetPod, OpPart
  <2>5. OpPart'
    BY <1>12, <2>4 DEF ProcessNodeSetPod, OpPart
  <2> QED
    BY <2>1, <2>3, <2>5, SMTT(20)
<1>13. CASE ProcessDone
  <2>1. ApiPart' /\ SlurmPart'
    BY <1>13, SlurmUnchanged DEF ProcessDone, apiVars, ApiPart
  <2>2. OpPart'
    BY <1>13, BatchTypes DEF ProcessDone, OpPart, apiVars, PCs
  <2> QED
    BY <2>1, <2>2
<1>14. CASE SyncSlurmNodes
  <2>1. ApiPart' /\ SlurmPart'
    BY <1>14, SlurmUnchanged DEF SyncSlurmNodes, apiVars, ApiPart
  <2>2. batch' \in Batches(Ordinals)
    BY <1>14, BatchTypes DEF SyncSlurmNodes, PodsIn
  <2>3. OpPart'
    BY <1>14, <2>2 DEF SyncSlurmNodes, OpPart, apiVars, PCs
  <2> QED
    BY <2>1, <2>3
<1>15. ASSUME NEW o \in Ordinals, NEW f, DeleteUnregistered(o, f) PROVE IInv'
  <2>1. SlurmPart'
    BY <1>15, SlurmUnchanged DEF DeleteUnregistered
  <2>2. PICK res \in Results, x \in Results : DeletePod(o, f, res) /\ BatchNext(o, x)
    BY <1>15 DEF DeleteUnregistered, Results
  <2>3. ApiPart'
    BY <2>2, DeletePodPart
  <2>4. batch' \in Batches(Ordinals) /\ budget' \in 0 .. MaxDisturb
    BY <1>15, <2>2, BatchNextType, BudgetType, SMTT(20) DEF DeleteUnregistered, OpPart
  <2>5. OpPart'
    BY <1>15, <2>4 DEF DeleteUnregistered, OpPart
  <2> QED
    BY <2>1, <2>3, <2>5
<1>16. CASE SyncDone
  <2>1. ApiPart' /\ SlurmPart'
    BY <1>16, SlurmUnchanged DEF SyncDone, apiVars, ApiPart
  <2>2. OpPart'
    BY <1>16, EndSyncPart DEF SyncDone, OpPart, apiVars
  <2> QED
    BY <2>1, <2>2
<1> QED
  BY <1>1, <1>2, <1>3, <1>4, <1>5, <1>6, <1>7, <1>8, <1>9, <1>10, <1>11, <1>12, <1>13,
     <1>14, <1>15, <1>16 DEF Reconcile

\* Slurm moves on behind the cache: a node's record changes, and one that was quiet
\* stays quiet.
LEMMA SlurmMoves ==
    ASSUME SlurmPart, NEW o \in Ordinals, NEW n \in SlurmNodes,
           snode[o] # NoNode, n # NoNode,
           CacheAssumption => (Quiet(snode[o]) => Quiet(n)),
           snode' = [snode EXCEPT ![o] = n], UNCHANGED <<scache, newReg>>
    PROVE  SlurmPart'
<1>1. snode' \in [Ordinals -> SlurmNodes] /\ NodesKnown'
  BY DEF SlurmPart, NodesKnown
<1>2. ASSUME CacheAssumption PROVE SlurmCacheSound'
  <2>1. SUFFICES ASSUME NEW q \in Ordinals, q \notin newReg
                 PROVE  /\ scache[q] = NoNode => snode'[q] = NoNode
                        /\ scache[q].drain /\ scache[q].base # "BUSY" => Quiet(snode'[q])
    BY <1>1 DEF SlurmCacheSound, NodesKnown
  <2>2. /\ scache[q] = NoNode => snode[q] = NoNode
        /\ scache[q].drain /\ scache[q].base # "BUSY" => Quiet(snode[q])
    BY <1>2, <2>1 DEF SlurmPart, SlurmCacheSound
  <2>3. CASE q = o
    BY <1>2, <2>2, <2>3 DEF SlurmPart
  <2>4. CASE q # o
    BY <2>2, <2>4 DEF SlurmPart
  <2> QED
    BY <2>3, <2>4
<1> QED
  BY <1>1, <1>2 DEF SlurmPart, CacheAssumption

\* A record of Slurm has a base state, a drain flag and a reason.
LEMMA NodeFields ==
    ASSUME NEW n \in SlurmNodes
    PROVE  /\ n.drain \in BOOLEAN
           /\ n.reason \in OurReasons \cup {"none", "ext"}
           /\ n.base # "NONE" => n # NoNode
<1>1. CASE n = NoNode
  BY <1>1 DEF NoNode
<1>2. CASE n \in [base : Bases, drain : BOOLEAN, reason : OurReasons \cup {"none", "ext"}]
  BY <1>2 DEF NoNode
<1> QED
  BY <1>1, <1>2 DEF SlurmNodes

\* Any base state, flag and reason make a record.
LEMMA NodeRecord ==
    ASSUME NEW c \in Bases, NEW d \in BOOLEAN, NEW r \in OurReasons \cup {"none", "ext"}
    PROVE  /\ [base |-> c, drain |-> d, reason |-> r] \in SlurmNodes
           /\ [base |-> c, drain |-> d, reason |-> r] # NoNode
BY DEF SlurmNodes, NoNode, Bases

\* A worker registers.
LEMMA RegisterPart ==
    ASSUME SlurmPart, NEW o \in Ordinals, Register(o)
    PROVE  SlurmPart'
<1>1. PICK d \in {FALSE, snode[o].drain} :
        snode' = [snode EXCEPT ![o] =
                    [base |-> "IDLE", drain |-> d, reason |-> IF d THEN snode[o].reason ELSE "none"]]
  BY ZenonT(40) DEF Register
<1> DEFINE n == [base |-> "IDLE", drain |-> d, reason |-> IF d THEN snode[o].reason ELSE "none"]
<1>2. n \in SlurmNodes /\ n # NoNode
  <2>1. snode[o] \in SlurmNodes
    BY DEF SlurmPart
  <2>2. d \in BOOLEAN /\ (IF d THEN snode[o].reason ELSE "none") \in OurReasons \cup {"none", "ext"}
    BY <2>1, NodeFields, ZenonT(40)
  <2> QED
    BY <2>2, NodeRecord DEF Bases
<1>3. snode' = [snode EXCEPT ![o] = n]
  BY <1>1
<1> HIDE DEF n
<1>4. scache' = scache /\ newReg' = newReg \cup {o}
  BY DEF Register
<1>5. snode' \in [Ordinals -> SlurmNodes] /\ newReg' \in SUBSET Ordinals /\ NodesKnown'
  BY <1>2, <1>3, <1>4 DEF SlurmPart, NodesKnown
<1>6. ASSUME CacheAssumption PROVE SlurmCacheSound'
  <2>1. \A q \in Ordinals : q \notin newReg' => snode'[q] = snode[q] /\ q \notin newReg
    BY <1>3, <1>4 DEF SlurmPart
  <2> QED
    BY <1>4, <1>5, <1>6, <2>1 DEF SlurmPart, SlurmCacheSound, NodesKnown
<1> QED
  BY <1>4, <1>5, <1>6 DEF SlurmPart, CacheAssumption

\* The steps of the cluster.
LEMMA ClusterIInv == IInv /\ Cluster => IInv'
<1> SUFFICES ASSUME IInv, Cluster PROVE IInv'
  OBVIOUS
<1> USE DEF IInv
<1>1. CASE Deliver
  <2> DEFINE Event == [ord : Ordinals, pod : Pods]
             e == Head(watch)
  <2>1. watch \in Seq(Event) /\ watch # <<>>
    BY <1>1 DEF Deliver, ApiPart
  <2> HIDE DEF Event
  <2>2. e \in Event /\ Tail(watch) \in Seq(Event)
    BY <2>1
  <2> USE DEF Event
  <2>3. e.ord \in Ordinals /\ e.pod \in Pods
    BY <2>2, SMTT(20)
  <2> HIDE DEF e
  <2>4. /\ cache' = [cache EXCEPT ![e.ord] = e.pod]
        /\ exp' = HandlePodEvent(cache[e.ord], e.pod, e.ord)
        /\ watch' = Tail(watch)
        /\ UNCHANGED <<replicas, pod, kcordon, slurmVars, client, opVars, budget>>
    BY <1>1 DEF Deliver, e
  <2>5. exp' \in [adds : Int, dels : Int, keys : SUBSET Ordinals, expired : BOOLEAN]
    BY <2>3, <2>4 DEF HandlePodEvent, DeletionObserved, LowerCreations, OpPart
  <2>6. ApiPart' /\ SlurmPart'
    BY <2>2, <2>4, SlurmUnchanged DEF ApiPart
  <2>7. OpPart'
    BY <2>3, <2>4, <2>5 DEF OpPart, opVars
  <2> QED
    BY <2>6, <2>7
<1>2. CASE Expire
  <2>1. ApiPart' /\ SlurmPart'
    BY <1>2, SlurmUnchanged DEF Expire, apiVars, ApiPart
  <2>2. OpPart'
    BY <1>2, ZenonT(40) DEF Expire, OpPart, apiVars, opVars
  <2> QED
    BY <2>1, <2>2
<1>3. CASE PollSlurm
  <2>1. SlurmPart'
    BY <1>3, SlurmListed DEF PollSlurm
  <2>2. ApiPart' /\ OpPart'
    BY <1>3 DEF PollSlurm, ApiPart, OpPart, apiVars, opVars
  <2> QED
    BY <2>1, <2>2
<1>4. ASSUME NEW o \in Ordinals, PodRuns(o) PROVE IInv'
  <2>1. pod[o] \in Pods /\ pod[o] # NoPod
    BY <1>4, NoPodFields DEF PodRuns, ApiPart
  <2>2. ApiPart'
    BY <1>4, <2>1, PodUpdate, WritePodPart, ZenonT(40) DEF PodRuns
  <2>3. SlurmPart' /\ OpPart'
    BY <1>4, SlurmUnchanged DEF PodRuns, OpPart, opVars
  <2> QED
    BY <2>2, <2>3
<1>5. ASSUME NEW o \in Ordinals, Register(o) PROVE IInv'
  <2>1. SlurmPart'
    BY <1>5, RegisterPart
  <2>2. ApiPart' /\ OpPart'
    BY <1>5 DEF Register, ApiPart, OpPart, apiVars, opVars
  <2> QED
    BY <2>1, <2>2
<1>6. ASSUME NEW o \in Ordinals, StartJob(o) \/ EndJob(o) PROVE IInv'
  <2>1. snode[o] \in SlurmNodes
    BY DEF SlurmPart
  <2>2. CASE StartJob(o)
    <3>1. snode[o].base = "IDLE" /\ ~snode[o].drain /\ snode' = [snode EXCEPT ![o] = [snode[o] EXCEPT !.base = "BUSY"]]
      BY <2>2 DEF StartJob
    <3>2. ~Quiet(snode[o])
      BY <3>1 DEF Quiet
    <3>3. [snode[o] EXCEPT !.base = "BUSY"] \in SlurmNodes \ {NoNode} /\ snode[o] # NoNode
      <4>1. snode[o] \in [base : Bases, drain : BOOLEAN, reason : OurReasons \cup {"none", "ext"}]
        BY <2>1, <3>1, NoNodeFields DEF SlurmNodes
      <4> QED
        BY <3>1, <4>1 DEF SlurmNodes, NoNode, Bases
    <3>4. SlurmPart'
      BY <2>2, <3>1, <3>2, <3>3, SlurmMoves, ZenonT(40) DEF StartJob
    <3>5. ApiPart' /\ OpPart'
      BY <2>2 DEF StartJob, ApiPart, OpPart, apiVars, opVars
    <3> QED
      BY <3>4, <3>5
  <2>3. CASE EndJob(o)
    <3>1. snode[o].base = "BUSY" /\ snode' = [snode EXCEPT ![o] = [snode[o] EXCEPT !.base = "IDLE"]]
      BY <2>3 DEF EndJob
    <3>2. ~Quiet(snode[o])
      BY <3>1 DEF Quiet
    <3>3. [snode[o] EXCEPT !.base = "IDLE"] \in SlurmNodes \ {NoNode} /\ snode[o] # NoNode
      <4>1. snode[o] \in [base : Bases, drain : BOOLEAN, reason : OurReasons \cup {"none", "ext"}]
        BY <2>1, <3>1, NoNodeFields DEF SlurmNodes
      <4> QED
        BY <3>1, <4>1 DEF SlurmNodes, NoNode, Bases
    <3>4. SlurmPart'
      BY <2>3, <3>1, <3>2, <3>3, SlurmMoves, ZenonT(40) DEF EndJob
    <3>5. ApiPart' /\ OpPart'
      BY <2>3 DEF EndJob, ApiPart, OpPart, apiVars, opVars
    <3> QED
      BY <3>4, <3>5
  <2> QED
    BY <1>6, <2>2, <2>3
<1>7. ASSUME NEW o \in Ordinals, PodGone(o) PROVE IInv'
  <2>1. ApiPart'
    BY <1>7, PodTypes, WritePodPart DEF PodGone
  <2>2. SlurmPart'
    <3>1. CASE snode[o].base \in {"IDLE", "BUSY"}
      <4> DEFINE n == [base |-> "DOWN", drain |-> snode[o].drain, reason |-> "ext"]
      <4>1. snode[o] \in SlurmNodes
        BY DEF SlurmPart
      <4>2. snode[o] # NoNode /\ n \in SlurmNodes /\ n # NoNode /\ n.base = "DOWN"
        BY <3>1, <4>1, NodeFields, NodeRecord DEF Bases
      <4>3. snode' = [snode EXCEPT ![o] = n]
        BY <1>7, <3>1 DEF PodGone, SlurmPart
      <4> HIDE DEF n
      <4>4. Quiet(n)
        BY <4>2 DEF Quiet
      <4> QED
        BY <1>7, <4>2, <4>3, <4>4, SlurmMoves, ZenonT(40) DEF PodGone
    <3>2. CASE snode[o].base \notin {"IDLE", "BUSY"}
      BY <1>7, <3>2, SlurmUnchanged DEF PodGone, slurmVars
    <3> QED
      BY <3>1, <3>2
  <2>3. OpPart'
    BY <1>7 DEF PodGone, OpPart, opVars
  <2> QED
    BY <2>1, <2>2, <2>3
<1> QED
  BY <1>1, <1>2, <1>3, <1>4, <1>5, <1>6, <1>7 DEF Cluster

\* Users, administrators, failures and restarts.
LEMMA DisturbanceIInv == IInv /\ Disturbance => IInv'
<1> SUFFICES ASSUME IInv, Disturbance PROVE IInv'
  OBVIOUS
<1> USE DEF IInv
<1>1. budget' \in 0 .. MaxDisturb
  <2>1. \E kind \in {"scale", "client", "crash", "cordonPod", "cordonNode", "drain", "undrain",
                     "kill", "fail"} : Disturbs(kind)
    BY ZenonT(40) DEF Disturbance, UserScales, ClientChanges, Restart, UserCordonsPod,
       UserCordonsNode,
       AdminDrains, AdminUndrains, PodKilled, PodFails
  <2> QED
    BY <2>1, BudgetType DEF OpPart
<1>2. CASE UserScales
  <2>1. ApiPart' /\ SlurmPart'
    BY <1>2, SlurmUnchanged DEF UserScales, ApiPart
  <2>2. OpPart'
    BY <1>1, <1>2 DEF UserScales, OpPart, opVars
  <2> QED
    BY <2>1, <2>2
<1>3. CASE ClientChanges
  <2>1. SlurmPart'
    <3>1. CASE client
      BY <1>3, <3>1, SlurmUnchanged DEF ClientChanges, slurmVars
    <3>2. CASE ~client
      BY <1>3, <3>2, SlurmListed DEF ClientChanges
    <3> QED
      BY <3>1, <3>2
  <2>2. ApiPart'
    BY <1>3 DEF ClientChanges, ApiPart, apiVars
  <2>3. OpPart'
    BY <1>1, <1>3 DEF ClientChanges, OpPart, apiVars, opVars
  <2> QED
    BY <2>1, <2>2, <2>3
<1>4. CASE Restart
  <2>1. SlurmPart'
    BY <1>4, SlurmListed DEF Restart
  <2>2. ApiPart'
    BY <1>4 DEF Restart, ApiPart
  <2>3. exp' \in [adds : Int, dels : Int, keys : SUBSET Ordinals, expired : BOOLEAN]
    BY <1>4 DEF Restart, NoExpectations
  <2>4. OpPart'
    BY <1>1, <1>4, <2>3, EndSyncPart DEF Restart, ApiPart
  <2> QED
    BY <2>1, <2>2, <2>4
<1>5. ASSUME NEW o \in Ordinals, UserCordonsPod(o) \/ PodKilled(o) PROVE IInv'
  <2>1. pod[o] \in Pods /\ pod[o] # NoPod /\ (~pod[o].cordon) \in BOOLEAN
    BY <1>5 DEF UserCordonsPod, PodKilled, ApiPart
  <2>2. ApiPart'
    BY <1>5, <2>1, PodUpdate, WritePodPart, ZenonT(40) DEF UserCordonsPod, PodKilled
  <2>3. SlurmPart' /\ OpPart'
    BY <1>1, <1>5, SlurmUnchanged DEF UserCordonsPod, PodKilled, OpPart, opVars
  <2> QED
    BY <2>2, <2>3
<1>6. ASSUME NEW o \in Ordinals, UserCordonsNode(o) PROVE IInv'
  <2>1. ApiPart' /\ SlurmPart'
    BY <1>6, SlurmUnchanged DEF UserCordonsNode, ApiPart
  <2>2. OpPart'
    BY <1>1, <1>6 DEF UserCordonsNode, OpPart, opVars
  <2> QED
    BY <2>1, <2>2
<1>7. ASSUME NEW o \in Ordinals, AdminDrains(o) PROVE IInv'
  <2>1. snode[o] \in SlurmNodes /\ snode[o] # NoNode
    BY <1>7, NoNodeFields DEF AdminDrains, SlurmPart
  <2>2. /\ Drained(snode[o], "ext") \in SlurmNodes /\ Drained(snode[o], "ext") # NoNode
        /\ Quiet(snode[o]) => Quiet(Drained(snode[o], "ext"))
    BY <2>1, NodeUpdate, ZenonT(40) DEF Quiet
  <2>3. SlurmPart'
    BY <1>7, <2>1, <2>2, SlurmMoves, ZenonT(40) DEF AdminDrains
  <2>4. ApiPart' /\ OpPart'
    BY <1>1, <1>7 DEF AdminDrains, ApiPart, OpPart, apiVars, opVars
  <2> QED
    BY <2>3, <2>4
<1>8. ASSUME NEW o \in Ordinals, AdminUndrains(o) PROVE IInv'
  <2>1. snode[o] \in SlurmNodes /\ snode[o] # NoNode
    BY <1>8, NoNodeFields DEF AdminUndrains, SlurmPart
  <2>2. Undrained(snode[o], "none") \in SlurmNodes /\ Undrained(snode[o], "none") # NoNode
    BY <2>1, NodeUpdate, ZenonT(40)
  <2>3. ~CacheAssumption
    BY <1>8 DEF AdminUndrains, Disturbs, CacheAssumption
  <2>4. SlurmPart'
    BY <1>8, <2>1, <2>2, <2>3, SlurmMoves, ZenonT(40) DEF AdminUndrains
  <2>5. ApiPart' /\ OpPart'
    BY <1>1, <1>8 DEF AdminUndrains, ApiPart, OpPart, apiVars, opVars
  <2> QED
    BY <2>4, <2>5
<1>9. ASSUME NEW o \in Ordinals, PodFails(o) PROVE IInv'
  <2>1. pod[o] \in Pods /\ pod[o] # NoPod
    BY <1>9, NoPodFields DEF PodFails, ApiPart
  <2>2. ApiPart'
    BY <1>9, <2>1, PodUpdate, WritePodPart, ZenonT(40) DEF PodFails
  <2>3. SlurmPart'
    <3>1. CASE snode[o].base \in {"IDLE", "BUSY"}
      <4> DEFINE r == IF snode[o].reason = "none" THEN "ext" ELSE snode[o].reason
                 n == [base |-> "NORESP", drain |-> snode[o].drain, reason |-> r]
      <4>1. snode[o] \in SlurmNodes
        BY DEF SlurmPart
      <4>2. r \in OurReasons \cup {"none", "ext"}
        BY <4>1, NodeFields
      <4>3. snode' = [snode EXCEPT ![o] = n]
        BY <1>9, <3>1, SMTT(20) DEF PodFails, SlurmPart
      <4> HIDE DEF r
      <4>4. snode[o] # NoNode /\ n \in SlurmNodes /\ n # NoNode /\ n.base = "NORESP"
        BY <3>1, <4>1, <4>2, NodeFields, NodeRecord DEF Bases
      <4> HIDE DEF n
      <4>5. Quiet(n)
        BY <4>4 DEF Quiet
      <4> QED
        BY <1>9, <4>3, <4>4, <4>5, SlurmMoves, ZenonT(40) DEF PodFails
    <3>2. CASE snode[o].base \notin {"IDLE", "BUSY"}
      BY <1>9, <3>2, SlurmUnchanged DEF PodFails, slurmVars
    <3> QED
      BY <3>1, <3>2
  <2>4. OpPart'
    BY <1>1, <1>9 DEF PodFails, OpPart, opVars
  <2> QED
    BY <2>2, <2>3, <2>4
<1> QED
  BY <1>2, <1>3, <1>4, <1>5, <1>6, <1>7, <1>8, <1>9 DEF Disturbance

\* Every step of the system preserves the invariant.
LEMMA NextIInv == IInv /\ [Next]_vars => IInv'
<1> SUFFICES ASSUME IInv, [Next]_vars PROVE IInv'
  OBVIOUS
<1>1. CASE UNCHANGED vars
  BY <1>1, SlurmUnchanged
  DEF IInv, ApiPart, OpPart, vars, apiVars, slurmVars, opVars
<1> QED
  BY <1>1, ReconcileIInv, ClusterIInv, DisturbanceIInv DEF Next

\* The invariant holds in every reachable state.
LEMMA AlwaysIInv == Spec => []IInv
BY InitIInv, NextIInv, PTL DEF Spec

\* Every reachable state is well typed: batches over ordinals that exist, records of
\* Slurm that were registered, expectations about known pods.
THEOREM TypeCorrect == Spec => []TypeOK
<1>1. IInv => TypeOK
  BY DEF IInv, ApiPart, SlurmPart, OpPart, TypeOK
<1> QED
  BY <1>1, AlwaysIInv, PTL

\* Between two listings the operator may rely on its cached view of the Slurm nodes: a
\* node it sees drained and idle runs no work, if updates refresh the cache and nobody
\* else resumes nodes.
THEOREM CacheStaysSound ==
    ASSUME CacheAssumption
    PROVE  Spec => []SlurmCacheSound
<1>1. IInv => SlurmCacheSound
  BY DEF IInv, SlurmPart
<1> QED
  BY <1>1, AlwaysIInv, PTL

-----------------------------------------------------------------------------
(* Scale-in kills no job.                                                   *)

\* Of the steps of a reconcile, cordoning a pod leaves its deletion timestamp alone, and
\* so does deleting another pod.
LEMMA TermKept ==
    ASSUME ApiPart, NEW o \in Ordinals, NEW q \in Ordinals, NEW p, NEW f, NEW res,
           \/ MakePodCordonAndDrain(q, p, "term", f, res)
           \/ DeletePod(q, f, res) /\ q # o
           \/ UNCHANGED pod
    PROVE  pod'[o].term = pod[o].term
<1>1. pod \in [Ordinals -> Pods]
  BY DEF ApiPart
<1>2. CASE UNCHANGED pod
  BY <1>2
<1>3. CASE pod' = [pod EXCEPT ![q] = [pod[q] EXCEPT !.cordon = TRUE]] /\ pod[q] # NoPod
  BY <1>1, <1>3 DEF Pods
<1>4. CASE pod' = [pod EXCEPT ![q] = [pod[q] EXCEPT !.term = TRUE]] /\ q # o
  BY <1>1, <1>4, ZenonT(40)
<1> QED
  BY <1>2, <1>3, <1>4, ZenonT(40) DEF MakePodCordonAndDrain, SetPodCordon, DeletePod, WritePod

\* Scale-in deletes no pod whose Slurm node has work, although processCondemned asks a
\* cache that may be older than the job: for every size of the NodeSet and any
\* interleaving with users, the kubelet, slurmctld, failures and restarts.
THEOREM ScaleInKillsNoJob ==
    ASSUME CacheAssumption
    PROVE  Spec => NoJobKilledByScaleIn
<1>1. ASSUME IInv, [Next]_vars, NEW o \in Ordinals, CondemnedDelete(o), client, o \notin newReg
      PROVE  snode[o].base # "BUSY"
  <2>1. /\ pc = "delete" /\ o \in batch.todo /\ o \notin batch'.todo
        /\ pod'[o].term # pod[o].term
    BY <1>1, ZenonT(40) DEF CondemnedDelete
  <2>2. \E q \in Ordinals, f \in Failing({"patch", "slurm", "delete"}) : ProcessCondemned(q, f)
    <3>1. CASE Reconcile
      BY <2>1, <3>1, ZenonT(40) DEF Reconcile, Sync, RefreshNodeCache, SyncCordon, CordonDone,
         SyncNodeSetPods, SyncPodUncordon, UncordonDone, CreateNodeSetPod, CreateDone,
         DeleteDone, ProcessNodeSetPod, ProcessDone, SyncSlurmNodes, DeleteUnregistered,
         SyncDone
    <3>2. ~Cluster
      BY <2>1, ZenonT(40) DEF Cluster, Deliver, Expire, PollSlurm, PodRuns, Register,
         StartJob, EndJob,
         PodGone, opVars
    <3>3. ~Disturbance
      BY <2>1, ZenonT(40) DEF Disturbance, UserScales, ClientChanges, Restart, UserCordonsPod,
         UserCordonsNode, AdminDrains, AdminUndrains, PodKilled, PodFails, opVars
    <3>4. ~UNCHANGED vars
      BY <2>1 DEF vars, opVars
    <3> QED
      BY <1>1, <3>1, <3>2, <3>3, <3>4 DEF Next
  <2>3. PICK q \in Ordinals, f \in Failing({"patch", "slurm", "delete"}) : ProcessCondemned(q, f)
    BY <2>2
  <2>4. PICK res \in Results :
          \/ UNCHANGED pod
          \/ MakePodCordonAndDrain(q, cache[q], "term", f, res)
          \/ IsNodeDrained(client, scache[q]) /\ DeletePod(q, f, res)
    BY <2>3, ZenonT(40) DEF ProcessCondemned
  <2>5. q = o /\ IsNodeDrained(client, scache[o])
    BY <1>1, <2>1, <2>4, TermKept, ZenonT(40) DEF IInv
  <2>6. /\ scache[o] = NoNode => snode[o] = NoNode
        /\ scache[o].drain /\ scache[o].base # "BUSY" => Quiet(snode[o])
    BY <1>1 DEF IInv, SlurmPart, SlurmCacheSound
  <2> QED
    BY <1>1, <2>5, <2>6, NoNodeFields DEF IsNodeDrained, Unknown, Quiet
<1>2. IInv /\ [Next]_vars =>
        [\A o \in Ordinals :
            CondemnedDelete(o) /\ client /\ o \notin newReg => snode[o].base # "BUSY"]_vars
  BY <1>1
<1> QED
  BY <1>2, AlwaysIInv, PTL DEF Spec, NoJobKilledByScaleIn

-----------------------------------------------------------------------------
(* The implementation of WorkerLife.                                        *)

\* A Slurm node in service has a running pod. Without it a job could start on a worker
\* that is not there.
ServedByPods == \A o \in Ordinals : snode[o].base \in {"IDLE", "BUSY"} => pod[o].phase = "Running"

-----------------------------------------------------------------------------
(* The effects of a step.                                                   *)

\* Nothing that matters to worker o changes.
Same(o) ==
    /\ pod'[o] = NoPod <=> pod[o] = NoPod
    /\ pod'[o].term = pod[o].term
    /\ pod'[o].phase = pod[o].phase
    /\ snode'[o].base = snode[o].base

Others(o) == \A q \in Ordinals \ {o} : Same(q)

Appears(o) == pod[o] = NoPod /\ pod'[o] = NewPod /\ snode'[o].base = snode[o].base

Runs(o) ==
    /\ pod[o] # NoPod /\ pod'[o] # NoPod /\ pod'[o].term = pod[o].term
    /\ pod'[o].phase = "Running" /\ snode'[o].base = snode[o].base

Registers(o) ==
    /\ pod'[o] = pod[o] /\ pod[o].phase = "Running"
    /\ snode[o].base \notin {"IDLE", "BUSY"} /\ snode'[o].base = "IDLE"

Works(o) == pod'[o] = pod[o] /\ snode[o].base = "IDLE" /\ snode'[o].base = "BUSY"

Rests(o) == pod'[o] = pod[o] /\ snode[o].base = "BUSY" /\ snode'[o].base = "IDLE"

Leaves(o) == pod[o].term /\ pod'[o] = NoPod /\ snode'[o].base \notin {"IDLE", "BUSY"}

Terminates(o) ==
    /\ pod[o] # NoPod /\ ~pod[o].term /\ pod'[o] # NoPod /\ pod'[o].term
    /\ pod'[o].phase = pod[o].phase /\ snode'[o].base = snode[o].base

Removed(o) == Terminates(o) /\ (snode[o].base # "BUSY" \/ o \in Excused)

Fails(o) ==
    /\ pod[o] # NoPod /\ pod'[o] # NoPod /\ pod'[o].term = pod[o].term
    /\ snode'[o].base \notin {"IDLE", "BUSY"}

Paid == budget > 0 /\ budget' = budget - 1

Effect ==
    \/ (budget' = budget \/ Paid) /\ \A q \in Ordinals : Same(q)
    \/ /\ budget' = budget \/ Paid
       /\ \E o \in Ordinals :
            /\ Others(o)
            /\ \/ Appears(o) \/ Runs(o) \/ Registers(o) \/ Works(o) \/ Rests(o)
               \/ Leaves(o) \/ Removed(o)
    \/ Paid /\ \E o \in Ordinals : Others(o) /\ (Terminates(o) \/ Fails(o))

-----------------------------------------------------------------------------
(* The calls.                                                               *)

\* A pod keeps its other fields when one is written.
LEMMA PodFields ==
    ASSUME NEW p \in Pods, p # NoPod, NEW v \in BOOLEAN, NEW ph \in {"Running", "Failed"}
    PROVE  LET c == [p EXCEPT !.cordon = v]
               t == [p EXCEPT !.term = TRUE]
               r == [p EXCEPT !.phase = ph]
           IN  /\ c # NoPod /\ c.term = p.term /\ c.phase = p.phase
               /\ t # NoPod /\ t.term = TRUE /\ t.phase = p.phase
               /\ r # NoPod /\ r.term = p.term /\ r.phase = ph
BY DEF Pods, NoPod

\* A step that leaves pods and Slurm nodes alone.
LEMMA SteadyUnchanged ==
    ASSUME UNCHANGED <<pod, snode>>
    PROVE  \A q \in Ordinals : Same(q)
BY DEF Same

\* Writing the pod-cordon annotation.
LEMMA CordonSteady ==
    ASSUME ApiPart, NEW o \in Ordinals, NEW p, NEW v \in BOOLEAN, NEW f, NEW res,
           SetPodCordon(o, p, v, f, res)
    PROVE  \A q \in Ordinals :
             /\ pod'[q] = NoPod <=> pod[q] = NoPod
             /\ pod'[q].term = pod[q].term
             /\ pod'[q].phase = pod[q].phase
<1>1. pod \in [Ordinals -> Pods]
  BY DEF ApiPart
<1>2. CASE UNCHANGED pod
  BY <1>2
<1>3. CASE pod[o] # NoPod /\ pod' = [pod EXCEPT ![o] = [pod[o] EXCEPT !.cordon = v]]
  <2>1. TAKE q \in Ordinals
  <2>2. CASE q = o
    BY <1>1, <1>3, <2>2, PodFields
  <2>3. CASE q # o
    BY <1>1, <1>3, <2>3, SMTT(20)
  <2> QED
    BY <2>2, <2>3
<1> QED
  BY <1>2, <1>3 DEF SetPodCordon, WritePod

\* Draining or undraining a Slurm node.
LEMMA DrainSteady ==
    ASSUME SlurmPart, NEW o \in Ordinals, NEW reason, NEW f, NEW res,
           \/ MakeNodeDrain(o, reason, f, res)
           \/ MakeNodeUndrain(o, reason, f, res)
           \/ UNCHANGED slurmVars
    PROVE  \A q \in Ordinals : snode'[q].base = snode[q].base
<1>1. snode \in [Ordinals -> SlurmNodes]
  BY DEF SlurmPart
<1>2. \A n \in SlurmNodes : Drained(n, reason).base = n.base /\ Undrained(n, reason).base = n.base
  BY DEF SlurmNodes, NoNode, Drained, Undrained
<1>3. CASE UNCHANGED slurmVars
  BY <1>3 DEF slurmVars
<1>4. CASE UpdateNode(o, Drained(snode[o], reason)) \/ UpdateNode(o, Undrained(snode[o], reason))
  BY <1>1, <1>2, <1>4 DEF UpdateNode
<1> QED
  BY <1>3, <1>4 DEF MakeNodeDrain, MakeNodeUndrain

\* Cordoning and draining, uncordoning and undraining.
LEMMA CallsSteady ==
    ASSUME ApiPart, SlurmPart, NEW o \in Ordinals, NEW p, NEW reason, NEW f, NEW res,
           \/ MakePodCordonAndDrain(o, p, reason, f, res)
           \/ MakePodUncordonAndUndrain(o, p, f, res)
           \/ /\ MakeNodeDrain(o, reason, f, res) \/ MakeNodeUndrain(o, reason, f, res)
              /\ UNCHANGED pod
           \/ UNCHANGED <<pod, slurmVars>>
    PROVE  \A q \in Ordinals : Same(q)
<1>1. \A q \in Ordinals : snode'[q].base = snode[q].base
  BY DrainSteady, ZenonT(40) DEF MakePodCordonAndDrain, MakePodUncordonAndUndrain, slurmVars
<1>2. CASE UNCHANGED pod
  BY <1>1, <1>2, ZenonT(40) DEF Same
<1>3. CASE \E r \in Results, v \in BOOLEAN : SetPodCordon(o, p, v, f, r)
  BY <1>1, <1>3, CordonSteady, ZenonT(40) DEF Same
<1> QED
  BY <1>2, <1>3, ZenonT(40) DEF MakePodCordonAndDrain, MakePodUncordonAndUndrain

\* Deleting a pod marks it, if it is there and not marked yet.
LEMMA DeleteEffect ==
    ASSUME ApiPart, NEW o \in Ordinals, NEW f, NEW res, DeletePod(o, f, res), UNCHANGED snode
    PROVE  (\A q \in Ordinals : Same(q)) \/ (Terminates(o) /\ Others(o))
<1>1. pod \in [Ordinals -> Pods] /\ pod[o] \in Pods
  BY DEF ApiPart
<1>2. CASE UNCHANGED pod
  BY <1>2, SteadyUnchanged
<1>3. CASE pod[o] # NoPod /\ pod' = [pod EXCEPT ![o] = [pod[o] EXCEPT !.term = TRUE]]
  <2>1. Others(o)
    BY <1>1, <1>3 DEF Others, Same
  <2>2. pod'[o] = [pod[o] EXCEPT !.term = TRUE]
    BY <1>1, <1>3
  <2>3. pod'[o] # NoPod /\ pod'[o].term = TRUE /\ pod'[o].phase = pod[o].phase
    BY <1>1, <1>3, <2>2, PodFields, ZenonT(40)
  <2>4. CASE pod[o].term
    <3>1. pod[o].term = TRUE
      BY <1>1, <1>3, <2>4 DEF Pods
    <3>2. Same(o)
      BY <1>3, <2>3, <3>1, ZenonT(40) DEF Same
    <3> QED
      BY <2>1, <3>2 DEF Others
  <2>5. CASE ~pod[o].term
    BY <1>3, <2>1, <2>3, <2>5 DEF Terminates
  <2> QED
    BY <2>4, <2>5
<1> QED
  BY <1>2, <1>3 DEF DeletePod, WritePod

-----------------------------------------------------------------------------
(* Every step has one of the effects.                                       *)

\* A step that changes no worker, whatever it costs.
LEMMA SteadyEffect ==
    ASSUME \A q \in Ordinals : Same(q), budget' = budget \/ Paid
    PROVE  Effect
BY DEF Effect

\* A call that fails costs, one that does not is free.
LEMMA SpendPays ==
    ASSUME NEW f, Spend(f)
    PROVE  budget' = budget \/ Paid
BY DEF Spend, Paid

\* A pod that the operator deletes is idle or excused.
LEMMA DeleteRemoves ==
    ASSUME ApiPart, NEW o \in Ordinals, NEW f, NEW res, DeletePod(o, f, res), UNCHANGED snode,
           budget' = budget \/ Paid,
           snode[o].base # "BUSY" \/ o \in Excused
    PROVE  Effect
<1>1. CASE \A q \in Ordinals : Same(q)
  BY <1>1, SteadyEffect, SMTT(20)
<1>2. CASE Terminates(o) /\ Others(o)
  BY <1>2 DEF Effect, Removed
<1> QED
  BY <1>1, <1>2, DeleteEffect

\* processCondemned: the Slurm node is drained in a cache that is sound.
LEMMA CondemnedEffect ==
    ASSUME CacheAssumption, IInv, NEW o \in Ordinals, NEW f, ProcessCondemned(o, f)
    PROVE  Effect
<1>1. ApiPart /\ SlurmPart /\ (budget' = budget \/ Paid)
  BY SpendPays, ZenonT(40) DEF IInv, ProcessCondemned
<1>2. PICK res \in Results :
        \/ UNCHANGED <<pod, slurmVars>>
        \/ MakePodCordonAndDrain(o, cache[o], "term", f, res)
        \/ IsNodeDrained(client, scache[o]) /\ DeletePod(o, f, res) /\ UNCHANGED slurmVars
  BY ZenonT(40) DEF ProcessCondemned
<1>3. CASE UNCHANGED <<pod, slurmVars>> \/ MakePodCordonAndDrain(o, cache[o], "term", f, res)
  BY <1>1, <1>3, CallsSteady, SteadyEffect
<1>4. CASE IsNodeDrained(client, scache[o]) /\ DeletePod(o, f, res) /\ UNCHANGED slurmVars
  <2>1. CASE client /\ o \notin newReg
    <3>1. /\ scache[o] = NoNode => snode[o] = NoNode
          /\ scache[o].drain /\ scache[o].base # "BUSY" => Quiet(snode[o])
      BY <1>1, <2>1 DEF SlurmPart, SlurmCacheSound
    <3>2. snode[o].base # "BUSY"
      BY <1>4, <2>1, <3>1, NoNodeFields DEF IsNodeDrained, Unknown, Quiet
    <3> QED
      BY <1>1, <1>4, <3>2, DeleteRemoves, ZenonT(40) DEF slurmVars
  <2>2. CASE ~client \/ o \in newReg
    <3>1. o \in Excused
      BY <2>2 DEF Excused
    <3> QED
      BY <1>1, <1>4, <3>1, DeleteRemoves DEF slurmVars
  <2> QED
    BY <2>1, <2>2
<1> QED
  BY <1>2, <1>3, <1>4

\* The steps of a reconcile.
LEMMA ReconcileEffect ==
    ASSUME CacheAssumption, IInv, Reconcile
    PROVE  Effect
<1> USE DEF IInv
<1>1. CASE Sync \/ CordonDone \/ SyncNodeSetPods \/ UncordonDone \/ CreateDone \/ DeleteDone
           \/ ProcessDone \/ SyncSlurmNodes \/ SyncDone
  <2>1. UNCHANGED <<pod, snode, budget>>
    BY <1>1, ZenonT(40) DEF Sync, CordonDone, SyncNodeSetPods, UncordonDone, CreateDone,
       DeleteDone,
       ProcessDone, SyncSlurmNodes, SyncDone, apiVars, slurmVars
  <2> QED
    BY <2>1, SteadyUnchanged, SteadyEffect
<1>2. ASSUME NEW f, RefreshNodeCache(f) PROVE Effect
  <2>1. UNCHANGED <<pod, snode>> /\ (budget' = budget \/ Paid)
    BY <1>2, SpendPays DEF RefreshNodeCache, apiVars
  <2> QED
    BY <2>1, SteadyUnchanged, SteadyEffect
<1>3. ASSUME NEW o \in Ordinals, NEW f, SyncCordon(o, f) PROVE Effect
  <2>1. budget' = budget \/ Paid
    BY <1>3, SpendPays, ZenonT(40) DEF SyncCordon
  <2>2. PICK res \in Results :
          \/ UNCHANGED <<pod, slurmVars>>
          \/ MakePodCordonAndDrain(o, snap[o], "node", f, res)
          \/ /\ MakeNodeDrain(o, "pod", f, res) \/ MakeNodeUndrain(o, "uncordon", f, res)
             /\ UNCHANGED pod
    BY <1>3, ZenonT(40) DEF SyncCordon
  <2>3. \A q \in Ordinals : Same(q)
    BY <2>2, CallsSteady, ZenonT(40)
  <2> QED
    BY <2>1, <2>3, SteadyEffect
<1>4. ASSUME NEW o \in Ordinals, NEW f, SyncPodUncordon(o, f) PROVE Effect
  <2>1. budget' = budget \/ Paid
    BY <1>4, SpendPays DEF SyncPodUncordon
  <2>2. PICK res \in Results :
          UNCHANGED <<pod, slurmVars>> \/ MakePodUncordonAndUndrain(o, snap[o], f, res)
    BY <1>4 DEF SyncPodUncordon
  <2>3. \A q \in Ordinals : Same(q)
    BY <2>2, CallsSteady, ZenonT(40)
  <2> QED
    BY <2>1, <2>3, SteadyEffect
<1>5. ASSUME NEW o \in Ordinals, NEW f, CreateNodeSetPod(o, f) PROVE Effect
  <2>1. (budget' = budget \/ Paid) /\ UNCHANGED snode
    BY <1>5, SpendPays DEF CreateNodeSetPod, slurmVars
  <2>2. CASE UNCHANGED pod
    BY <2>1, <2>2, SteadyUnchanged, SteadyEffect
  <2>3. CASE pod[o] = NoPod /\ pod' = [pod EXCEPT ![o] = NewPod]
    <3>1. Others(o) /\ Appears(o)
      BY <2>1, <2>3 DEF ApiPart, Others, Same, Appears
    <3> QED
      BY <2>1, <3>1 DEF Effect
  <2> QED
    BY <1>5, <2>2, <2>3, SMTT(20) DEF CreateNodeSetPod, WritePod
<1>6. ASSUME NEW o \in Ordinals, NEW f, ProcessNodeSetPod(o, f) PROVE Effect
  <2>1. (budget' = budget \/ Paid) /\ UNCHANGED snode
    BY <1>6, SpendPays DEF ProcessNodeSetPod, slurmVars
  <2>2. PICK res \in Results :
          UNCHANGED pod \/ (snap[o].phase = "Failed" /\ DeletePod(o, f, res))
    BY <1>6 DEF ProcessNodeSetPod
  <2>3. CASE UNCHANGED pod
    BY <2>1, <2>3, SteadyUnchanged, SteadyEffect
  <2>4. CASE snap[o].phase = "Failed" /\ DeletePod(o, f, res)
    <3>1. o \in Excused
      BY <2>4 DEF Excused
    <3> QED
      BY <2>1, <2>4, <3>1, DeleteRemoves
  <2> QED
    BY <2>2, <2>3, <2>4
<1>7. ASSUME NEW o \in Ordinals, NEW f, DeleteUnregistered(o, f) PROVE Effect
  <2>1. (budget' = budget \/ Paid) /\ UNCHANGED snode
    BY <1>7, SpendPays, SMTT(20) DEF DeleteUnregistered, slurmVars
  <2>2. PICK res \in Results : DeletePod(o, f, res)
    BY <1>7 DEF DeleteUnregistered
  <2>3. o \in Excused
    BY <1>7 DEF DeleteUnregistered, Excused
  <2> QED
    BY <2>1, <2>2, <2>3, DeleteRemoves, SMTT(20)
<1> QED
  BY <1>1, <1>2, <1>3, <1>4, <1>5, <1>6, <1>7, CondemnedEffect DEF Reconcile

\* The kubelet, slurmd, slurmctld and the informer.
LEMMA ClusterEffect ==
    ASSUME IInv, Cluster
    PROVE  Effect
<1>1. pod \in [Ordinals -> Pods] /\ snode \in [Ordinals -> SlurmNodes]
  BY DEF IInv, ApiPart, SlurmPart
<1>2. CASE Deliver \/ Expire \/ PollSlurm
  <2>1. UNCHANGED <<pod, snode, budget>>
    BY <1>2 DEF Deliver, Expire, PollSlurm, apiVars, slurmVars
  <2> QED
    BY <2>1, SteadyUnchanged, SteadyEffect
<1>3. ASSUME NEW o \in Ordinals, PodRuns(o) PROVE Effect
  <2>1. /\ pod[o] \in Pods /\ pod[o] # NoPod /\ UNCHANGED <<snode, budget>>
        /\ pod' = [pod EXCEPT ![o] = [pod[o] EXCEPT !.phase = "Running"]]
    BY <1>1, <1>3, NoPodFields DEF PodRuns, WritePod, slurmVars
  <2>2. pod'[o] = [pod[o] EXCEPT !.phase = "Running"] /\ Others(o)
    BY <1>1, <2>1 DEF Others, Same
  <2>3. pod'[o] # NoPod /\ pod'[o].term = pod[o].term /\ pod'[o].phase = "Running"
    BY <2>1, <2>2 DEF Pods, NoPod
  <2>4. Runs(o)
    BY <2>1, <2>3 DEF Runs
  <2> QED
    BY <2>1, <2>2, <2>4 DEF Effect
<1>4. ASSUME NEW o \in Ordinals, Register(o) PROVE Effect
  <2>1. PICK d \in {FALSE, snode[o].drain} :
          snode' = [snode EXCEPT ![o] =
                      [base |-> "IDLE", drain |-> d,
                       reason |-> IF d THEN snode[o].reason ELSE "none"]]
    BY <1>4, ZenonT(40) DEF Register
  <2>2. Others(o) /\ Registers(o) /\ budget' = budget
    BY <1>1, <1>4, <2>1 DEF Register, Others, Same, Registers, apiVars
  <2> QED
    BY <2>2, ZenonT(40) DEF Effect
<1>5. ASSUME NEW o \in Ordinals, StartJob(o) \/ EndJob(o) PROVE Effect
  <2>1. PICK b : /\ snode' = [snode EXCEPT ![o] = [snode[o] EXCEPT !.base = b]]
                 /\ \/ b = "BUSY" /\ snode[o].base = "IDLE"
                    \/ b = "IDLE" /\ snode[o].base = "BUSY"
    BY <1>5 DEF StartJob, EndJob
  <2>2. [snode[o] EXCEPT !.base = b].base = b
    BY <1>1 DEF SlurmNodes, NoNode
  <2>3. snode'[o].base = b
    BY <1>1, <2>1, <2>2
  <2>4. Others(o) /\ (Works(o) \/ Rests(o)) /\ budget' = budget
    BY <1>1, <1>5, <2>1, <2>3 DEF StartJob, EndJob, Others, Same, Works, Rests, apiVars
  <2> QED
    BY <2>4 DEF Effect
<1>6. ASSUME NEW o \in Ordinals, PodGone(o) PROVE Effect
  <2>1. pod[o].term /\ pod' = [pod EXCEPT ![o] = NoPod] /\ budget' = budget
    BY <1>6 DEF PodGone, WritePod
  <2>2. PICK n : /\ n.base \notin {"IDLE", "BUSY"}
                 /\ snode' = [snode EXCEPT ![o] = n]
    <3>1. CASE snode[o].base \in {"IDLE", "BUSY"}
      BY <1>6, <3>1, ZenonT(40) DEF PodGone
    <3>2. CASE snode[o].base \notin {"IDLE", "BUSY"}
      <4>1. snode' = [snode EXCEPT ![o] = snode[o]]
        BY <1>1, <1>6, <3>2 DEF PodGone
      <4> QED
        BY <3>2, <4>1, ZenonT(40)
    <3> QED
      BY <3>1, <3>2
  <2>3. Others(o) /\ Leaves(o)
    BY <1>1, <2>1, <2>2 DEF Others, Same, Leaves
  <2> QED
    BY <2>1, <2>3 DEF Effect
<1> QED
  BY <1>2, <1>3, <1>4, <1>5, <1>6 DEF Cluster

\* Users, administrators and faults.
LEMMA DisturbanceEffect ==
    ASSUME IInv, Disturbance
    PROVE  Effect
<1>1. pod \in [Ordinals -> Pods] /\ snode \in [Ordinals -> SlurmNodes]
  BY DEF IInv, ApiPart, SlurmPart
<1>2. Paid
  BY ZenonT(40) DEF Disturbance, UserScales, ClientChanges, Restart, UserCordonsPod,
     UserCordonsNode,
     AdminDrains, AdminUndrains, PodKilled, PodFails, Disturbs, Paid
<1>3. CASE UserScales \/ ClientChanges \/ Restart \/ \E o \in Ordinals : UserCordonsNode(o)
  <2>1. UNCHANGED <<pod, snode>>
    BY <1>3 DEF UserScales, ClientChanges, Restart, UserCordonsNode, apiVars, slurmVars
  <2> QED
    BY <1>2, <2>1, SteadyUnchanged, SteadyEffect
<1>4. ASSUME NEW o \in Ordinals, UserCordonsPod(o) PROVE Effect
  <2>1. /\ pod[o] \in Pods /\ pod[o] # NoPod /\ UNCHANGED snode
        /\ pod' = [pod EXCEPT ![o] = [pod[o] EXCEPT !.cordon = ~pod[o].cordon]]
    BY <1>1, <1>4 DEF UserCordonsPod, WritePod, slurmVars
  <2>2. (~pod[o].cordon) \in BOOLEAN
    OBVIOUS
  <2>3. Same(o)
    BY <1>1, <2>1, <2>2, PodFields, ZenonT(40) DEF Same
  <2>4. \A q \in Ordinals : Same(q)
    BY <1>1, <2>1, <2>3 DEF Same
  <2> QED
    BY <1>2, <2>4, SteadyEffect
<1>5. ASSUME NEW o \in Ordinals, AdminDrains(o) \/ AdminUndrains(o) PROVE Effect
  <2>1. \A n \in SlurmNodes : Drained(n, "ext").base = n.base /\ Undrained(n, "none").base = n.base
    BY DEF SlurmNodes, NoNode, Drained, Undrained
  <2>2. PICK n : snode' = [snode EXCEPT ![o] = n] /\ n.base = snode[o].base /\ UNCHANGED pod
    BY <1>1, <1>5, <2>1 DEF AdminDrains, AdminUndrains, apiVars
  <2>3. \A q \in Ordinals : Same(q)
    BY <1>1, <2>2 DEF Same
  <2> QED
    BY <1>2, <2>3, SteadyEffect
<1>6. ASSUME NEW o \in Ordinals, PodKilled(o) PROVE Effect
  <2>1. /\ pod[o] \in Pods /\ pod[o] # NoPod /\ ~pod[o].term /\ UNCHANGED snode
        /\ pod' = [pod EXCEPT ![o] = [pod[o] EXCEPT !.term = TRUE]]
    BY <1>1, <1>6 DEF PodKilled, WritePod, slurmVars
  <2>2. pod'[o] = [pod[o] EXCEPT !.term = TRUE] /\ Others(o)
    BY <1>1, <2>1 DEF Others, Same
  <2>3. pod'[o] # NoPod /\ pod'[o].term = TRUE /\ pod'[o].phase = pod[o].phase
    BY <2>1, <2>2 DEF Pods, NoPod
  <2>4. Terminates(o)
    BY <2>1, <2>3 DEF Terminates
  <2> QED
    BY <1>2, <2>2, <2>4 DEF Effect
<1>7. ASSUME NEW o \in Ordinals, PodFails(o) PROVE Effect
  <2>1. /\ pod[o] \in Pods /\ pod[o] # NoPod
        /\ pod' = [pod EXCEPT ![o] = [pod[o] EXCEPT !.phase = "Failed"]]
    BY <1>1, <1>7, NoPodFields DEF PodFails, WritePod
  <2>2. PICK n : n.base \notin {"IDLE", "BUSY"} /\ snode' = [snode EXCEPT ![o] = n]
    <3>1. CASE snode[o].base \in {"IDLE", "BUSY"}
      <4>1. PICK r : snode' = [snode EXCEPT ![o] =
                                  [base |-> "NORESP", drain |-> snode[o].drain, reason |-> r]]
        BY <1>7, <3>1, ZenonT(40) DEF PodFails
      <4> DEFINE n == [base |-> "NORESP", drain |-> snode[o].drain, reason |-> r]
      <4>2. n.base \notin {"IDLE", "BUSY"}
        OBVIOUS
      <4> QED
        BY <4>1, <4>2, ZenonT(40)
    <3>2. CASE snode[o].base \notin {"IDLE", "BUSY"}
      <4>1. snode' = [snode EXCEPT ![o] = snode[o]]
        BY <1>1, <1>7, <3>2 DEF PodFails
      <4> QED
        BY <3>2, <4>1, ZenonT(40)
    <3> QED
      BY <3>1, <3>2
  <2>3. pod'[o] = [pod[o] EXCEPT !.phase = "Failed"] /\ Others(o)
    BY <1>1, <2>1, <2>2 DEF Others, Same
  <2>4. Fails(o)
    BY <1>1, <2>1, <2>2, <2>3, PodFields, ZenonT(40) DEF Fails
  <2> QED
    BY <1>2, <2>3, <2>4 DEF Effect
<1> QED
  BY <1>3, <1>4, <1>5, <1>6, <1>7 DEF Disturbance

-----------------------------------------------------------------------------
(* An effect keeps the invariant and is a step of WorkerLife.               *)

\* Slurm nodes in service keep their running pods.
LEMMA EffectServed ==
    ASSUME IInv, IInv', ServedByPods, Effect
    PROVE  ServedByPods'
<1> SUFFICES ASSUME NEW q \in Ordinals, snode'[q].base \in {"IDLE", "BUSY"}
             PROVE  pod'[q].phase = "Running"
  BY DEF ServedByPods
<1>1. snode[q].base \in {"IDLE", "BUSY"} => pod[q].phase = "Running"
  BY DEF ServedByPods
<1>2. CASE Same(q)
  BY <1>1, <1>2 DEF Same
<1>3. CASE Appears(q) \/ Runs(q) \/ Registers(q) \/ Works(q) \/ Rests(q) \/ Leaves(q)
           \/ Terminates(q) \/ Fails(q)
  BY <1>1, <1>3, NoPodFields, ZenonT(40) DEF Appears, Runs, Registers, Works, Rests, Leaves,
     Terminates, Fails
<1> QED
  BY <1>2, <1>3, ZenonT(40) DEF Effect, Others, Removed

\* The pod that is there is the pod that is not NoPod; one that terminates is there.
LEMMA EffectLife ==
    ASSUME IInv, IInv', ServedByPods, Effect
    PROVE  Life!Next
<1>1. /\ pod \in [Ordinals -> Pods] /\ pod' \in [Ordinals -> Pods]
      /\ Excused' \in SUBSET Ordinals
      /\ \A q \in Ordinals : pod[q] = NoPod => ~pod[q].term
  BY NoPodFields DEF IInv, ApiPart, Excused
<1>2. CASE (budget' = budget \/ Paid) /\ \A q \in Ordinals : Same(q)
  <2>1. Life!Nothing
    BY <1>2 DEF Life!Nothing, PodsIn, Same
  <2> QED
    BY <1>1, <1>2, <2>1 DEF Life!Next, Life!Interfered, Paid
<1>3. ASSUME NEW o \in Ordinals, Others(o), budget' = budget \/ Paid,
             \/ Appears(o) \/ Runs(o) \/ Registers(o) \/ Works(o) \/ Rests(o)
             \/ Leaves(o) \/ Removed(o)
      PROVE  Life!Next
  <2> USE DEF Others, Same, PodsIn
  <2>1. CASE Appears(o)
    <3>1. NewPod # NoPod /\ NewPod.term = FALSE
      BY DEF NewPod, NoPod
    <3>2. Life!Create(o)
      BY <1>1, <1>3, <2>1, <3>1, NoPodFields, ZenonT(40) DEF Life!Create, Appears
    <3> QED
      BY <1>1, <1>3, <3>2, ZenonT(40) DEF Life!Next, Life!Interfered, Paid
  <2>2. CASE Runs(o) \/ Registers(o)
    <3>1. Life!Nothing
      BY <1>3, <2>2, ZenonT(40) DEF Life!Nothing, Runs, Registers
    <3> QED
      BY <1>1, <1>3, <3>1, ZenonT(40) DEF Life!Next, Life!Interfered, Paid
  <2>3. CASE Works(o)
    <3>1. pod[o] # NoPod
      BY <2>3, NoPodFields DEF ServedByPods, Works
    <3>2. Life!StartJob(o)
      BY <1>3, <2>3, <3>1, ZenonT(40) DEF Life!StartJob, Works
    <3> QED
      BY <1>1, <1>3, <3>2, ZenonT(40) DEF Life!Next, Life!Interfered, Paid
  <2>4. CASE Rests(o)
    <3>1. Life!EndJob(o)
      BY <1>3, <2>4, ZenonT(40) DEF Life!EndJob, Rests
    <3> QED
      BY <1>1, <1>3, <3>1, ZenonT(40) DEF Life!Next, Life!Interfered, Paid
  <2>5. CASE Leaves(o)
    <3>1. Life!Gone(o)
      BY <1>3, <2>5, NoPodFields, ZenonT(40) DEF Life!Gone, Leaves
    <3> QED
      BY <1>1, <1>3, <3>1, ZenonT(40) DEF Life!Next, Life!Interfered, Paid
  <2>6. CASE Removed(o)
    <3>1. Life!Remove(o)
      BY <1>3, <2>6, ZenonT(40) DEF Life!Remove, Removed, Terminates
    <3> QED
      BY <1>1, <1>3, <3>1, ZenonT(40) DEF Life!Next, Life!Interfered, Paid
  <2> QED
    BY <1>3, <2>1, <2>2, <2>3, <2>4, <2>5, <2>6
<1>4. ASSUME NEW o \in Ordinals, Others(o), Paid, Terminates(o) \/ Fails(o)
      PROVE  Life!Next
  <2> USE DEF Others, Same, PodsIn
  <2>1. CASE Terminates(o)
    <3>1. Life!Evict(o)
      BY <1>4, <2>1, ZenonT(40) DEF Life!Evict, Terminates
    <3> QED
      BY <1>1, <1>4, <3>1, ZenonT(40) DEF Life!Next, Life!Interfered, Paid
  <2>2. CASE Fails(o)
    <3>1. Life!Fail(o)
      BY <1>4, <2>2, ZenonT(40) DEF Life!Fail, Fails
    <3> QED
      BY <1>1, <1>4, <3>1, ZenonT(40) DEF Life!Next, Life!Interfered, Paid
  <2> QED
    BY <1>4, <2>1, <2>2, ZenonT(40)
<1> QED
  BY <1>2, <1>3, <1>4 DEF Effect

-----------------------------------------------------------------------------
\* At first no pod terminates and no job runs.
LEMMA InitLife == Init => ServedByPods /\ Life!Init
<1> SUFFICES ASSUME Init PROVE ServedByPods /\ Life!Init
  OBVIOUS
<1>1. /\ RunningPod.phase = "Running" /\ RunningPod.term = FALSE /\ NoPod.term = FALSE
      /\ NoNode.base = "NONE"
  BY DEF RunningPod, NoPod, NoNode
<1>2. \A o \in Ordinals :
        /\ pod[o] = IF o < replicas THEN RunningPod ELSE NoPod
        /\ snode[o].base = IF o < replicas THEN "IDLE" ELSE "NONE"
  BY <1>1 DEF Init
<1>3. budget \in Nat
  BY NodeSetSyncAssumption DEF Init
<1> QED
  BY <1>1, <1>2, <1>3, ZenonT(40) DEF ServedByPods, Life!Init, PodsIn, Excused

\* Every step has an effect.
LEMMA NextEffect ==
    ASSUME CacheAssumption, IInv, [Next]_vars
    PROVE  Effect
<1>1. CASE UNCHANGED vars
  BY <1>1, SteadyUnchanged, SteadyEffect DEF vars, apiVars, slurmVars
<1> QED
  BY <1>1, ReconcileEffect, ClusterEffect, DisturbanceEffect DEF Next

\* If updates refresh the cache of the Slurm client and nobody else resumes nodes, the
\* NodeSet reconciler implements WorkerLife: whatever its size, its lag and the faults
\* and users around it, it takes only idle workers away, the excused apart.
THEOREM Refinement ==
    ASSUME CacheAssumption
    PROVE  Spec => ImplementsWorkerLife
<1>1. Init => ServedByPods /\ Life!Init
  BY InitLife
<1>2. IInv /\ IInv' /\ ServedByPods /\ [Next]_vars => ServedByPods' /\ [Life!Next]_(Life!vars)
  BY NextEffect, EffectServed, EffectLife
<1> QED
  BY <1>1, <1>2, AlwaysIInv, PTL DEF Spec, ImplementsWorkerLife, Life!Spec
=============================================================================
