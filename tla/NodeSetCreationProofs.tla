------------------------ MODULE NodeSetCreationProofs ------------------------
(***************************************************************************)
(* Proof that the NodeSet reconciler creates no pod too many, for every    *)
(* number of replicas, burst size, informer lag and set of disturbances    *)
(* and faults. The creations are counted against the expectations and      *)
(* against the events that the cache has not seen yet (CreateInv).         *)
(***************************************************************************)
EXTENDS NodeSetSyncProofs

(* The events on their way to the cache, pod by pod.                        *)

Mentioned(w, o) == \E i \in DOMAIN w : w[i].ord = o
Announced(w, o) == \E i \in DOMAIN w : w[i].ord = o /\ w[i].pod # NoPod
Ended(w, o) == \E i \in DOMAIN w : w[i].ord = o /\ w[i].pod = NoPod

\* A pod that has gone is not mentioned again.
LastWord(w) ==
    \A i, j \in DOMAIN w : w[i].pod = NoPod /\ w[j].ord = w[i].ord => j <= i

\* The pods that were created and that the cache does not show yet.
InFlight == {o \in Ordinals : cache[o] = NoPod /\ Announced(watch, o)}

Event == [ord : Ordinals, pod : Pods]

LEMMA AppendWords ==
    ASSUME NEW w \in Seq(Event), NEW e \in Event, NEW v, v = Append(w, e)
    PROVE  /\ \A o : Mentioned(v, o) <=> Mentioned(w, o) \/ e.ord = o
           /\ \A o : Announced(v, o) <=> Announced(w, o) \/ (e.ord = o /\ e.pod # NoPod)
           /\ \A o : Ended(v, o) <=> Ended(w, o) \/ (e.ord = o /\ e.pod = NoPod)
           /\ LastWord(w) /\ ~Ended(w, e.ord) => LastWord(v)
<1>1. /\ Len(w) \in Nat /\ DOMAIN w = 1 .. Len(w) /\ DOMAIN v = 1 .. (Len(w) + 1)
      /\ v[Len(w) + 1] = e /\ \A i \in 1 .. Len(w) : v[i] = w[i]
  OBVIOUS
<1>2. \A i \in DOMAIN v : (i \in DOMAIN w /\ v[i] = w[i]) \/ (i = Len(w) + 1 /\ v[i] = e)
  BY <1>1
<1>3. \A i \in DOMAIN w : i \in DOMAIN v /\ v[i] = w[i]
  BY <1>1
<1>4. Len(w) + 1 \in DOMAIN v
  BY <1>1
<1>5. \A o : Mentioned(v, o) <=> Mentioned(w, o) \/ e.ord = o
  BY <1>1, <1>2, <1>3, <1>4 DEF Mentioned
<1>6. \A o : Announced(v, o) <=> Announced(w, o) \/ (e.ord = o /\ e.pod # NoPod)
  BY <1>1, <1>2, <1>3, <1>4 DEF Announced
<1>7. \A o : Ended(v, o) <=> Ended(w, o) \/ (e.ord = o /\ e.pod = NoPod)
  BY <1>1, <1>2, <1>3, <1>4 DEF Ended
<1>8. ASSUME LastWord(w), ~Ended(w, e.ord) PROVE LastWord(v)
  <2> SUFFICES ASSUME NEW i \in DOMAIN v, NEW j \in DOMAIN v,
                      v[i].pod = NoPod, v[j].ord = v[i].ord
               PROVE  j <= i
    BY DEF LastWord
  <2>1. CASE i = Len(w) + 1
    BY <1>1, <2>1
  <2>2. CASE i \in DOMAIN w /\ j \in DOMAIN w
    BY <1>3, <1>8, <2>2 DEF LastWord
  <2>3. CASE i \in DOMAIN w /\ j = Len(w) + 1
    BY <1>1, <1>3, <1>8, <2>3 DEF Ended
  <2> QED
    BY <1>2, <2>1, <2>2, <2>3
<1> QED
  BY <1>5, <1>6, <1>7, <1>8

LEMMA TailWords ==
    ASSUME NEW w \in Seq(Event), w # <<>>, NEW v, v = Tail(w), NEW e, e = Head(w)
    PROVE  /\ e \in Event /\ v \in Seq(Event)
           /\ \A o : Mentioned(w, o) <=> Mentioned(v, o) \/ e.ord = o
           /\ \A o : Announced(w, o) <=> Announced(v, o) \/ (e.ord = o /\ e.pod # NoPod)
           /\ \A o : Ended(w, o) <=> Ended(v, o) \/ (e.ord = o /\ e.pod = NoPod)
           /\ LastWord(w) => LastWord(v)
           /\ LastWord(w) /\ e.pod = NoPod => ~Mentioned(v, e.ord)
<1>1. /\ Len(w) \in Nat \ {0} /\ DOMAIN w = 1 .. Len(w) /\ DOMAIN v = 1 .. (Len(w) - 1)
      /\ w[1] = e /\ \A i \in 1 .. (Len(w) - 1) : v[i] = w[i + 1]
      /\ e \in Event /\ v \in Seq(Event)
  OBVIOUS
<1>2. \A i \in DOMAIN w : (i = 1 /\ w[i] = e) \/ (i - 1 \in DOMAIN v /\ v[i - 1] = w[i])
  BY <1>1
<1>3. \A i \in DOMAIN v : i + 1 \in DOMAIN w /\ v[i] = w[i + 1]
  BY <1>1
<1>4. 1 \in DOMAIN w /\ w[1] = e
  BY <1>1
<1>5. ASSUME NEW o PROVE Mentioned(w, o) <=> Mentioned(v, o) \/ e.ord = o
  <2>1. ASSUME NEW i \in DOMAIN w, w[i].ord = o PROVE Mentioned(v, o) \/ e.ord = o
    BY <1>2, <2>1, ZenonT(40) DEF Mentioned
  <2>2. ASSUME NEW i \in DOMAIN v, v[i].ord = o PROVE Mentioned(w, o)
    BY <1>3, <2>2 DEF Mentioned
  <2> QED
    BY <1>4, <2>1, <2>2 DEF Mentioned
<1>6. ASSUME NEW o PROVE Announced(w, o) <=> Announced(v, o) \/ (e.ord = o /\ e.pod # NoPod)
  <2>1. ASSUME NEW i \in DOMAIN w, w[i].ord = o, w[i].pod # NoPod
        PROVE  Announced(v, o) \/ (e.ord = o /\ e.pod # NoPod)
    BY <1>2, <2>1 DEF Announced
  <2>2. ASSUME NEW i \in DOMAIN v, v[i].ord = o, v[i].pod # NoPod PROVE Announced(w, o)
    BY <1>3, <2>2 DEF Announced
  <2> QED
    BY <1>4, <2>1, <2>2 DEF Announced
<1>7. ASSUME NEW o PROVE Ended(w, o) <=> Ended(v, o) \/ (e.ord = o /\ e.pod = NoPod)
  <2>1. ASSUME NEW i \in DOMAIN w, w[i].ord = o, w[i].pod = NoPod
        PROVE  Ended(v, o) \/ (e.ord = o /\ e.pod = NoPod)
    BY <1>2, <2>1 DEF Ended
  <2>2. ASSUME NEW i \in DOMAIN v, v[i].ord = o, v[i].pod = NoPod PROVE Ended(w, o)
    BY <1>3, <2>2 DEF Ended
  <2> QED
    BY <1>4, <2>1, <2>2 DEF Ended
<1>8. ASSUME LastWord(w) PROVE LastWord(v)
  <2> SUFFICES ASSUME NEW i \in DOMAIN v, NEW j \in DOMAIN v,
                      v[i].pod = NoPod, v[j].ord = v[i].ord
               PROVE  j <= i
    BY DEF LastWord
  <2>1. j + 1 <= i + 1
    BY <1>3, <1>8 DEF LastWord
  <2> QED
    BY <1>1, <2>1
<1>9. ASSUME LastWord(w), e.pod = NoPod PROVE ~Mentioned(v, e.ord)
  <2> SUFFICES ASSUME NEW i \in DOMAIN v, v[i].ord = e.ord PROVE FALSE
    BY DEF Mentioned
  <2>1. i + 1 <= 1
    BY <1>3, <1>4, <1>9 DEF LastWord
  <2> QED
    BY <1>1, <2>1
<1> QED
  BY <1>1, <1>5, <1>6, <1>7, <1>8, <1>9

\* The cache and the events on their way account for every pod.
WatchOrder ==
    /\ LastWord(watch)
    /\ \A o \in Ordinals : Ended(watch, o) => pod[o] = NoPod
    /\ \A o \in Ordinals :
        cache[o] = NoPod /\ (pod[o] # NoPod \/ Mentioned(watch, o)) => Announced(watch, o)

LEMMA Written ==
    ASSUME IInv, IInv', NEW o \in Ordinals, NEW p, p # pod[o], WritePod(o, p)
    PROVE  /\ \A q \in Ordinals : pod'[q] = IF q = o THEN p ELSE pod[q]
           /\ \A q : Mentioned(watch', q) <=> Mentioned(watch, q) \/ q = o
           /\ \A q : Announced(watch', q) <=> Announced(watch, q) \/ (q = o /\ p # NoPod)
           /\ \A q : Ended(watch', q) <=> Ended(watch, q) \/ (q = o /\ p = NoPod)
           /\ LastWord(watch) /\ ~Ended(watch, o) => LastWord(watch')
<1> DEFINE e == [ord |-> o, pod |-> p]
<1>1. pod' = [pod EXCEPT ![o] = p] /\ watch' = Append(watch, e)
  BY DEF WritePod
<1>2. pod \in [Ordinals -> Pods] /\ pod' \in [Ordinals -> Pods] /\ watch \in Seq(Event)
  BY DEF IInv, ApiPart, Event
<1>3. \A q \in Ordinals : pod'[q] = IF q = o THEN p ELSE pod[q]
  BY <1>1, <1>2
<1>4. p \in Pods
  BY <1>2, <1>3
<1>5. e \in Event /\ e.ord = o /\ e.pod = p
  BY <1>4 DEF Event
<1> HIDE DEF e
<1> QED
  BY <1>1, <1>2, <1>3, <1>5, AppendWords, ZenonT(40)

\* A write to a pod that exists, by anyone, announces nothing.
LEMMA TouchKept ==
    ASSUME IInv, IInv', WatchOrder, cache' = cache,
           \/ UNCHANGED <<pod, watch>>
           \/ \E o \in Ordinals : \E p : pod[o] # NoPod /\ WritePod(o, p)
    PROVE  WatchOrder' /\ InFlight' = InFlight /\ PodsIn(pod') \subseteq PodsIn(pod)
<1>1. CASE UNCHANGED <<pod, watch>>
  BY <1>1 DEF WatchOrder, InFlight, PodsIn
<1>2. ASSUME NEW o \in Ordinals, NEW p, pod[o] # NoPod, WritePod(o, p), p # pod[o]
      PROVE  WatchOrder' /\ InFlight' = InFlight /\ PodsIn(pod') \subseteq PodsIn(pod)
  <2>1. /\ \A q \in Ordinals : pod'[q] = IF q = o THEN p ELSE pod[q]
        /\ \A q : Mentioned(watch', q) <=> Mentioned(watch, q) \/ q = o
        /\ \A q : Announced(watch', q) <=> Announced(watch, q) \/ (q = o /\ p # NoPod)
        /\ \A q : Ended(watch', q) <=> Ended(watch, q) \/ (q = o /\ p = NoPod)
        /\ LastWord(watch) /\ ~Ended(watch, o) => LastWord(watch')
    BY <1>2, Written
  <2>2. /\ LastWord(watch) /\ ~Ended(watch, o)
        /\ \A q \in Ordinals : Ended(watch, q) => pod[q] = NoPod
        /\ \A q \in Ordinals :
             cache[q] = NoPod /\ (pod[q] # NoPod \/ Mentioned(watch, q)) => Announced(watch, q)
    BY <1>2 DEF WatchOrder
  <2>3. LastWord(watch')
    BY <2>1, <2>2
  <2>4. \A q \in Ordinals : Ended(watch', q) => pod'[q] = NoPod
    BY <2>1, <2>2
  <2>5. \A q \in Ordinals :
          cache'[q] = NoPod /\ (pod'[q] # NoPod \/ Mentioned(watch', q)) => Announced(watch', q)
    BY <1>2, <2>1, <2>2
  <2>6. \A q \in Ordinals : cache[q] = NoPod => (Announced(watch', q) <=> Announced(watch, q))
    BY <1>2, <2>1, <2>2
  <2>7. InFlight' = InFlight
    BY <2>6 DEF InFlight
  <2>8. PodsIn(pod') \subseteq PodsIn(pod)
    BY <1>2, <2>1 DEF PodsIn
  <2> QED
    BY <2>3, <2>4, <2>5, <2>7, <2>8 DEF WatchOrder
<1>3. ASSUME NEW o \in Ordinals, NEW p, pod[o] # NoPod, WritePod(o, p), p = pod[o]
      PROVE  UNCHANGED <<pod, watch>>
  BY <1>3 DEF WritePod, IInv, ApiPart
<1> QED
  BY <1>1, <1>2, <1>3

\* A creation puts the pod in flight.
LEMMA CreationWords ==
    ASSUME IInv, IInv', WatchOrder, cache' = cache, NEW o \in Ordinals,
           cache[o] = NoPod, o \notin InFlight, WritePod(o, NewPod)
    PROVE  /\ WatchOrder' /\ InFlight' = InFlight \cup {o}
           /\ PodsIn(pod') = PodsIn(pod) \cup {o}
<1>1. /\ LastWord(watch)
      /\ \A q \in Ordinals : Ended(watch, q) => pod[q] = NoPod
      /\ \A q \in Ordinals :
           cache[q] = NoPod /\ (pod[q] # NoPod \/ Mentioned(watch, q)) => Announced(watch, q)
  BY DEF WatchOrder
<1>2. ~Announced(watch, o) /\ ~Mentioned(watch, o) /\ pod[o] = NoPod
  BY <1>1 DEF InFlight
<1>3. ~Ended(watch, o)
  BY <1>2 DEF Ended, Mentioned
<1>4. NewPod # NoPod
  BY DEF NewPod, NoPod
<1>5. /\ \A q \in Ordinals : pod'[q] = IF q = o THEN NewPod ELSE pod[q]
      /\ \A q : Mentioned(watch', q) <=> Mentioned(watch, q) \/ q = o
      /\ \A q : Announced(watch', q) <=> Announced(watch, q) \/ q = o
      /\ \A q : Ended(watch', q) <=> Ended(watch, q)
      /\ LastWord(watch')
  BY <1>1, <1>2, <1>3, <1>4, Written
<1>6. WatchOrder'
  <2>1. \A q \in Ordinals : Ended(watch', q) => pod'[q] = NoPod
    BY <1>1, <1>3, <1>5
  <2>2. \A q \in Ordinals :
          cache'[q] = NoPod /\ (pod'[q] # NoPod \/ Mentioned(watch', q)) => Announced(watch', q)
    BY <1>1, <1>5
  <2> QED
    BY <1>5, <2>1, <2>2 DEF WatchOrder
<1>7. InFlight' = InFlight \cup {o}
  BY <1>5 DEF InFlight
<1>8. PodsIn(pod') = PodsIn(pod) \cup {o}
  BY <1>4, <1>5 DEF PodsIn
<1> QED
  BY <1>6, <1>7, <1>8

\* An event takes its pod out of the flight; one that announces the pod lowers the
\* expected creations.
LEMMA DeliverWords ==
    ASSUME IInv, IInv', WatchOrder, Deliver
    PROVE  /\ WatchOrder'
           /\ PodsIn(cache') \subseteq PodsIn(cache) \cup InFlight
           /\ exp'.expired = exp.expired
           /\ \E o \in Ordinals :
                /\ InFlight' = InFlight \ {o}
                /\ exp'.adds = exp.adds \/ (o \in InFlight /\ exp'.adds = exp.adds - 1)
<1> DEFINE e == Head(watch)
           o == e.ord
<1>1. /\ watch # <<>> /\ watch' = Tail(watch) /\ pod' = pod
      /\ cache' = [cache EXCEPT ![o] = e.pod]
      /\ exp' = HandlePodEvent(cache[o], e.pod, o)
  BY DEF Deliver
<1>2. /\ watch \in Seq(Event) /\ cache \in [Ordinals -> Pods]
      /\ exp \in [adds : Int, dels : Int, keys : SUBSET Ordinals, expired : BOOLEAN]
  BY DEF IInv, ApiPart, OpPart, Event
<1>3. /\ e \in Event
      /\ \A q : Mentioned(watch, q) <=> Mentioned(watch', q) \/ o = q
      /\ \A q : Announced(watch, q) <=> Announced(watch', q) \/ (o = q /\ e.pod # NoPod)
      /\ \A q : Ended(watch, q) <=> Ended(watch', q) \/ (o = q /\ e.pod = NoPod)
      /\ LastWord(watch) => LastWord(watch')
      /\ LastWord(watch) /\ e.pod = NoPod => ~Mentioned(watch', o)
  BY <1>1, <1>2, TailWords, ZenonT(40)
<1>4. o \in Ordinals /\ e.pod \in Pods
  BY <1>3 DEF Event
<1> HIDE DEF e, o
<1>5. \A q \in Ordinals : cache'[q] = IF q = o THEN e.pod ELSE cache[q]
  BY <1>1, <1>2, <1>4
<1>6. /\ LastWord(watch)
      /\ \A q \in Ordinals : Ended(watch, q) => pod[q] = NoPod
      /\ \A q \in Ordinals :
           cache[q] = NoPod /\ (pod[q] # NoPod \/ Mentioned(watch, q)) => Announced(watch, q)
  BY DEF WatchOrder
<1>7. e.pod = NoPod => pod[o] = NoPod /\ ~Mentioned(watch', o) /\ ~Announced(watch', o)
  BY <1>3, <1>4, <1>6 DEF Mentioned, Announced
<1>8. WatchOrder'
  <2>1. \A q \in Ordinals : Ended(watch', q) => pod'[q] = NoPod
    BY <1>1, <1>3, <1>6
  <2>2. ASSUME NEW q \in Ordinals, cache'[q] = NoPod, pod'[q] # NoPod \/ Mentioned(watch', q)
        PROVE  Announced(watch', q)
    <3>1. q # o
      BY <1>1, <1>5, <1>7, <2>2
    <3> QED
      BY <1>1, <1>3, <1>5, <1>6, <2>2, <3>1
  <2> QED
    BY <1>3, <1>6, <2>1, <2>2 DEF WatchOrder
<1>9. InFlight' = InFlight \ {o}
  <2>1. ~(cache'[o] = NoPod /\ Announced(watch', o))
    BY <1>4, <1>5, <1>7
  <2>2. \A q \in Ordinals \ {o} :
          cache'[q] = NoPod /\ Announced(watch', q) <=> cache[q] = NoPod /\ Announced(watch, q)
    BY <1>3, <1>5
  <2> QED
    BY <2>1, <2>2 DEF InFlight
<1>10. cache[o] = NoPod /\ e.pod # NoPod => o \in InFlight
  BY <1>3, <1>4 DEF InFlight
<1>11. PodsIn(cache') \subseteq PodsIn(cache) \cup InFlight
  BY <1>5, <1>10 DEF PodsIn
<1>12. /\ DeletionObserved(exp, o).adds = exp.adds
       /\ DeletionObserved(exp, o).expired = exp.expired
       /\ LowerCreations(exp, 1).adds = exp.adds - 1
       /\ LowerCreations(exp, 1).expired = exp.expired
  BY <1>2 DEF DeletionObserved, LowerCreations
<1>13. \/ exp' = DeletionObserved(exp, o) \/ exp' = exp
       \/ cache[o] = NoPod /\ e.pod # NoPod /\ exp' = LowerCreations(exp, 1)
  BY <1>1 DEF HandlePodEvent
<1>14. /\ exp'.expired = exp.expired
       /\ exp'.adds = exp.adds \/ (o \in InFlight /\ exp'.adds = exp.adds - 1)
  BY <1>10, <1>12, <1>13
<1> QED
  BY <1>4, <1>8, <1>9, <1>11, <1>14

-----------------------------------------------------------------------------
(* The creations a reconcile plans.                                         *)

LEMMA UnusedAre ==
    ASSUME NEW S \in SUBSET Ordinals, NEW n \in Nat
    PROVE  /\ UnusedOrdinals(S, n) \subseteq Ordinals \ S
           /\ Cardinality(UnusedOrdinals(S, n)) <= n
<1> DEFINE free == Ordinals \ S
           below(o) == {q \in free : q < o}
           U == {o \in free : Cardinality(below(o)) < n}
           f == [o \in U |-> Cardinality(below(o))]
<1>1. UnusedOrdinals(S, n) = U
  BY DEF UnusedOrdinals
<1>2. U \subseteq free /\ free \subseteq Ordinals /\ \A o \in Ordinals : o \in Int
  BY NodeSetSyncAssumption DEF Ordinals
<1>3. \A o \in U : /\ IsFiniteSet(below(o)) /\ Cardinality(below(o)) \in Nat
                   /\ Cardinality(below(o)) < n
  <2>1. \A o : below(o) \in SUBSET Ordinals
    OBVIOUS
  <2> QED
    BY <2>1, OrdinalsFinite, FS_Subset
<1>4. ASSUME NEW o \in U, NEW q \in U, o < q PROVE Cardinality(below(o)) < Cardinality(below(q))
  <2>1. below(o) \cup {o} \subseteq below(q) /\ o \notin below(o)
    BY <1>2, <1>4
  <2>2. Cardinality(below(o) \cup {o}) = Cardinality(below(o)) + 1
    BY <1>3, <2>1, FS_AddElement, ZenonT(40)
  <2>3. Cardinality(below(o) \cup {o}) <= Cardinality(below(q))
    BY <1>3, <2>1, FS_Subset
  <2> QED
    BY <1>3, <2>2, <2>3
<1>5. f \in [U -> 0 .. (n - 1)]
  BY <1>3
<1>6. ASSUME NEW o \in U, NEW q \in U, f[o] = f[q] PROVE o = q
  <2>1. o \in Int /\ q \in Int
    BY <1>2
  <2>2. Cardinality(below(o)) = Cardinality(below(q))
    BY <1>6
  <2> HIDE DEF below, U, f
  <2> QED
    BY <1>3, <1>4, <2>1, <2>2
<1>7. f \in Injection(U, 0 .. (n - 1))
  <2> HIDE DEF U, f
  <2> QED
    BY <1>5, <1>6 DEF Injection, IsInjective
<1>8. IsFiniteSet(0 .. (n - 1)) /\ Cardinality(0 .. (n - 1)) = n
  BY FS_Interval
<1>9. Cardinality(U) <= n
  <2> HIDE DEF U, f
  <2> QED
    BY <1>7, <1>8, FS_Injection
<1> QED
  BY <1>1, <1>2, <1>9

(* The invariant behind CreateNeverOvershoots.                              *)

\* Every creation in flight is expected; so are, in a batch of creations, those that have
\* not been attempted and those that failed.
Counted ==
    /\ exp.expired => InFlight = {}
    /\ pc # "create" => Cardinality(InFlight) <= exp.adds
    /\ pc = "create" => Cardinality(InFlight) + Cardinality(plan.crt) <= exp.adds + batch.ok

\* Up to its creations a reconcile knows of every pod there is.
Listed ==
    pc \in {"refresh", "cordon", "pods", "uncordon"} =>
        InFlight = {} /\ PodsIn(cache) \subseteq PodsIn(snap)

\* The creations planned make up for the pods that are missing, and are all expected.
Planned ==
    /\ pc \in {"uncordon", "create"} =>
        /\ ~exp.expired
        /\ plan.crt \cap PodsIn(snap) = {}
        /\ plan.crt # {} => Cardinality(PodsIn(snap) \cup plan.crt) <= want
    /\ pc = "uncordon" => Cardinality(plan.crt) <= exp.adds

\* Nobody else creates a pod, least of all one whose turn is still to come.
Creating ==
    pc = "create" =>
        /\ PodsIn(pod) \subseteq PodsIn(snap) \cup plan.crt
        /\ batch.todo \subseteq plan.crt
        /\ batch.todo \cap (PodsIn(cache) \cup InFlight) = {}

CreateInv == WatchOrder /\ Counted /\ Listed /\ Planned /\ Creating

LEMMA SetSizes ==
    ASSUME IInv
    PROVE  /\ IsFiniteSet(InFlight) /\ Cardinality(InFlight) \in Nat /\ Cardinality({}) = 0
           /\ Cardinality(InFlight) = 0 => InFlight = {}
           /\ IsFiniteSet(plan.crt) /\ Cardinality(plan.crt) \in Nat
           /\ plan.crt \subseteq Ordinals
           /\ exp.adds \in Int /\ exp.expired \in BOOLEAN /\ batch.ok \in Nat
<1>1. InFlight \in SUBSET Ordinals /\ plan.crt \in SUBSET Ordinals
  BY DEF InFlight, IInv, OpPart
<1>2. /\ IsFiniteSet(InFlight) /\ Cardinality(InFlight) \in Nat
      /\ IsFiniteSet(plan.crt) /\ Cardinality(plan.crt) \in Nat
  BY <1>1, OrdinalsFinite, FS_Subset
<1>3. exp.adds \in Int /\ exp.expired \in BOOLEAN /\ batch.ok \in Nat
  BY DEF IInv, OpPart, Batches
<1> QED
  BY <1>1, <1>2, <1>3, FS_EmptySet

\* Every pod is in the cache or in flight.
LEMMA PodsKnown == WatchOrder => PodsIn(pod) \subseteq PodsIn(cache) \cup InFlight
BY DEF WatchOrder, PodsIn, InFlight

\* There are no more pods after the step than before, or no more than were asked for.
Bounded == PodsIn(pod') \subseteq PodsIn(pod) \/ Cardinality(PodsIn(pod')) <= want

\* A step that creates nothing and leaves the reconcile where it is.
LEMMA TouchInv ==
    ASSUME IInv, IInv', CreateInv, cache' = cache,
           \/ UNCHANGED <<pod, watch>>
           \/ \E o \in Ordinals : \E p : pod[o] # NoPod /\ WritePod(o, p),
           exp'.adds = exp.adds, exp'.expired = exp.expired, UNCHANGED <<pc, want, plan>>,
           \/ pc \in {"idle", "delete", "process", "nodes", "drift"}
           \/ PodsIn(snap') = PodsIn(snap) /\ (pc = "create" => batch' = batch)
    PROVE  CreateInv' /\ Bounded
<1>1. WatchOrder' /\ InFlight' = InFlight /\ PodsIn(pod') \subseteq PodsIn(pod)
  BY TouchKept DEF CreateInv
<1>2. Counted'
  BY <1>1 DEF CreateInv, Counted
<1>3. Listed'
  BY <1>1 DEF CreateInv, Listed
<1>4. Planned'
  BY <1>1 DEF CreateInv, Planned
<1>5. Creating'
  BY <1>1 DEF CreateInv, Creating
<1> QED
  BY <1>1, <1>2, <1>3, <1>4, <1>5 DEF CreateInv, Bounded

LEMMA InitCreateInv == Init => CreateInv
<1> SUFFICES ASSUME Init PROVE CreateInv
  OBVIOUS
<1>1. watch = <<>> /\ cache = pod /\ pc = "idle" /\ exp = NoExpectations
  BY DEF Init
<1>2. DOMAIN watch = {}
  BY <1>1
<1>3. InFlight = {} /\ WatchOrder
  BY <1>1, <1>2 DEF InFlight, WatchOrder, LastWord, Ended, Mentioned, Announced
<1>4. exp.adds = 0 /\ exp.expired = FALSE
  BY <1>1 DEF NoExpectations
<1>5. Counted
  BY <1>1, <1>3, <1>4, FS_EmptySet DEF Counted
<1> QED
  BY <1>1, <1>3, <1>5 DEF CreateInv, Listed, Planned, Creating

LEMMA DeliverInv == ASSUME IInv, IInv', CreateInv, Deliver PROVE CreateInv' /\ Bounded
<1>1. /\ WatchOrder'
      /\ PodsIn(cache') \subseteq PodsIn(cache) \cup InFlight
      /\ exp'.expired = exp.expired
  BY DeliverWords DEF CreateInv
<1>2. PICK o \in Ordinals :
        /\ InFlight' = InFlight \ {o}
        /\ exp'.adds = exp.adds \/ (o \in InFlight /\ exp'.adds = exp.adds - 1)
  BY DeliverWords DEF CreateInv
<1>3. UNCHANGED <<pod, pc, want, snap, batch, plan>>
  BY DEF Deliver, opVars
<1>4. Cardinality(InFlight')
        = IF o \in InFlight THEN Cardinality(InFlight) - 1 ELSE Cardinality(InFlight)
  BY <1>2, SetSizes, FS_RemoveElement, ZenonT(40)
<1>5. /\ Cardinality(InFlight) \in Nat /\ Cardinality(plan.crt) \in Nat
      /\ exp.adds \in Int /\ batch.ok \in Nat
  BY SetSizes
<1>6. Counted'
  <2>1. exp'.expired => InFlight' = {}
    BY <1>1, <1>2 DEF CreateInv, Counted
  <2>2. pc' # "create" => Cardinality(InFlight') <= exp'.adds
    BY <1>2, <1>3, <1>4, <1>5 DEF CreateInv, Counted
  <2>3. pc' = "create" =>
          Cardinality(InFlight') + Cardinality(plan'.crt) <= exp'.adds + batch'.ok
    BY <1>2, <1>3, <1>4, <1>5 DEF CreateInv, Counted
  <2> QED
    BY <2>1, <2>2, <2>3 DEF Counted
<1>7. Listed'
  BY <1>1, <1>2, <1>3 DEF CreateInv, Listed
<1>8. Planned'
  <2>1. pc = "uncordon" => exp'.adds = exp.adds
    BY <1>2 DEF CreateInv, Listed
  <2> QED
    BY <1>1, <1>3, <2>1 DEF CreateInv, Planned
<1>9. Creating'
  BY <1>1, <1>2, <1>3 DEF CreateInv, Creating
<1> QED
  BY <1>1, <1>3, <1>6, <1>7, <1>8, <1>9 DEF CreateInv, Bounded

\* Cordoning a pod creates none, and leaves the list of the pods as it is.
LEMMA CordonTouches ==
    ASSUME IInv, NEW o \in Ordinals, NEW p, NEW v, NEW f, NEW r, SetPodCordon(o, p, v, f, r)
    PROVE  /\ \/ UNCHANGED <<pod, watch>>
              \/ \E q \in Ordinals : \E x : pod[q] # NoPod /\ WritePod(q, x)
           /\ p = snap[o] /\ PodsIn(cache) \subseteq PodsIn(snap)
                => PodsIn(snap') = PodsIn(snap)
<1>1. \/ UNCHANGED <<pod, watch>>
      \/ pod[o] # NoPod /\ WritePod(o, [pod[o] EXCEPT !.cordon = v])
  BY DEF SetPodCordon
<1>2. \/ snap' = [snap EXCEPT ![o] = p]
      \/ cache[o] # NoPod /\ snap' = [snap EXCEPT ![o] = cache[o]]
  BY DEF SetPodCordon
<1>3. snap \in [Ordinals -> Pods]
  BY DEF IInv, OpPart
<1>4. ASSUME p = snap[o], PodsIn(cache) \subseteq PodsIn(snap)
      PROVE  PodsIn(snap') = PodsIn(snap)
  <2>1. \A q \in Ordinals \ {o} : snap'[q] = snap[q]
    BY <1>2, <1>3
  <2>2. snap'[o] = snap[o] \/ (cache[o] # NoPod /\ snap'[o] = cache[o])
    BY <1>2, <1>3, <1>4
  <2>3. cache[o] # NoPod => snap[o] # NoPod
    BY <1>4 DEF PodsIn
  <2> QED
    BY <2>1, <2>2, <2>3 DEF PodsIn
<1> QED
  BY <1>1, <1>4

LEMMA CordonStepInv ==
    ASSUME IInv, IInv', CreateInv, NEW o \in Ordinals, NEW f,
           SyncCordon(o, f) \/ SyncPodUncordon(o, f)
    PROVE  CreateInv' /\ Bounded
<1>1. UNCHANGED <<cache, exp, pc, want, plan>> /\ pc \in {"cordon", "uncordon"}
  BY ZenonT(40) DEF SyncCordon, SyncPodUncordon
<1>2. \/ UNCHANGED <<pod, watch, snap>>
      \/ \E v, r : SetPodCordon(o, snap[o], v, f, r)
  BY ZenonT(40) DEF SyncCordon, SyncPodUncordon, MakePodCordonAndDrain, MakePodUncordonAndUndrain
<1>3. PodsIn(cache) \subseteq PodsIn(snap)
  BY <1>1 DEF CreateInv, Listed
<1>4. /\ \/ UNCHANGED <<pod, watch>>
         \/ \E q \in Ordinals : \E x : pod[q] # NoPod /\ WritePod(q, x)
      /\ PodsIn(snap') = PodsIn(snap)
  BY <1>2, <1>3, CordonTouches, ZenonT(40)
<1> QED
  BY <1>1, <1>4, TouchInv

LEMMA DeleteTouches ==
    ASSUME NEW o \in Ordinals, NEW f, NEW res, DeletePod(o, f, res)
    PROVE  \/ UNCHANGED <<pod, watch>>
           \/ \E q \in Ordinals : \E x : pod[q] # NoPod /\ WritePod(q, x)
BY DEF DeletePod

LEMMA CondemnedInv ==
    ASSUME IInv, IInv', CreateInv, NEW o \in Ordinals, NEW f, ProcessCondemned(o, f)
    PROVE  CreateInv' /\ Bounded
<1>1. UNCHANGED <<cache, pc, want, plan>> /\ pc = "delete"
  BY DEF ProcessCondemned
<1>2. exp' = exp \/ exp' = DeletionObserved(exp, o)
  BY DEF ProcessCondemned
<1>3. exp'.adds = exp.adds /\ exp'.expired = exp.expired
  BY <1>2 DEF DeletionObserved
<1>4. \/ UNCHANGED <<pod, watch>>
      \/ \E r : SetPodCordon(o, cache[o], TRUE, f, r)
      \/ \E r : DeletePod(o, f, r)
  BY ZenonT(40) DEF ProcessCondemned, MakePodCordonAndDrain
<1>5. \/ UNCHANGED <<pod, watch>>
      \/ \E q \in Ordinals : \E x : pod[q] # NoPod /\ WritePod(q, x)
  BY <1>4, CordonTouches, DeleteTouches, ZenonT(40)
<1> QED
  BY <1>1, <1>3, <1>5, TouchInv, SMTT(20)

LEMMA DeletionsInv ==
    ASSUME IInv, IInv', CreateInv, NEW o \in Ordinals, NEW f,
           ProcessNodeSetPod(o, f) \/ DeleteUnregistered(o, f)
    PROVE  CreateInv' /\ Bounded
<1>1. UNCHANGED <<cache, exp, pc, want, plan>> /\ pc \in {"process", "drift"}
  BY DEF ProcessNodeSetPod, DeleteUnregistered
<1>2. UNCHANGED <<pod, watch>> \/ \E r : DeletePod(o, f, r)
  BY DEF ProcessNodeSetPod, DeleteUnregistered
<1>3. \/ UNCHANGED <<pod, watch>>
      \/ \E q \in Ordinals : \E x : pod[q] # NoPod /\ WritePod(q, x)
  BY <1>2, DeleteTouches
<1> QED
  BY <1>1, <1>3, TouchInv

\* A reconcile starts when no creation is in flight.
LEMMA SyncInv == ASSUME IInv, IInv', CreateInv, Sync PROVE CreateInv' /\ Bounded
<1>1. /\ pc = "idle" /\ pc' = "refresh" /\ snap' = cache /\ SatisfiedExpectations(exp)
      /\ UNCHANGED <<pod, watch, cache, exp>>
  BY DEF Sync, apiVars
<1>2. WatchOrder' /\ InFlight' = InFlight
  BY <1>1 DEF CreateInv, WatchOrder, InFlight
<1>3. InFlight = {}
  <2>1. CASE exp.expired
    BY <2>1 DEF CreateInv, Counted
  <2>2. CASE exp.adds <= 0
    <3>1. Cardinality(InFlight) <= exp.adds
      BY <1>1 DEF CreateInv, Counted
    <3>2. Cardinality(InFlight) = 0
      BY <2>2, <3>1, SetSizes
    <3> QED
      BY <3>2, SetSizes
  <2> QED
    BY <1>1, <2>1, <2>2 DEF SatisfiedExpectations, Fulfilled
<1>4. Counted'
  BY <1>1, <1>2 DEF CreateInv, Counted
<1> QED
  BY <1>1, <1>2, <1>3, <1>4 DEF CreateInv, Listed, Planned, Creating, Bounded

\* The steps that only move on to the next one.
LEMMA MovesInv ==
    ASSUME IInv, IInv', CreateInv,
           \/ \E f : RefreshNodeCache(f)
           \/ CordonDone \/ DeleteDone \/ ProcessDone \/ SyncSlurmNodes \/ SyncDone
    PROVE  CreateInv' /\ Bounded
<1>1. UNCHANGED <<pod, watch, cache, exp>>
  BY DEF RefreshNodeCache, CordonDone, DeleteDone, ProcessDone, SyncSlurmNodes, SyncDone,
     apiVars
<1>2. /\ pc # "create" /\ pc' \notin {"create", "uncordon", "refresh"}
      /\ \/ pc' \notin {"cordon", "pods"}
         \/ pc \in {"refresh", "cordon"} /\ snap' = snap
  BY DEF RefreshNodeCache, CordonDone, DeleteDone, ProcessDone, SyncSlurmNodes, SyncDone,
     EndSync
<1>3. WatchOrder' /\ InFlight' = InFlight
  BY <1>1, ZenonT(40) DEF CreateInv, WatchOrder, InFlight
<1>4. Counted'
  BY <1>1, <1>2, <1>3, ZenonT(40) DEF CreateInv, Counted
<1>5. Listed'
  BY <1>1, <1>2, <1>3 DEF CreateInv, Listed
<1> QED
  BY <1>1, <1>2, <1>3, <1>4, <1>5, SMTT(20) DEF CreateInv, Planned, Creating, Bounded

\* What syncNodeSetPods does when pods are missing.
SyncedTo(keep, listed, n) ==
    LET diff == Cardinality(listed) - n
    IN  diff < 0 /\ DoPodScale(keep, {}, UnusedOrdinals(listed, Clamp(-diff)))

\* syncNodeSetPods plans the creations that are missing, and expects them.
LEMMA PlanInv == ASSUME IInv, IInv', CreateInv, SyncNodeSetPods PROVE CreateInv' /\ Bounded
<1> DEFINE listed == PodsIn(snap)
           diff == Cardinality(listed) - want
<1>1. pc = "pods" /\ UNCHANGED <<pod, watch, cache, want, snap>>
  BY DEF SyncNodeSetPods, apiVars
<1>2. WatchOrder' /\ InFlight' = InFlight /\ InFlight = {} /\ PodsIn(cache) \subseteq listed
  BY <1>1, ZenonT(40) DEF CreateInv, WatchOrder, InFlight, Listed
<1>3. /\ listed \in SUBSET Ordinals /\ IsFiniteSet(listed) /\ Cardinality(listed) \in Nat
      /\ want \in Nat
  BY OrdinalsFinite, FS_Subset, NodeSetSyncAssumption DEF PodsIn, IInv, OpPart
<1>4. \/ \E keep : SyncedTo(keep, listed, want)
      \/ \E keep, del : DoPodScale(keep, del, {})
      \/ \E keep : DoPodProcessing(keep)
  BY ZenonT(40) DEF SyncNodeSetPods, SyncedTo
<1>5. /\ pc' = "uncordon" /\ exp'.expired = FALSE
      /\ plan'.crt \subseteq Ordinals \ listed /\ exp'.adds = Cardinality(plan'.crt)
      /\ plan'.crt # {} => Cardinality(listed \cup plan'.crt) <= want
  <2>1. ASSUME NEW keep, SyncedTo(keep, listed, want)
        PROVE  /\ pc' = "uncordon" /\ exp'.expired = FALSE
               /\ plan'.crt \subseteq Ordinals \ listed /\ exp'.adds = Cardinality(plan'.crt)
               /\ Cardinality(listed \cup plan'.crt) <= want
    <3> DEFINE n == Clamp(-diff)
               crt == UnusedOrdinals(listed, n)
    <3>1. diff < 0 /\ DoPodScale(keep, {}, crt)
      BY <2>1 DEF SyncedTo
    <3>2. n \in Nat /\ n <= want - Cardinality(listed)
      BY <1>3, <3>1, NodeSetSyncAssumption DEF Clamp
    <3> HIDE DEF n
    <3>3. crt \subseteq Ordinals \ listed /\ Cardinality(crt) <= n
      BY <1>3, <3>2, UnusedAre
    <3> HIDE DEF crt
    <3>4. crt \in SUBSET Ordinals /\ listed \cap crt = {}
      BY <3>3
    <3>5. IsFiniteSet(crt) /\ Cardinality(crt) \in Nat
      BY <3>4, OrdinalsFinite, FS_Subset
    <3>6. Cardinality(listed \cup crt) <= want
      <4>1. Cardinality(listed \cup crt)
              = Cardinality(listed) + Cardinality(crt) - Cardinality(listed \cap crt)
        BY <1>3, <3>5, FS_Union
      <4>2. Cardinality(listed \cap crt) = 0
        BY <3>4, FS_EmptySet
      <4> HIDE DEF listed
      <4> QED
        BY <1>3, <3>2, <3>3, <3>5, <4>1, <4>2
    <3>7. /\ pc' = "uncordon" /\ plan'.crt = crt
          /\ exp' = RaiseCreations(ExpectDeletions({}), Cardinality(crt))
      BY <3>1 DEF DoPodScale
    <3>8. exp'.expired = FALSE /\ exp'.adds = Cardinality(crt)
      BY <3>5, <3>7 DEF RaiseCreations, ExpectDeletions
    <3> QED
      BY <3>3, <3>6, <3>7, <3>8
  <2>2. ASSUME NEW keep, NEW del, DoPodScale(keep, del, {})
        PROVE  pc' = "uncordon" /\ exp'.expired = FALSE /\ plan'.crt = {} /\ exp'.adds = 0
    BY <2>2, FS_EmptySet DEF DoPodScale, RaiseCreations, ExpectDeletions
  <2>3. ASSUME NEW keep, DoPodProcessing(keep)
        PROVE  pc' = "uncordon" /\ exp'.expired = FALSE /\ plan'.crt = {} /\ exp'.adds = 0
    BY <2>3 DEF DoPodProcessing, SetExpectations
  <2> QED
    BY <1>4, <2>1, <2>2, <2>3, FS_EmptySet, ZenonT(40)
<1>6. plan'.crt \in SUBSET Ordinals /\ Cardinality(plan'.crt) \in Nat
  BY <1>5, OrdinalsFinite
<1>7. Counted'
  <2>1. Cardinality(InFlight') = 0
    BY <1>2, FS_EmptySet
  <2> QED
    BY <1>5, <1>6, <2>1 DEF Counted
<1>8. Listed'
  BY <1>1, <1>2 DEF Listed
<1>9. Planned'
  <2>1. plan'.crt \cap PodsIn(snap') = {} /\ Cardinality(plan'.crt) <= exp'.adds
    BY <1>1, <1>5, <1>6
  <2> QED
    BY <1>1, <1>5, <2>1 DEF Planned
<1> QED
  BY <1>1, <1>2, <1>5, <1>7, <1>8, <1>9 DEF CreateInv, Creating, Bounded

LEMMA UncordonDoneInv == ASSUME IInv, IInv', CreateInv, UncordonDone PROVE CreateInv' /\ Bounded
<1>1. pc = "uncordon" /\ UNCHANGED <<pod, watch, cache, exp, want, snap, plan>>
  BY DEF UncordonDone, apiVars
<1>2. /\ WatchOrder' /\ InFlight' = InFlight /\ InFlight = {}
      /\ PodsIn(cache) \subseteq PodsIn(snap) /\ PodsIn(pod) \subseteq PodsIn(snap)
  <2>1. /\ WatchOrder' /\ InFlight' = InFlight /\ InFlight = {}
        /\ PodsIn(cache) \subseteq PodsIn(snap)
    BY <1>1, ZenonT(40) DEF CreateInv, WatchOrder, InFlight, Listed
  <2> QED
    BY <2>1, PodsKnown DEF CreateInv
<1>3. /\ ~exp.expired /\ plan.crt \cap PodsIn(snap) = {}
      /\ plan.crt # {} => Cardinality(PodsIn(snap) \cup plan.crt) <= want
      /\ Cardinality(plan.crt) <= exp.adds
  BY <1>1 DEF CreateInv, Planned
<1>4. CASE pc' = "create" /\ batch' = StartBatch(plan.crt)
  <2>1. batch'.todo = plan.crt /\ batch'.ok = 0
    BY <1>4 DEF StartBatch
  <2>2. Counted'
    <3>1. Cardinality(InFlight') = 0 /\ Cardinality(plan.crt) \in Nat /\ exp.adds \in Int
      BY <1>2, SetSizes
    <3>2. Cardinality(InFlight') + Cardinality(plan'.crt) <= exp'.adds + batch'.ok
      BY <1>1, <1>3, <2>1, <3>1
    <3> QED
      BY <1>1, <1>3, <1>4, <3>2 DEF Counted
  <2>3. Planned'
    BY <1>1, <1>3, <1>4 DEF Planned
  <2>4. Creating'
    BY <1>1, <1>2, <1>3, <1>4, <2>1, SMTT(20) DEF Creating
  <2> QED
    BY <1>1, <1>2, <1>4, <2>2, <2>3, <2>4 DEF CreateInv, Listed, Bounded
<1>5. CASE pc' \in {"nodes", "process"}
  <2>1. Counted'
    BY <1>1, <1>2, <1>5 DEF CreateInv, Counted
  <2> QED
    BY <1>1, <1>2, <1>5, <2>1, SMTT(20) DEF CreateInv, Listed, Planned, Creating, Bounded
<1> QED
  BY <1>4, <1>5 DEF UncordonDone

\* CreateNodeSetPod, if it fails only before the pod is there.
LEMMA CreateStepInv ==
    ASSUME IInv, IInv', CreateInv, NEW o \in Ordinals, NEW f, f # "createLate",
           CreateNodeSetPod(o, f)
    PROVE  CreateInv' /\ Bounded
<1>1. /\ pc = "create" /\ o \in batch.todo
      /\ UNCHANGED <<cache, exp, pc, want, snap, plan>>
  BY DEF CreateNodeSetPod
<1>2. /\ ~exp.expired /\ plan.crt \cap PodsIn(snap) = {}
      /\ plan.crt # {} => Cardinality(PodsIn(snap) \cup plan.crt) <= want
      /\ PodsIn(pod) \subseteq PodsIn(snap) \cup plan.crt
      /\ batch.todo \subseteq plan.crt /\ batch.todo \cap (PodsIn(cache) \cup InFlight) = {}
      /\ Cardinality(InFlight) + Cardinality(plan.crt) <= exp.adds + batch.ok
  BY <1>1 DEF CreateInv, Planned, Creating, Counted
<1>3. cache[o] = NoPod /\ o \notin InFlight /\ o \in plan.crt
  BY <1>1, <1>2, ZenonT(40) DEF PodsIn
<1>4. pod[o] = NoPod
  BY <1>3, PodsKnown DEF CreateInv, PodsIn
<1>5. \/ f # "create" /\ WritePod(o, NewPod) /\ batch' = CallReturns(batch, o, "ok" = "ok")
      \/ /\ f = "create" /\ UNCHANGED <<pod, watch>>
         /\ batch' = CallReturns(batch, o, "error" = "ok")
  BY <1>4, ZenonT(40) DEF CreateNodeSetPod, BatchNext
<1>6. /\ batch'.todo \subseteq batch.todo \ {o}
      /\ f # "create" => batch'.ok = batch.ok + 1
      /\ f = "create" => batch'.ok = batch.ok
  <2>1. batch.ok \in Nat
    BY SetSizes
  <2>2. /\ CallReturns(batch, o, TRUE).todo \subseteq batch.todo \ {o}
        /\ CallReturns(batch, o, TRUE).ok = batch.ok + 1
    BY <2>1, SMTT(20) DEF CallReturns
  <2>3. /\ CallReturns(batch, o, FALSE).todo \subseteq batch.todo \ {o}
        /\ CallReturns(batch, o, FALSE).ok = batch.ok
    BY <2>1 DEF CallReturns
  <2>4. \/ f # "create" /\ batch' = CallReturns(batch, o, TRUE)
        \/ f = "create" /\ batch' = CallReturns(batch, o, FALSE)
    BY <1>5, ZenonT(40)
  <2> QED
    BY <2>2, <2>3, <2>4, ZenonT(40)
<1>7. /\ WatchOrder'
      /\ f # "create" => InFlight' = InFlight \cup {o} /\ PodsIn(pod') = PodsIn(pod) \cup {o}
      /\ f = "create" => InFlight' = InFlight /\ PodsIn(pod') = PodsIn(pod)
  <2>1. CASE f # "create"
    BY <1>1, <1>3, <1>5, <2>1, CreationWords, ZenonT(40) DEF CreateInv
  <2>2. CASE f = "create"
    BY <1>1, <1>5, <2>2, ZenonT(40) DEF CreateInv, WatchOrder, InFlight, PodsIn
  <2> QED
    BY <2>1, <2>2
<1>8. Cardinality(InFlight') + Cardinality(plan'.crt) <= exp'.adds + batch'.ok
  <2>1. f # "create" => Cardinality(InFlight') = Cardinality(InFlight) + 1
    BY <1>3, <1>7, SetSizes, FS_AddElement
  <2>2. f = "create" => Cardinality(InFlight') = Cardinality(InFlight)
    BY <1>7
  <2>3. /\ Cardinality(InFlight) \in Nat /\ Cardinality(plan.crt) \in Nat
        /\ exp.adds \in Int /\ batch.ok \in Nat
    BY SetSizes
  <2>4. plan'.crt = plan.crt /\ exp'.adds = exp.adds
    BY <1>1
  <2>5. Cardinality(InFlight) + Cardinality(plan.crt) <= exp.adds + batch.ok
    BY <1>2, Zenon
  <2>6. CASE f # "create"
    <3>1. Cardinality(InFlight') = Cardinality(InFlight) + 1 /\ batch'.ok = batch.ok + 1
      BY <1>6, <2>1, <2>6, Zenon
    <3> QED
      BY <2>3, <2>4, <2>5, <3>1
  <2>7. CASE f = "create"
    <3>1. Cardinality(InFlight') = Cardinality(InFlight) /\ batch'.ok = batch.ok
      BY <1>6, <2>2, <2>7, Zenon
    <3> QED
      BY <2>3, <2>4, <2>5, <3>1
  <2> QED
    BY <2>6, <2>7
<1>9. Counted'
  BY <1>1, <1>2, <1>8, ZenonT(40) DEF Counted
<1>10. PodsIn(pod') \subseteq PodsIn(snap) \cup plan.crt
  BY <1>2, <1>3, <1>7, ZenonT(40)
<1>11. Creating'
  BY <1>1, <1>2, <1>6, <1>7, <1>10 DEF Creating
<1>12. Planned' /\ Listed'
  BY <1>1, <1>2, ZenonT(40) DEF Planned, Listed
<1>13. Cardinality(PodsIn(pod')) <= want
  <2>1. PodsIn(snap) \cup plan.crt \in SUBSET Ordinals
    BY SetSizes, ZenonT(40) DEF PodsIn
  <2>2. IsFiniteSet(PodsIn(snap) \cup plan.crt)
    BY <2>1, OrdinalsFinite, FS_Subset
  <2>3. Cardinality(PodsIn(pod')) <= Cardinality(PodsIn(snap) \cup plan.crt)
    BY <1>10, <2>2, FS_Subset
  <2>4. /\ Cardinality(PodsIn(snap) \cup plan.crt) <= want
        /\ Cardinality(PodsIn(snap) \cup plan.crt) \in Nat
    BY <1>2, <1>3, <2>1, OrdinalsFinite, SMTT(20)
  <2>5. PodsIn(pod') \in SUBSET Ordinals /\ Cardinality(PodsIn(pod')) \in Nat /\ want \in Int
    BY OrdinalsFinite DEF PodsIn, IInv, OpPart
  <2> QED
    BY <2>3, <2>4, <2>5
<1> QED
  BY <1>7, <1>9, <1>11, <1>12, <1>13 DEF CreateInv, Bounded

LEMMA CreateDoneInv == ASSUME IInv, IInv', CreateInv, CreateDone PROVE CreateInv' /\ Bounded
<1>1. /\ pc = "create" /\ pc' = "delete" /\ UNCHANGED <<pod, watch, cache>>
      /\ exp' = LowerCreations(exp, Cardinality(plan.crt) - batch.ok)
  BY ZenonT(40) DEF CreateDone, apiVars
<1>2. WatchOrder' /\ InFlight' = InFlight
  BY <1>1, ZenonT(40) DEF CreateInv, WatchOrder, InFlight
<1>3. exp \in [adds : Int, dels : Int, keys : SUBSET Ordinals, expired : BOOLEAN]
  BY DEF IInv, OpPart
<1>4. exp'.adds = exp.adds - (Cardinality(plan.crt) - batch.ok) /\ exp'.expired = exp.expired
  BY <1>1, <1>3 DEF LowerCreations
<1>5. Cardinality(InFlight) <= exp'.adds
  BY <1>1, <1>4, SetSizes, SMTT(20) DEF CreateInv, Counted
<1>6. Counted'
  BY <1>1, <1>2, <1>4, <1>5 DEF CreateInv, Counted
<1> QED
  BY <1>1, <1>2, <1>6 DEF CreateInv, Listed, Planned, Creating, Bounded

LEMMA EmptyWatch ==
    ASSUME watch' = <<>>, cache' = pod, pod' = pod, pc' = "idle", exp'.adds \in Nat
    PROVE  CreateInv' /\ Bounded
<1>1. DOMAIN watch' = {}
  OBVIOUS
<1>2. InFlight' = {} /\ WatchOrder'
  BY <1>1 DEF InFlight, WatchOrder, LastWord, Ended, Mentioned, Announced
<1>3. Counted'
  BY <1>2, FS_EmptySet DEF Counted
<1> QED
  BY <1>2, <1>3 DEF CreateInv, Listed, Planned, Creating, Bounded

\* What the cluster does to pods: it creates none.
LEMMA ClusterInv == ASSUME IInv, IInv', CreateInv, Cluster PROVE CreateInv' /\ Bounded
<1>1. CASE Deliver
  BY <1>1, DeliverInv
<1>2. CASE Expire
  <2>1. /\ watch = <<>> /\ exp' = [exp EXCEPT !.expired = TRUE]
        /\ UNCHANGED <<pod, watch, cache, pc>> /\ pc = "idle"
    BY <1>2 DEF Expire, apiVars, opVars
  <2>2. InFlight = {}
    BY <2>1 DEF InFlight, Announced
  <2>3. WatchOrder' /\ InFlight' = InFlight
    BY <2>1 DEF CreateInv, WatchOrder, InFlight
  <2>4. exp'.adds = exp.adds
    BY <2>1 DEF IInv, OpPart
  <2>5. Counted'
    BY <2>1, <2>2, <2>3, <2>4 DEF CreateInv, Counted
  <2> QED
    BY <2>1, <2>3, <2>5 DEF CreateInv, Listed, Planned, Creating, Bounded
<1>3. CASE PollSlurm
  <2>1. UNCHANGED <<pod, watch, cache, exp, pc, want, snap, batch, plan>>
    BY <1>3 DEF PollSlurm, apiVars, opVars
  <2> QED
    BY <2>1, TouchInv
<1>4. ASSUME NEW o \in Ordinals,
             PodRuns(o) \/ Register(o) \/ StartJob(o) \/ EndJob(o) \/ PodGone(o)
      PROVE  CreateInv' /\ Bounded
  <2>1. UNCHANGED <<cache, exp, pc, want, snap, batch, plan>>
    BY <1>4 DEF PodRuns, Register, StartJob, EndJob, PodGone, opVars
  <2>2. UNCHANGED <<pod, watch>> \/ \E p : pod[o] # NoPod /\ WritePod(o, p)
    BY <1>4, NoPodFields DEF PodRuns, Register, StartJob, EndJob, PodGone, apiVars
  <2> QED
    BY <2>1, <2>2, TouchInv
<1> QED
  BY <1>1, <1>2, <1>3, <1>4 DEF Cluster

LEMMA DisturbanceInv == ASSUME IInv, IInv', CreateInv, Disturbance PROVE CreateInv' /\ Bounded
<1>1. CASE UserScales \/ ClientChanges
  <2>1. UNCHANGED <<pod, watch, cache, exp, pc, want, snap, batch, plan>>
    BY <1>1 DEF UserScales, ClientChanges, apiVars, opVars
  <2> QED
    BY <2>1, TouchInv
<1>2. CASE Restart
  <2>1. watch' = <<>> /\ cache' = pod /\ pod' = pod /\ pc' = "idle" /\ exp' = NoExpectations
    BY <1>2 DEF Restart, EndSync
  <2>2. exp'.adds \in Nat
    BY <2>1 DEF NoExpectations
  <2> QED
    BY <2>1, <2>2, EmptyWatch
<1>3. ASSUME NEW o \in Ordinals,
             \/ UserCordonsPod(o) \/ UserCordonsNode(o) \/ AdminDrains(o)
             \/ AdminUndrains(o) \/ PodKilled(o) \/ PodFails(o)
      PROVE  CreateInv' /\ Bounded
  <2>1. UNCHANGED <<cache, exp, pc, want, snap, batch, plan>>
    BY <1>3 DEF UserCordonsPod, UserCordonsNode, AdminDrains, AdminUndrains, PodKilled,
       PodFails,
       opVars
  <2>2. UNCHANGED <<pod, watch>> \/ \E p : pod[o] # NoPod /\ WritePod(o, p)
    BY <1>3, NoPodFields DEF UserCordonsPod, UserCordonsNode, AdminDrains, AdminUndrains,
       PodKilled, PodFails, apiVars
  <2> QED
    BY <2>1, <2>2, TouchInv
<1> QED
  BY <1>1, <1>2, <1>3 DEF Disturbance

LEMMA ReconcileInv ==
    ASSUME "createLate" \notin Faults, IInv, IInv', CreateInv, Reconcile
    PROVE  CreateInv' /\ Bounded
<1>1. \A f \in Failing({"create", "createLate"}) : f # "createLate"
  BY DEF Failing
<1>2. CASE \E o \in Ordinals, f \in Failing({"create", "createLate"}) : CreateNodeSetPod(o, f)
  BY <1>1, <1>2, CreateStepInv
<1>3. CASE \/ \E o \in Ordinals, f \in Failing({"patch", "slurm"}) : SyncCordon(o, f)
           \/ \E o \in Ordinals, f \in Failing({"patch", "slurm"}) : SyncPodUncordon(o, f)
  BY <1>3, CordonStepInv
<1>4. CASE \E o \in Ordinals, f \in Failing({"patch", "slurm", "delete"}) :
             ProcessCondemned(o, f)
  BY <1>4, CondemnedInv
<1>5. CASE \/ \E o \in Ordinals, f \in Failing({"patch", "delete"}) : ProcessNodeSetPod(o, f)
           \/ \E o \in Ordinals, f \in Failing({"delete"}) : DeleteUnregistered(o, f)
  BY <1>5, DeletionsInv
<1>6. CASE Sync \/ SyncNodeSetPods \/ UncordonDone \/ CreateDone
  BY <1>6, SyncInv, PlanInv, UncordonDoneInv, CreateDoneInv
<1>7. CASE \/ \E f \in Failing({"slurm"}) : RefreshNodeCache(f)
           \/ CordonDone \/ DeleteDone \/ ProcessDone \/ SyncSlurmNodes \/ SyncDone
  BY <1>7, MovesInv
<1> QED
  BY <1>2, <1>3, <1>4, <1>5, <1>6, <1>7 DEF Reconcile

LEMMA NextCreateInv ==
    ASSUME "createLate" \notin Faults, IInv, CreateInv, [Next]_vars
    PROVE  CreateInv' /\ Bounded
<1>1. IInv'
  BY NextIInv
<1>2. CASE UNCHANGED vars
  <2>1. UNCHANGED <<pod, watch, cache, exp, pc, want, snap, batch, plan>>
    BY <1>2 DEF vars, apiVars, opVars
  <2> QED
    BY <1>1, <2>1, TouchInv
<1> QED
  BY <1>1, <1>2, ReconcileInv, ClusterInv, DisturbanceInv DEF Next

\* The informer may lag, users may rescale, pods may be evicted, creations may fail and
\* the operator may crash: a reconcile still creates no pod beyond the replicas it read,
\* for every size of the NodeSet and of its bursts.
THEOREM CreationsNeverOvershoot == Spec => CreateNeverOvershoots
<1>1. ASSUME IInv, CreateInv, [Next]_vars, NEW o \in Ordinals,
             "createLate" \notin Faults, pod[o] = NoPod, pod'[o] # NoPod
      PROVE  Cardinality(PodsIn(pod')) <= want
  <2>1. ~(PodsIn(pod') \subseteq PodsIn(pod))
    BY <1>1 DEF PodsIn
  <2> QED
    BY <1>1, <2>1, NextCreateInv DEF Bounded
<1> DEFINE Within == \A o \in Ordinals :
                       "createLate" \notin Faults /\ pod[o] = NoPod /\ pod'[o] # NoPod
                           => Cardinality(PodsIn(pod')) <= want
           Truthful == "createLate" \notin Faults => CreateInv
<1>2. Init => Truthful
  BY InitCreateInv
<1>3. IInv /\ Truthful /\ [Next]_vars => Truthful'
  BY NextCreateInv
<1>4. IInv /\ Truthful /\ [Next]_vars => [Within]_vars
  BY <1>1
<1> QED
  BY <1>2, <1>3, <1>4, AlwaysIInv, PTL DEF Spec, CreateNeverOvershoots

=============================================================================
