------------------------ MODULE ClusterObjectsProofs ------------------------
(***************************************************************************)
(* Proofs about ClusterObjects, for any scenes: the state keeps its types, *)
(* the host keys of a LoginSet stay what they are, and, where users leave  *)
(* alone what no handler watches, no trigger is lost, so that the objects  *)
(* of a settled cluster are those its resources call for.                  *)
(***************************************************************************)
EXTENDS ClusterObjects, TLAPS

\* What an object and a resource consist of.
IsObject(x) ==
  x = [owner |-> x.owner, deleting |-> x.deleting, immutable |-> x.immutable, data |-> x.data]

ObjectOK(x, n) == IsObject(x) /\ x.owner \in 1..n /\ x.deleting \in BOOLEAN

IsResource(x) == x = [uid |-> x.uid, spec |-> x.spec, deleting |-> x.deleting]

ResourceOK(x, n) == IsResource(x) /\ x.uid \in 1..n /\ x.deleting \in BOOLEAN

\* The store k holds an object, a resource or nothing under the names of these.
StoreOK(k, n) ==
  /\ k = [m \in Names |-> k[m]]
  /\ \A o \in Objects : k[o] # Absent => ObjectOK(k[o], n)
  /\ \A r \in Reconcilers : k[r] # Absent => ResourceOK(k[r], n)

\* TypeOK in a form that is inductive.
TypeInv ==
  /\ TypeOK
  /\ scene \in DOMAIN Scenes
  /\ StoreOK(api, MaxUid) /\ StoreOK(cache, MaxUid)
  /\ seen = [r \in Reconcilers |-> seen[r]]
  /\ \A r \in Reconcilers : seen[r] # Absent => ResourceOK(seen[r], MaxUid)
  /\ pc \in [Reconcilers -> Nat]
  /\ uids \in [Reconcilers -> 1..MaxUid]

\* The objects that each reconciler writes.
LEMMA WrittenTable ==
  /\ Written("controller") = {"ctlService", "ctlConfig", "ctlSet", "ctlMonitor"}
  /\ Written("accounting") = {"accService", "accConfig", "accSet"}
  /\ Written("restapi") = {"restService", "restDeployment"}
  /\ Written("loginset") = {"hostKeys", "sshConfig", "loginService", "loginDeployment"}
  /\ Written("nodeset") = {"workerService", "workerPDB", "workerSsh"}
<1>1. /\ Steps["controller"] = ControllerSync /\ Steps["accounting"] = AccountingSync
      /\ Steps["restapi"] = RestApiSync /\ Steps["loginset"] = LoginSetSync
      /\ Steps["nodeset"] = NodeSetObjects
  BY DEF Steps
<1>2. Written("controller") = {"ctlService", "ctlConfig", "ctlSet", "ctlMonitor"}
  BY <1>1 DEF Written, ControllerSync
<1>3. Written("accounting") = {"accService", "accConfig", "accSet"}
  BY <1>1 DEF Written, AccountingSync
<1>4. Written("restapi") = {"restService", "restDeployment"}
  BY <1>1 DEF Written, RestApiSync
<1>5. Written("loginset") = {"hostKeys", "sshConfig", "loginService", "loginDeployment"}
  BY <1>1 DEF Written, LoginSetSync
<1>6. Written("nodeset") = {"workerService", "workerPDB", "workerSsh"}
  BY <1>1 DEF Written, NodeSetObjects
<1> QED
  BY <1>2, <1>3, <1>4, <1>5, <1>6

\* The names of resources, of what users keep and of what the operator writes differ.
LEMMA NamesDisjoint ==
  /\ UserObjects \cap Objects = {} /\ UserObjects \cap Reconcilers = {}
  /\ Reconcilers \cap Objects = {}
<1>1. Objects = Written("controller") \cup Written("accounting") \cup Written("restapi")
                  \cup Written("loginset") \cup Written("nodeset")
  BY DEF Objects, Reconcilers
<1> QED
  BY <1>1, WrittenTable DEF UserObjects, Reconcilers

\* The parts of a scene have their types.
LEMMA SceneFacts ==
  ASSUME scene \in DOMAIN Scenes
  PROVE  /\ Running \subseteq Reconcilers /\ Editable \subseteq Names /\ Deletable \subseteq Names
         /\ MaxDisturb \in Nat /\ MaxUid \in Nat /\ 1 \in 1..MaxUid
  BY ClusterObjectsAssumption DEF Running, Editable, Deletable, MaxDisturb, MaxUid

\* What the invariant says of the variables that a step may leave alone.
LEMMA TypeFacts ==
  ASSUME TypeInv
  PROVE  /\ scene \in DOMAIN Scenes
         /\ StoreOK(api, MaxUid) /\ StoreOK(cache, MaxUid)
         /\ \A m \in Names \ stale : cache[m] = api[m]
         /\ queue \subseteq Reconcilers /\ failed \subseteq Reconcilers
         /\ seen = [r \in Reconcilers |-> seen[r]]
         /\ \A r \in Reconcilers : seen[r] # Absent => ResourceOK(seen[r], MaxUid)
         /\ pc \in [Reconcilers -> Nat]
         /\ \A r \in Reconcilers :
              pc[r] \in 0..Len(Steps[r]) + 1 /\ (pc[r] = 0 <=> seen[r] = Absent)
         /\ uids \in [Reconcilers -> 1..MaxUid]
         /\ budget \in 0..MaxDisturb
         /\ Running \subseteq Reconcilers /\ Editable \subseteq Names /\ Deletable \subseteq Names
         /\ MaxDisturb \in Nat /\ MaxUid \in Nat /\ 1 \in 1..MaxUid
  BY SceneFacts DEF TypeInv, TypeOK

\* The parts of it that most steps need.
LEMMA SceneTypes ==
  ASSUME TypeInv
  PROVE  /\ scene \in DOMAIN Scenes
         /\ Running \subseteq Reconcilers /\ Editable \subseteq Names /\ Deletable \subseteq Names
         /\ MaxUid \in Nat
  BY TypeFacts, Zenon

LEMMA StoreTypes ==
  ASSUME TypeInv
  PROVE  StoreOK(api, MaxUid) /\ StoreOK(cache, MaxUid)
  BY TypeFacts, Zenon

LEMMA StoreMaps ==
  ASSUME TypeInv
  PROVE  api = [m \in Names |-> api[m]] /\ cache = [m \in Names |-> cache[m]]
  BY StoreTypes DEF StoreOK

LEMMA CacheAgrees ==
  ASSUME TypeInv
  PROVE  \A m \in Names \ stale : cache[m] = api[m]
  BY TypeFacts, Zenon

LEMMA SeenTypes ==
  ASSUME TypeInv
  PROVE  \A r \in Reconcilers : seen[r] # Absent => ResourceOK(seen[r], MaxUid)
  BY TypeFacts, Zenon

LEMMA PcTypes ==
  ASSUME TypeInv
  PROVE  /\ seen = [r \in Reconcilers |-> seen[r]]
         /\ pc \in [Reconcilers -> Nat]
         /\ \A r \in Reconcilers :
              pc[r] \in 0..Len(Steps[r]) + 1 /\ (pc[r] = 0 <=> seen[r] = Absent)
  BY TypeFacts, Zenon

\* Each step of a reconcile is for an object that its reconciler writes.
LEMMA StepsFacts ==
  ASSUME NEW r \in Reconcilers
  PROVE  /\ Len(Steps[r]) \in Nat /\ DOMAIN Steps[r] = 1..Len(Steps[r])
         /\ \A i \in DOMAIN Steps[r] : Steps[r][i] \in Written(r) /\ Steps[r][i] \in Objects
<1>1. /\ Steps["controller"] = ControllerSync /\ Steps["accounting"] = AccountingSync
      /\ Steps["restapi"] = RestApiSync /\ Steps["loginset"] = LoginSetSync
      /\ Steps["nodeset"] = NodeSetObjects
  BY DEF Steps
<1>2. Len(Steps[r]) \in Nat /\ DOMAIN Steps[r] = 1..Len(Steps[r])
  BY <1>1 DEF Reconcilers, ControllerSync, AccountingSync, RestApiSync, LoginSetSync, NodeSetObjects
<1> QED
  BY <1>2 DEF Written, Objects

\* Every object has one writer.
LEMMA OwnerWrites ==
  ASSUME NEW r \in Reconcilers, NEW o \in Written(r)
  PROVE  Owner(o) = r
<1>1. \A q \in Reconcilers : o \in Written(q) => q = r
  BY WrittenTable DEF Reconcilers
<1> QED
  BY <1>1 DEF Owner

\* The host keys are written for a LoginSet.
LEMMA HostKeysName == "hostKeys" \in Names /\ "hostKeys" \in Objects /\ Owner("hostKeys") = "loginset"
<1>1. "hostKeys" \in Written("loginset") /\ "loginset" \in Reconcilers
  BY WrittenTable DEF Reconcilers
<1> QED
  BY <1>1, OwnerWrites DEF Names, Objects

-----------------------------------------------------------------------------
(* What the objects hold: pods with the volumes they mount, and the        *)
(* Secret of the host keys alone immutable.                                *)

\* The volumes of the pods of a workload.
VolumeNames(w) ==
  CASE w = "ctlSet"          -> {"etc", "log", "pid", "authsocket", "statesave"}
    [] w = "accSet"          -> {"etc", "pid"}
    [] w = "restDeployment"  -> {"etc"}
    [] w = "loginDeployment" -> {"etc", "sackd", "config", "hostkeys", "sshd", "sssd"}

\* The objects of the operator that the pods of a workload read.
Projected(w) ==
  CASE w \in {"ctlSet", "restDeployment"} -> {"ctlConfig"}
    [] w = "accSet"                       -> {"accConfig"}
    [] w = "loginDeployment"              -> {"hostKeys", "sshConfig"}

\* They have these names and need no other object than the projected ones.
VolumesOK(w, volumes) ==
  /\ DOMAIN volumes = VolumeNames(w)
  /\ \A v \in VolumeNames(w) : volumes[v] \subseteq Projected(w) \cup UserObjects

\* The template of a workload, in which others may have overwritten entries.
PodOK(w, pod) ==
  /\ "volumes" \in DOMAIN pod /\ "mounts" \in DOMAIN pod
  /\ pod["volumes"] = Drift \/ VolumesOK(w, pod["volumes"])
  /\ pod["mounts"] = Drift \/ pod["mounts"] \subseteq VolumeNames(w)

\* What is found under a name.
Sound(n, x) ==
  /\ n = "hostKeys" => x.immutable = TRUE
  /\ n \in Objects \ {"hostKeys"} => x.immutable = FALSE
  /\ n \in Workloads => PodOK(n, x.data)
  /\ n = "controller" => x.spec \in Specs["controller"]

SoundStore(k) == \A n \in Names : k[n] # Absent => Sound(n, k[n])

SoundInv ==
  /\ SoundStore(api) /\ SoundStore(cache)
  /\ seen["controller"] # Absent => seen["controller"].spec \in Specs["controller"]

-----------------------------------------------------------------------------
(* The triggers: what is not as it should be has an event on its way, a    *)
(* request in the queue or a step to come.                                 *)

\* No object looks like one of the markers.
NoMarker == \A x : IsObject(x) => x \notin {Absent, Failed, Skip, Remove}

\* The reconcilers that are told of what they depend on.
Alert == {"controller", "accounting", "restapi", "loginset"}

\* The object x needs no write to become what is wanted of o, or none helps.
Matches(o, x, want) ==
  \/ want = Skip
  \/ want = Remove /\ Gone(x)
  \/ want = Failed /\ o \in {"ctlConfig", "accConfig"} /\ x # Absent
  \/ /\ want \notin {Skip, Remove, Failed}
     /\ x # Absent
     /\ \/ x.deleting \/ x.immutable \/ ~ShouldUpdate(o)
        \/ x.owner = want.owner /\ x.data = want.data

\* What a build reads and no handler watches.
Unheard == {"files", "storagePassword"}

\* The object o is what r wants, or an event about it is on its way.
Kept(r, o) ==
  o \in stale \/ \A drawn : Matches(o, cache[o], Wanted(o, cache[r], cache, drawn))

\* The last run of r, or the present one so far, has done what the cache calls for.
Served(r) ==
  /\ pc[r] # 0 => seen[r] = cache[r]
  /\ r = "loginset" => Present(cache, "controller")
  /\ \/ pc[r] # 0 /\ r \in failed
     \/ \A i \in DOMAIN Steps[r] : pc[r] = 0 \/ i < pc[r] => Kept(r, Steps[r][i])

\* It has, or a request or the event that makes one is to come.
CaughtUp(r) == r \in queue \/ r \in stale \/ Gone(cache[r]) \/ Served(r)

\* Every running reconciler that is alert is caught up; why, needs that events are late
\* for lagging objects only, that nobody changes an unwatched input but to delete it,
\* and that all objects are written by a reconciler that runs.
TriggerInv ==
  /\ \A r \in Alert \cap Running : CaughtUp(r)
  /\ stale \subseteq Lagging
  /\ \A x \in Unheard : api[x] \in {cache[x], Absent}
  /\ api["ctlMonitor"] # Absent => api["ctlMonitor"].deleting = FALSE
  /\ \A o \in Objects \ Managed : api[o] = Absent

\* Whom r is told of, and what its builds read besides.
Heard(r) ==
  CASE r = "controller" -> {"controller", "ctlService", "ctlConfig", "ctlSet",
                            "nodeset", "accounting", "slurmKey", "jwtKey"}
    [] r = "accounting" -> {"accounting", "accService", "accConfig", "accSet", "slurmKey", "jwtKey"}
    [] r = "restapi"    -> {"restapi", "restService", "restDeployment", "controller"}
    [] r = "loginset"   -> {"loginset", "hostKeys", "sshConfig", "loginService", "loginDeployment",
                            "controller", "sssd"}

\* It hears of all it writes, but for the ServiceMonitor.
LEMMA HeardOwn ==
  ASSUME NEW r \in Alert
  PROVE  /\ r \in Reconcilers /\ r \in Heard(r) /\ Written(r) \ {"ctlMonitor"} \subseteq Heard(r)
         /\ Heard(r) \cap (Unheard \cup {"ctlMonitor"}) = {}
         /\ r # "controller" => "ctlMonitor" \notin Written(r)
         /\ Unheard \cap Written(r) = {} /\ r \notin Unheard \cup {"ctlMonitor"}
  BY WrittenTable DEF Alert, Heard, Unheard, Reconcilers

\* What a builder returns.
LEMMA OwnedByParts ==
  ASSUME NEW c, NEW imm, NEW data
  PROVE  LET x == OwnedBy(c, imm, data) IN
         IsObject(x) /\ x.owner = c.uid /\ x.deleting = FALSE /\ x.immutable = imm /\ x.data = data
  BY DEF OwnedBy, IsObject

\* It is an object, not a marker.
LEMMA BuiltIsNoMarker ==
  ASSUME NoMarker, NEW c, NEW imm, NEW data
  PROVE  OwnedBy(c, imm, data) \notin {Absent, Failed, Skip, Remove}
  BY OwnedByParts, Zenon DEF NoMarker

-----------------------------------------------------------------------------
(* A step of a reconcile.                                                  *)

\* The program counter moves on within a run.
LEMMA PcMoves ==
  ASSUME TypeInv, NEW r \in Reconcilers, pc[r] \in DOMAIN Steps[r], pc' = [pc EXCEPT ![r] = @ + 1],
         seen' = seen
  PROVE  /\ pc' \in [Reconcilers -> Nat] /\ seen[r] # Absent
         /\ \A q \in Reconcilers :
              pc'[q] \in 0..Len(Steps[q]) + 1 /\ (pc'[q] = 0 <=> seen'[q] = Absent)
<1>1. /\ pc \in [Reconcilers -> Nat]
      /\ \A q \in Reconcilers : pc[q] \in 0..Len(Steps[q]) + 1 /\ (pc[q] = 0 <=> seen[q] = Absent)
  BY PcTypes
<1>2. Len(Steps[r]) \in Nat /\ pc[r] \in 1..Len(Steps[r])
  BY StepsFacts
<1>3. pc' \in [Reconcilers -> Nat] /\ \A q \in Reconcilers : pc'[q] = IF q = r THEN pc[r] + 1 ELSE pc[q]
  BY <1>1
<1>4. pc'[r] \in 0..Len(Steps[r]) + 1 /\ pc'[r] # 0 /\ pc[r] # 0
  BY <1>2, <1>3
<1> QED
  BY <1>1, <1>3, <1>4

\* The step of r that is next, for o, ends in y, with the host keys it draws.
StepWrites(r, o, drawn, y) ==
  /\ o = Steps[r][pc[r]] /\ y = Result(o, Wanted(o, seen[r], cache, drawn))
  /\ o \in Written(r) /\ o \in Names /\ seen[r] # Absent
  /\ \/ /\ y = Failed /\ failed' = failed \cup {r}
        /\ UNCHANGED <<api, cache, stale, queue>>
     \/ /\ y # Failed /\ Put(o, y) /\ queue' = queue \cup Told(o, y)
        /\ UNCHANGED failed
  /\ pc[r] \in DOMAIN Steps[r] /\ pc' = [pc EXCEPT ![r] = @ + 1]
  /\ UNCHANGED <<seen, uids, budget, scene>>

\* A step of a reconcile fails, or writes its object.
LEMMA StepParts ==
  ASSUME TypeInv, NEW r \in Reconcilers, Step(r)
  PROVE  \E o, drawn, y : StepWrites(r, o, drawn, y)
<1>1. PICK o : o = Steps[r][pc[r]]
  OBVIOUS
<1>2. /\ pc[r] \in DOMAIN Steps[r] /\ pc' = [pc EXCEPT ![r] = @ + 1]
      /\ UNCHANGED <<seen, uids, budget, scene>>
  BY Zenon DEF Step
<1>3. o \in Written(r) /\ o \in Names /\ seen[r] # Absent
  BY <1>1, <1>2, StepsFacts, PcMoves, Zenon DEF Names
<1>4. PICK drawn, y :
        /\ y = Result(o, Wanted(o, seen[r], cache, drawn))
        /\ IF y = Failed
           THEN /\ failed' = failed \cup {r}
                /\ UNCHANGED <<api, cache, stale, queue>>
           ELSE /\ Put(o, y)
                /\ queue' = queue \cup Told(o, y)
                /\ UNCHANGED failed
  BY <1>1, Zenon DEF Step
<1> QED
  BY <1>1, <1>2, <1>3, <1>4, Zenon DEF StepWrites

Patched(x, u, d) == [x EXCEPT !.owner = u, !.data = d]

\* The objects with given fields, as a set.
Fields(U, D, I, X) == [owner : U, deleting : D, immutable : I, data : X]

\* They are the objects, seen as a set of records.
LEMMA ObjectFields ==
  ASSUME NEW x, NEW U, NEW D, NEW I, NEW X
  PROVE  /\ x \in Fields(U, D, I, X) =>
              /\ IsObject(x)
              /\ x.owner \in U /\ x.deleting \in D /\ x.immutable \in I /\ x.data \in X
         /\ /\ IsObject(x)
            /\ x.owner \in U /\ x.deleting \in D /\ x.immutable \in I /\ x.data \in X
            => x \in Fields(U, D, I, X)
<1>1. ASSUME x \in Fields(U, D, I, X)
      PROVE  /\ IsObject(x)
             /\ x.owner \in U /\ x.deleting \in D /\ x.immutable \in I /\ x.data \in X
  BY <1>1 DEF Fields, IsObject
<1>2. ASSUME IsObject(x), x.owner \in U, x.deleting \in D, x.immutable \in I, x.data \in X
      PROVE  x \in Fields(U, D, I, X)
  <2>1. [owner |-> x.owner, deleting |-> x.deleting, immutable |-> x.immutable, data |-> x.data]
          \in Fields(U, D, I, X)
    BY <1>2 DEF Fields
  <2> QED
    BY <1>2, <2>1 DEF IsObject
<1> QED
  BY <1>1, <1>2

\* Updating owner and data of an object leaves the rest of it.
LEMMA OwnerDataUpdated ==
  ASSUME NEW x, IsObject(x), NEW u, NEW d, NEW y, y = Patched(x, u, d)
  PROVE  /\ IsObject(y)
         /\ y.owner = u /\ y.deleting = x.deleting /\ y.immutable = x.immutable /\ y.data = d
<1>1. x \in Fields({x.owner}, {x.deleting}, {x.immutable}, {x.data})
  BY ObjectFields
<1>2. y \in Fields({u}, {x.deleting}, {x.immutable}, {d})
  BY <1>1, Zenon DEF Fields, Patched
<1> QED
  BY <1>2, ObjectFields

\* What a merge patch makes of the live object's data.
Merged(old, new, live) ==
  LET set  == {f \in DOMAIN new : ~(f \in DOMAIN old /\ old[f] = new[f])}
      drop == DOMAIN old \ DOMAIN new
  IN  [f \in set \cup (DOMAIN live \ drop) |-> IF f \in set THEN new[f] ELSE live[f]]

\* A merge patch changes owner and data only.
LEMMA MergePatchParts ==
  ASSUME NEW old, NEW new, NEW live, IsObject(live), NEW y, y = MergePatch(old, new, live)
  PROVE  /\ IsObject(y) /\ y.deleting = live.deleting /\ y.immutable = live.immutable
         /\ y.owner = IF old.owner = new.owner THEN live.owner ELSE new.owner
         /\ y.data = Merged(old.data, new.data, live.data)
<1> DEFINE u == IF old.owner = new.owner THEN live.owner ELSE new.owner
           d == Merged(old.data, new.data, live.data)
<1>1. y = Patched(live, u, d)
  BY DEF MergePatch, Merged, Patched
<1> HIDE DEF u, d
<1>2. /\ IsObject(y) /\ y.deleting = live.deleting /\ y.immutable = live.immutable
      /\ y.owner = u /\ y.data = d
  BY <1>1, OwnerDataUpdated
<1> QED
  BY <1>2 DEF u, d

-----------------------------------------------------------------------------
(* What a step wants, and what reading it depends on.                      *)

\* A reconciler is told of every change to what it hears of.
LEMMA HeardIsQueued ==
  ASSUME NEW r \in Alert \cap Running, NEW x \in Heard(r), NEW k, Present(k, r)
  PROVE  r \in Enqueued(x, k)
<1>1. CASE r = "controller"
  <2>1. r \in controllerWatches(x, k)
    BY <1>1 DEF Heard, controllerWatches, controllerOnNodeSet, controllerOnAccounting,
         controllerOnSecret, GetController, GetControllersForAccounting, Reconcilers, AuthKeys,
         UserObjects
  <2> QED
    BY <2>1 DEF Enqueued
<1>2. CASE r = "accounting"
  <2>1. r \in accountingWatches(x, k)
    BY <1>2, WrittenTable DEF Heard, accountingWatches, accountingOnSecret, AuthKeys, UserObjects
  <2> QED
    BY <2>1 DEF Enqueued
<1>3. CASE r = "restapi"
  <2>1. r \in restapiWatches(x, k)
    BY <1>3, WrittenTable DEF Heard, restapiWatches, restapiOnController, GetRestapisForController,
         Reconcilers, UserObjects
  <2> QED
    BY <2>1 DEF Enqueued
<1>4. CASE r = "loginset"
  <2>1. r \in loginsetWatches(x, k)
    BY <1>4, WrittenTable DEF Heard, loginsetWatches, loginsetOnController, loginsetOnSecret,
         GetLoginSetsForController, Reconcilers, UserObjects
  <2> QED
    BY <2>1 DEF Enqueued
<1> QED
  BY <1>1, <1>2, <1>3, <1>4 DEF Alert

\* What a step wants depends on what its reconciler hears of; if something
\* else it reads is deleted, a configuration cannot be built.
LEMMA WantedReads ==
  ASSUME NoMarker, NEW r \in Alert, NEW o \in Written(r),
         NEW c, r = "controller" => c.spec.files \subseteq {"files"}, NEW k, NEW l,
         \A x \in Heard(r) : l[x] = k[x], \A x \in Unheard : l[x] \in {k[x], Absent}, NEW d
  PROVE  \/ Wanted(o, c, l, d) = Wanted(o, c, k, d)
         \/ /\ o \in {"ctlConfig", "accConfig"} /\ Wanted(o, c, l, d) = Failed
            /\ Wanted(o, c, k, d) \notin {Skip, Remove}
<1>1. Owner(o) = r
  BY OwnerWrites, HeardOwn
<1>2. Failed \notin {Skip, Remove}
  BY MarkersAssumption
<1>3. CASE r = "controller"
  <2>1. /\ l["slurmKey"] = k["slurmKey"] /\ l["jwtKey"] = k["jwtKey"] /\ l["ctlConfig"] = k["ctlConfig"]
        /\ l["accounting"] = k["accounting"] /\ l["nodeset"] = k["nodeset"]
    BY <1>3 DEF Heard
  <2>2. Wanted(o, c, l, d) = ControllerStep(o, c, l) /\ Wanted(o, c, k, d) = ControllerStep(o, c, k)
    BY <1>1, <1>3 DEF Wanted
  <2>3. o \in {"ctlService", "ctlConfig", "ctlSet", "ctlMonitor"}
    BY <1>3, WrittenTable
  <2>4. CASE o = "ctlConfig" /\ ~c.spec.external
    <3>1. ControllerStep(o, c, l) = BuildControllerConfig(c, l)
      BY <2>4 DEF ControllerStep
    <3>2. ControllerStep(o, c, k) = BuildControllerConfig(c, k)
      BY <2>4 DEF ControllerStep
    <3>3. CASE \E n \in c.spec.files : ~Present(l, n)
      <4>1. BuildControllerConfig(c, l) = Failed
        BY <3>3 DEF BuildControllerConfig
      <4>2. BuildControllerConfig(c, k) \notin {Skip, Remove}
        BY <1>2, BuiltIsNoMarker, ZenonT(30) DEF BuildControllerConfig, BuildConfigMap
      <4> QED
        BY <2>2, <2>4, <3>1, <3>2, <4>1, <4>2
    <3>4. CASE \A n \in c.spec.files : Present(l, n)
      <4>1. \A n \in c.spec.files : l[n] = k[n]
        BY <1>3, <3>4 DEF Present, Unheard
      <4>2. BuildControllerConfig(c, l) = BuildControllerConfig(c, k)
        BY <2>1, <4>1 DEF BuildControllerConfig, Present
      <4> QED
        BY <2>2, <3>1, <3>2, <4>2
    <3> QED
      BY <3>3, <3>4
  <2>5. CASE ~(o = "ctlConfig" /\ ~c.spec.external)
    <3>1. BuildControllerConfigExternal(c, l) = BuildControllerConfigExternal(c, k)
      BY <2>1, Zenon DEF BuildControllerConfigExternal, Present
    <3>2. BuildController(c, l) = BuildController(c, k)
      BY <2>1 DEF BuildController, controllerPodTemplate, getAuthHashes, getHashes, DataOf
    <3>3. ControllerStep(o, c, l) = ControllerStep(o, c, k)
      BY <2>3, <2>5, <3>1, <3>2 DEF ControllerStep
    <3> QED
      BY <2>2, <3>3
  <2> QED
    BY <2>4, <2>5
<1>4. CASE r = "accounting"
  <2>1. l["slurmKey"] = k["slurmKey"] /\ l["jwtKey"] = k["jwtKey"] /\ l["accConfig"] = k["accConfig"]
    BY <1>4 DEF Heard
  <2>2. Wanted(o, c, l, d) = AccountingStep(o, c, l) /\ Wanted(o, c, k, d) = AccountingStep(o, c, k)
    BY <1>1, <1>4 DEF Wanted
  <2>3. o \in {"accService", "accConfig", "accSet"}
    BY <1>4, WrittenTable
  <2>4. BuildAccounting(c, l) = BuildAccounting(c, k)
    BY <2>1 DEF BuildAccounting, accountingPodTemplate, accountingHashes, getAuthHashes, DataOf
  <2>5. \/ BuildAccountingConfig(c, l) = BuildAccountingConfig(c, k)
        \/ BuildAccountingConfig(c, l) = Failed
    BY Zenon DEF BuildAccountingConfig, Present, Unheard
  <2>6. BuildAccountingConfig(c, k) \notin {Skip, Remove}
    BY <1>2, BuiltIsNoMarker, Zenon DEF BuildAccountingConfig, BuildSecret
  <2>7. CASE o = "accConfig"
    BY <2>2, <2>5, <2>6, <2>7 DEF AccountingStep
  <2>8. CASE o # "accConfig"
    BY <2>2, <2>3, <2>4, <2>8 DEF AccountingStep
  <2> QED
    BY <2>7, <2>8
<1>5. CASE r = "restapi"
  <2>1. l["controller"] = k["controller"]
    BY <1>5 DEF Heard
  <2>2. RestApiStep(o, c, l) = RestApiStep(o, c, k)
    BY <1>5, <2>1, WrittenTable DEF RestApiStep, BuildRestapi, Present
  <2> QED
    BY <1>1, <1>5, <2>2 DEF Wanted
<1>6. CASE r = "loginset"
  <2>1. /\ l["controller"] = k["controller"] /\ l["hostKeys"] = k["hostKeys"]
        /\ l["sshConfig"] = k["sshConfig"] /\ l["sssd"] = k["sssd"]
    BY <1>6 DEF Heard
  <2>2. BuildLogin(c, l) = BuildLogin(c, k)
    BY <2>1 DEF BuildLogin, loginPodTemplate, getLoginHashes, DataOf, Present
  <2>3. LoginSetStep(o, c, l, d) = LoginSetStep(o, c, k, d)
    BY <1>6, <2>2, WrittenTable DEF LoginSetStep
  <2> QED
    BY <1>1, <1>6, <2>3 DEF Wanted
<1> QED
  BY <1>3, <1>4, <1>5, <1>6 DEF Alert

\* What matched still does when only unheard inputs have been deleted.
LEMMA MatchesStays ==
  ASSUME NoMarker, NEW r \in Alert, NEW o \in Written(r),
         NEW c, r = "controller" => c.spec.files \subseteq {"files"}, NEW k, NEW l,
         \A x \in Heard(r) : l[x] = k[x], \A x \in Unheard : l[x] \in {k[x], Absent}, NEW d,
         NEW x, Matches(o, x, Wanted(o, c, k, d))
  PROVE  Matches(o, x, Wanted(o, c, l, d))
<1>1. CASE Wanted(o, c, l, d) = Wanted(o, c, k, d)
  BY <1>1
<1>2. CASE /\ o \in {"ctlConfig", "accConfig"} /\ Wanted(o, c, l, d) = Failed
           /\ Wanted(o, c, k, d) \notin {Skip, Remove}
  BY <1>2 DEF Matches
<1> QED
  BY <1>1, <1>2, WantedReads

\* The specs in the cache are ones that users give.
LEMMA CachedFiles ==
  ASSUME TypeInv, SoundInv, NEW r \in Alert, ~Gone(cache[r])
  PROVE  r = "controller" => cache[r].spec.files \subseteq {"files"}
<1> SUFFICES ASSUME r = "controller" PROVE cache[r].spec.files \subseteq {"files"}
  OBVIOUS
<1>1. cache[r].spec \in Specs["controller"]
  BY DEF Gone, SoundInv, SoundStore, Sound, Names, Reconcilers
<1> QED
  BY <1>1, SceneTypes, ClusterObjectsAssumption DEF Specs

\* Updating the owner of an object leaves the rest of it.
LEMMA OwnerUpdated ==
  ASSUME NEW x, IsObject(x), NEW u, NEW y, y = [x EXCEPT !.owner = u]
  PROVE  /\ IsObject(y)
         /\ y.owner = u /\ y.deleting = x.deleting /\ y.immutable = x.immutable /\ y.data = x.data
<1>1. x \in Fields({x.owner}, {x.deleting}, {x.immutable}, {x.data})
  BY ObjectFields
<1>2. y \in Fields({u}, {x.deleting}, {x.immutable}, {x.data})
  BY <1>1 DEF Fields
<1> QED
  BY <1>2, ObjectFields

\* A step has its object left alone, removed or not built, or wants one that the
\* resource it works for owns.
LEMMA WantedShape ==
  ASSUME NEW n \in Nat, NEW k, StoreOK(k, n), NEW c, ResourceOK(c, n), NEW drawn,
         NEW r \in Reconcilers, NEW o \in Written(r)
  PROVE  LET w == Wanted(o, c, k, drawn) IN
         w \in {Skip, Remove, Failed} \/ (ObjectOK(w, n) /\ w.owner = c.uid)
<1> DEFINE OK(w) == w \in {Skip, Remove, Failed} \/ (ObjectOK(w, n) /\ w.owner = c.uid)
<1>1. ASSUME NEW imm, NEW data
      PROVE  OK(OwnedBy(c, imm, data))
  <2>1. /\ IsObject(OwnedBy(c, imm, data))
        /\ OwnedBy(c, imm, data).owner = c.uid /\ OwnedBy(c, imm, data).deleting = FALSE
    BY DEF OwnedBy, IsObject
  <2> QED
    BY <2>1, Zenon DEF ObjectOK, ResourceOK
<1>2. OK(Skip) /\ OK(Remove) /\ OK(Failed)
  OBVIOUS
<1>3. Owner(o) = r
  BY OwnerWrites
<1> HIDE DEF OK
<1>4. CASE r = "controller"
  <2>1. /\ OK(BuildControllerService(c)) /\ OK(BuildControllerConfigExternal(c, k))
        /\ OK(BuildControllerConfig(c, k)) /\ OK(BuildController(c, k))
        /\ OK(BuildControllerServiceMonitor(c))
    BY <1>1, <1>2, Zenon DEF BuildControllerService, BuildService, BuildControllerConfigExternal,
         BuildControllerConfig, BuildConfigMap, BuildController, BuildControllerServiceMonitor,
         BuildServiceMonitor
  <2>2. OK(ControllerStep(o, c, k))
    BY <1>2, <1>4, <2>1, WrittenTable DEF ControllerStep
  <2> QED
    BY <1>3, <1>4, <2>2 DEF Wanted, OK
<1>5. CASE r = "accounting"
  <2>1. /\ OK(BuildAccountingService(c)) /\ OK(BuildAccountingConfig(c, k))
        /\ OK(BuildAccounting(c, k))
    BY <1>1, <1>2, Zenon DEF BuildAccountingService, BuildService, BuildAccountingConfig, BuildSecret,
         BuildAccounting
  <2>2. OK(AccountingStep(o, c, k))
    BY <1>2, <1>5, <2>1, WrittenTable DEF AccountingStep
  <2> QED
    BY <1>3, <1>5, <2>2 DEF Wanted, OK
<1>6. CASE r = "restapi"
  <2>1. OK(BuildRestapiService(c)) /\ OK(BuildRestapi(c, k))
    BY <1>1, <1>2, Zenon DEF BuildRestapiService, BuildService, BuildRestapi
  <2>2. OK(RestApiStep(o, c, k))
    BY <1>6, <2>1, WrittenTable DEF RestApiStep
  <2> QED
    BY <1>3, <1>6, <2>2 DEF Wanted, OK
<1>7. CASE r = "loginset"
  <2>1. /\ OK(BuildLoginSshHostKeys(c, drawn)) /\ OK(BuildLoginSshConfig(c))
        /\ OK(BuildLoginService(c)) /\ OK(BuildLogin(c, k))
    BY <1>1, <1>2, Zenon DEF BuildLoginSshHostKeys, BuildSecret, BuildLoginSshConfig, BuildConfigMap,
         BuildLoginService, BuildService, BuildLogin
  <2>2. OK(LoginSetStep(o, c, k, drawn))
    BY <1>7, <2>1, WrittenTable DEF LoginSetStep
  <2> QED
    BY <1>3, <1>7, <2>2 DEF Wanted, OK
<1>8. CASE r = "nodeset"
  <2>1. /\ OK(BuildClusterWorkerService(c)) /\ OK(BuildClusterWorkerPodDisruptionBudget(c))
        /\ OK(BuildWorkerSshConfig(c))
    BY <1>1, <1>2, Zenon DEF BuildClusterWorkerService, BuildService, BuildClusterWorkerPodDisruptionBudget,
         BuildPodDisruptionBudget, BuildWorkerSshConfig, BuildConfigMap
  <2>2. ASSUME NEW built, OK(built), NEW m \in Written("nodeset")
        PROVE  OK(SetOwnerReferences(built, c, k[m]))
    <3>1. CASE k[m] = Absent
      BY <2>2, <3>1 DEF SetOwnerReferences
    <3>2. CASE k[m] # Absent
      <4>1. ObjectOK(k[m], n)
        BY <3>2 DEF StoreOK, Objects, Reconcilers
      <4>2. ObjectOK([k[m] EXCEPT !.owner = c.uid], n) /\ [k[m] EXCEPT !.owner = c.uid].owner = c.uid
        BY <4>1, OwnerUpdated DEF ObjectOK, ResourceOK
      <4> QED
        BY <3>2, <4>2 DEF SetOwnerReferences, OK
    <3> QED
      BY <3>1, <3>2
  <2>3. "workerService" \in Written("nodeset") /\ "workerPDB" \in Written("nodeset")
    BY WrittenTable
  <2>4. /\ OK(syncClusterWorkerService(c, k)) /\ OK(syncClusterWorkerPDB(c, k))
        /\ OK(syncSshConfig(c))
    BY <1>2, <2>1, <2>2, <2>3 DEF syncClusterWorkerService, syncClusterWorkerPDB, syncSshConfig
  <2>5. OK(NodeSetStep(o, c, k))
    BY <1>8, <2>4, WrittenTable DEF NodeSetStep
  <2> QED
    BY <1>3, <1>8, <2>5 DEF Wanted, OK
<1> QED
  BY <1>4, <1>5, <1>6, <1>7, <1>8 DEF Reconcilers

\* A pod template has the volumes and the containers it is built with.
LEMMA PodTemplateParts ==
  ASSUME NEW spec, NEW volumes, NEW containers, NEW hashes,
         NEW pod, pod = BuildPodTemplate(spec, volumes, containers, hashes)
  PROVE  /\ "volumes" \in DOMAIN pod /\ "mounts" \in DOMAIN pod
         /\ pod["volumes"] = volumes /\ pod["mounts"] = UNION containers
         /\ pod.volumes = volumes /\ pod.mounts = UNION containers
  BY DEF BuildPodTemplate, Joined

\* A template is built well from its volumes and mounts.
LEMMA TemplateOK ==
  ASSUME NEW w, NEW spec, NEW volumes, NEW containers, NEW hashes,
         VolumesOK(w, volumes), UNION containers \subseteq VolumeNames(w)
  PROVE  PodOK(w, BuildPodTemplate(spec, volumes, containers, hashes))
  BY PodTemplateParts DEF PodOK

\* The template of slurmctld, for every persistence option.
LEMMA ControllerPod ==
  ASSUME NEW c, c.spec.files \subseteq {"files"},
         c.spec.persist \in {"existing", "template", "none"}, NEW k
  PROVE  PodOK("ctlSet", BuildController(c, k).data)
<1> DEFINE extra == CASE c.spec.persist = "existing" -> [statesave |-> {"stateClaim"}]
                      [] c.spec.persist = "template" -> [statesave |-> {}]
                      [] c.spec.persist = "none"     -> [statesave |-> {}]
           containers == {slurmctldContainer, LogfileContainer}
                           \cup (IF c.spec.inplace THEN {reconfigureContainer} ELSE {})
           volumes == Joined(controllerVolumes(c), extra)
<1>1. DOMAIN extra = {"statesave"} /\ extra["statesave"] \subseteq {"stateClaim"}
  OBVIOUS
<1>2. BuildController(c, k).data =
        BuildPodTemplate(c.spec, volumes, containers,
                         IF c.spec.inplace THEN getAuthHashes(k) ELSE getHashes(k))
  BY DEF BuildController, OwnedBy, controllerPodTemplate
<1> HIDE DEF extra
<1>3. /\ DOMAIN controllerVolumes(c) = {"etc", "log", "pid", "authsocket"}
      /\ controllerVolumes(c)["etc"] = {"ctlConfig", "slurmKey", "jwtKey"} \cup c.spec.files
      /\ controllerVolumes(c)["log"] = {} /\ controllerVolumes(c)["pid"] = {}
      /\ controllerVolumes(c)["authsocket"] = {}
  BY DEF controllerVolumes, Joined, LogFileVolume, PidfileVolume
<1>4. VolumesOK("ctlSet", volumes)
  <2>1. DOMAIN volumes = {"etc", "log", "pid", "authsocket", "statesave"}
    BY <1>1, <1>3 DEF Joined
  <2>2. /\ volumes["etc"] \subseteq {"ctlConfig", "slurmKey", "jwtKey", "files"}
        /\ volumes["log"] = {} /\ volumes["pid"] = {} /\ volumes["authsocket"] = {}
        /\ volumes["statesave"] \subseteq {"stateClaim"}
    BY <1>1, <1>3 DEF Joined
  <2> QED
    BY <2>1, <2>2 DEF VolumesOK, VolumeNames, Projected, UserObjects
<1>5. UNION containers \subseteq VolumeNames("ctlSet")
  BY DEF slurmctldContainer, LogfileContainer, reconfigureContainer, VolumeNames
<1> HIDE DEF volumes, containers
<1> QED
  BY <1>2, <1>4, <1>5, TemplateOK

\* The templates of slurmdbd, slurmrestd and the login pods.
LEMMA OtherPods ==
  ASSUME NEW c, NEW k
  PROVE  /\ PodOK("accSet", accountingPodTemplate(c, k))
         /\ PodOK("restDeployment", restapiPodTemplate(c))
         /\ PodOK("loginDeployment", loginPodTemplate(c, k))
<1>1. VolumesOK("accSet", accountingVolumes) /\ UNION {slurmdbdContainer} \subseteq VolumeNames("accSet")
  BY DEF VolumesOK, VolumeNames, Projected, UserObjects, accountingVolumes, Joined, PidfileVolume,
         slurmdbdContainer
<1>2. /\ VolumesOK("restDeployment", restapiVolumes)
      /\ UNION {slurmrestdContainer} \subseteq VolumeNames("restDeployment")
  BY DEF VolumesOK, VolumeNames, Projected, UserObjects, restapiVolumes, slurmrestdContainer
<1>3. /\ VolumesOK("loginDeployment", loginVolumes)
      /\ UNION {loginContainer, InitconfContainer} \subseteq VolumeNames("loginDeployment")
  BY DEF VolumesOK, VolumeNames, Projected, UserObjects, loginVolumes, Joined, EtcSlurmVolume,
         loginContainer, InitconfContainer
<1> QED
  BY <1>1, <1>2, <1>3, TemplateOK DEF accountingPodTemplate, restapiPodTemplate, loginPodTemplate

\* What a step wants its object to be is sound.
LEMMA WantedSound ==
  ASSUME scene \in DOMAIN Scenes, NEW n, NEW k, StoreOK(k, n), SoundStore(k), NEW c, NEW drawn,
         NEW r \in Reconcilers, NEW o \in Written(r),
         r = "controller" => c.spec \in Specs["controller"]
  PROVE  LET w == Wanted(o, c, k, drawn) IN w \in {Skip, Remove, Failed} \/ Sound(o, w)
<1> DEFINE OK(w) == w \in {Skip, Remove, Failed} \/ Sound(o, w)
<1>1. o # "controller" /\ o \in Objects
  BY NamesDisjoint DEF Objects, Reconcilers
<1>2. ASSUME o # "hostKeys", NEW data, o \in Workloads => PodOK(o, data)
      PROVE  OK(OwnedBy(c, FALSE, data))
  BY <1>1, <1>2 DEF Sound, OwnedBy
<1>3. Owner(o) = r
  BY OwnerWrites
<1>4. OK(Skip) /\ OK(Remove) /\ OK(Failed)
  OBVIOUS
<1> HIDE DEF OK
<1>5. CASE r = "controller"
  <2>1. c.spec.files \subseteq {"files"} /\ c.spec.persist \in {"existing", "template", "none"}
    BY <1>5, ClusterObjectsAssumption DEF Specs
  <2>2. PodOK("ctlSet", BuildController(c, k).data)
    BY <2>1, ControllerPod
  <2>3. o \in {"ctlService", "ctlConfig", "ctlSet", "ctlMonitor"}
    BY <1>5, WrittenTable
  <2>4. CASE o = "ctlSet"
    <3>1. PICK data : BuildController(c, k) = OwnedBy(c, FALSE, data)
      BY Zenon DEF BuildController
    <3>2. PodOK(o, data)
      BY <2>2, <2>4, <3>1 DEF OwnedBy
    <3>3. OK(BuildController(c, k))
      BY <1>2, <2>4, <3>1, <3>2, Zenon
    <3>4. OK(ControllerStep(o, c, k))
      BY <1>4, <2>4, <3>3 DEF ControllerStep
    <3> QED
      BY <1>3, <1>5, <3>4 DEF Wanted, OK
  <2>5. CASE o # "ctlSet"
    <3>1. \A data : OK(OwnedBy(c, FALSE, data))
      BY <1>2, <2>3, <2>5, Zenon DEF Workloads
    <3>2. OK(ControllerStep(o, c, k))
      BY <1>4, <2>3, <2>5, <3>1, Zenon DEF ControllerStep, BuildControllerService, BuildService,
           BuildControllerConfigExternal, BuildControllerConfig, BuildConfigMap,
           BuildControllerServiceMonitor, BuildServiceMonitor
    <3> QED
      BY <1>3, <1>5, <3>2 DEF Wanted, OK
  <2> QED
    BY <2>4, <2>5
<1>6. CASE r = "accounting"
  <2>1. o \in {"accService", "accConfig", "accSet"}
    BY <1>6, WrittenTable
  <2>2. o = "accSet" => OK(BuildAccounting(c, k))
    BY <1>2, OtherPods, Zenon DEF BuildAccounting
  <2>3. o # "accSet" => \A data : OK(OwnedBy(c, FALSE, data))
    BY <1>2, <2>1, Zenon DEF Workloads
  <2>4. OK(AccountingStep(o, c, k))
    BY <1>4, <2>1, <2>2, <2>3, Zenon DEF AccountingStep, BuildAccountingService, BuildService,
         BuildAccountingConfig, BuildSecret
  <2> QED
    BY <1>3, <1>6, <2>4 DEF Wanted, OK
<1>7. CASE r = "restapi"
  <2>1. o \in {"restService", "restDeployment"}
    BY <1>7, WrittenTable
  <2>2. o = "restDeployment" => OK(BuildRestapi(c, k))
    BY <1>2, <1>4, OtherPods, Zenon DEF BuildRestapi
  <2>3. o # "restDeployment" => \A data : OK(OwnedBy(c, FALSE, data))
    BY <1>2, <2>1, Zenon DEF Workloads
  <2>4. OK(RestApiStep(o, c, k))
    BY <1>4, <2>1, <2>2, <2>3, Zenon DEF RestApiStep, BuildRestapiService, BuildService
  <2> QED
    BY <1>3, <1>7, <2>4 DEF Wanted, OK
<1>8. CASE r = "loginset"
  <2>1. o \in {"hostKeys", "sshConfig", "loginService", "loginDeployment"}
    BY <1>8, WrittenTable
  <2>2. o = "loginDeployment" => OK(BuildLogin(c, k))
    BY <1>2, <1>4, OtherPods, Zenon DEF BuildLogin
  <2>3. o \in {"sshConfig", "loginService"} => \A data : OK(OwnedBy(c, FALSE, data))
    BY <1>2, Zenon DEF Workloads
  <2>4. o = "hostKeys" => OK(BuildLoginSshHostKeys(c, drawn))
    BY OwnedByParts, Zenon DEF OK, Sound, BuildLoginSshHostKeys, BuildSecret, Workloads
  <2>5. OK(LoginSetStep(o, c, k, drawn))
    BY <1>4, <2>1, <2>2, <2>3, <2>4, Zenon DEF LoginSetStep, BuildLoginSshConfig, BuildConfigMap,
         BuildLoginService, BuildService
  <2> QED
    BY <1>3, <1>8, <2>5 DEF Wanted, OK
<1>9. CASE r = "nodeset"
  <2>1. o \in {"workerService", "workerPDB", "workerSsh"}
    BY <1>9, WrittenTable
  <2>2. o # "hostKeys" /\ o \notin Workloads /\ o \in Names
    BY <1>1, <2>1 DEF Workloads, Names
  <2>3. \A data : OK(OwnedBy(c, FALSE, data))
    BY <1>2, <2>2, Zenon
  <2>4. ASSUME k[o] # Absent PROVE OK([k[o] EXCEPT !.owner = c.uid])
    <3>1. IsObject(k[o]) /\ k[o].immutable = FALSE
      BY <1>1, <2>2, <2>4 DEF StoreOK, ObjectOK, SoundStore, Sound
    <3>2. [k[o] EXCEPT !.owner = c.uid].immutable = FALSE
      BY <3>1, OwnerUpdated
    <3> QED
      BY <1>1, <2>2, <3>2 DEF OK, Sound
  <2>5. OK(NodeSetStep(o, c, k))
    BY <1>4, <2>1, <2>3, <2>4, Zenon DEF NodeSetStep, syncClusterWorkerService, syncClusterWorkerPDB,
         syncSshConfig, SetOwnerReferences, BuildClusterWorkerService, BuildService,
         BuildClusterWorkerPodDisruptionBudget, BuildPodDisruptionBudget, BuildWorkerSshConfig,
         BuildConfigMap
  <2> QED
    BY <1>3, <1>9, <2>5 DEF Wanted, OK
<1> QED
  BY <1>5, <1>6, <1>7, <1>8, <1>9 DEF Reconcilers

\* A merge of two templates is one.
LEMMA MergedPod ==
  ASSUME NEW w, NEW old, NEW new, PodOK(w, new), NEW live, PodOK(w, live)
  PROVE  PodOK(w, Merged(old, new, live))
<1> DEFINE y == Merged(old, new, live)
<1>1. \A f \in DOMAIN new \cap DOMAIN live : f \in DOMAIN y /\ y[f] \in {new[f], live[f]}
  BY DEF Merged
<1>2. /\ "volumes" \in DOMAIN new \cap DOMAIN live /\ "mounts" \in DOMAIN new \cap DOMAIN live
  BY DEF PodOK
<1>3. /\ "volumes" \in DOMAIN y /\ "mounts" \in DOMAIN y
      /\ y["volumes"] \in {new["volumes"], live["volumes"]}
      /\ y["mounts"] \in {new["mounts"], live["mounts"]}
  BY <1>1, <1>2
<1> HIDE DEF y
<1>4. PodOK(w, y)
  BY <1>3 DEF PodOK
<1> QED
  BY <1>4 DEF y

\* SyncObject leaves its object sound.
LEMMA SyncObjectSound ==
  ASSUME NEW o \in Objects, NEW old, NEW new, Sound(o, new),
         NEW live, live # Absent => IsObject(live) /\ Sound(o, live),
         NEW should, NEW y, y = SyncObject(old, new, live, should), y # Failed, y # Absent
  PROVE  Sound(o, y)
<1>1. y \in {new, live} \/ (live # Absent /\ y = MergePatch(old, new, live))
  BY DEF SyncObject
<1>2. CASE y \in {new, live}
  BY <1>2
<1>3. CASE live # Absent /\ y = MergePatch(old, new, live)
  <2>1. y.immutable = live.immutable /\ y.data = Merged(old.data, new.data, live.data)
    BY <1>3, MergePatchParts
  <2>2. o \in Workloads => PodOK(o, y.data)
    BY <1>3, <2>1, MergedPod DEF Sound
  <2>3. o # "controller"
    BY NamesDisjoint DEF Reconcilers
  <2> QED
    BY <1>3, <2>1, <2>2, <2>3 DEF Sound
<1> QED
  BY <1>1, <1>2, <1>3

\* So does a step.
LEMMA ResultSound ==
  ASSUME TypeInv, SoundInv, NEW r \in Reconcilers, NEW o \in Written(r), seen[r] # Absent, NEW drawn,
         NEW y, y = Result(o, Wanted(o, seen[r], cache, drawn)), y # Failed, y # Absent
  PROVE  Sound(o, y)
<1> DEFINE want == Wanted(o, seen[r], cache, drawn)
<1>1. o \in Objects /\ o \in Names
  BY DEF Objects, Names
<1>2. api[o] # Absent => IsObject(api[o]) /\ Sound(o, api[o])
  BY <1>1, StoreTypes DEF StoreOK, ObjectOK, SoundInv, SoundStore
<1>3. want \in {Skip, Remove, Failed} \/ Sound(o, want)
  BY SceneTypes, StoreTypes, WantedSound DEF SoundInv
<1>4. y = Result(o, want)
  OBVIOUS
<1> HIDE DEF want
<1>5. CASE want \in {Skip, Remove, Failed}
  BY <1>2, <1>4, <1>5 DEF Result, DeleteObject
<1>6. CASE want \notin {Skip, Remove, Failed}
  <2>1. y = SyncObject(cache[o], want, api[o], ShouldUpdate(o))
    BY <1>4, <1>6 DEF Result
  <2> QED
    BY <1>1, <1>2, <1>3, <1>6, <2>1, SyncObjectSound
<1> QED
  BY <1>5, <1>6

-----------------------------------------------------------------------------
(* What the objects hold is preserved.                                     *)

\* Updating some fields of an object leaves the others.
LEMMA DeletingUpdated ==
  ASSUME NEW x, IsObject(x), NEW b, NEW y, y = [x EXCEPT !.deleting = b]
  PROVE  /\ IsObject(y)
         /\ y.owner = x.owner /\ y.deleting = b /\ y.immutable = x.immutable /\ y.data = x.data
<1>1. x \in Fields({x.owner}, {x.deleting}, {x.immutable}, {x.data})
  BY ObjectFields
<1>2. y \in Fields({x.owner}, {b}, {x.immutable}, {x.data})
  BY <1>1 DEF Fields
<1> QED
  BY <1>2, ObjectFields

\* The same of the data.
LEMMA DataUpdated ==
  ASSUME NEW x, IsObject(x), NEW d, NEW y, y = [x EXCEPT !.data = d]
  PROVE  /\ IsObject(y)
         /\ y.owner = x.owner /\ y.deleting = x.deleting /\ y.immutable = x.immutable /\ y.data = d
<1>1. x \in Fields({x.owner}, {x.deleting}, {x.immutable}, {x.data})
  BY ObjectFields
<1>2. y \in Fields({x.owner}, {x.deleting}, {x.immutable}, {d})
  BY <1>1 DEF Fields
<1> QED
  BY <1>2, ObjectFields

\* The resources with given fields, as a set.
ResourceFields(U, S, D) == [uid : U, spec : S, deleting : D]

\* They are the resources, seen as a set of records.
LEMMA ResourceFieldsAre ==
  ASSUME NEW x, IsResource(x)
  PROVE  x \in ResourceFields({x.uid}, {x.spec}, {x.deleting})
<1>1. [uid |-> x.uid, spec |-> x.spec, deleting |-> x.deleting]
        \in ResourceFields({x.uid}, {x.spec}, {x.deleting})
  BY DEF ResourceFields
<1> QED
  BY <1>1 DEF IsResource

\* Updating the spec of a resource leaves the rest of it.
LEMMA SpecUpdated ==
  ASSUME NEW x, IsResource(x), NEW s, NEW y, y = [x EXCEPT !.spec = s]
  PROVE  IsResource(y) /\ y.uid = x.uid /\ y.spec = s /\ y.deleting = x.deleting
<1>1. x \in ResourceFields({x.uid}, {x.spec}, {x.deleting})
  BY ResourceFieldsAre
<1>2. y \in ResourceFields({x.uid}, {s}, {x.deleting})
  BY <1>1 DEF ResourceFields
<1> QED
  BY <1>2 DEF ResourceFields, IsResource

\* So does its deletion timestamp.
LEMMA MarkUpdated ==
  ASSUME NEW x, IsResource(x), NEW b, NEW y, y = [x EXCEPT !.deleting = b]
  PROVE  IsResource(y) /\ y.uid = x.uid /\ y.spec = x.spec /\ y.deleting = b
<1>1. x \in ResourceFields({x.uid}, {x.spec}, {x.deleting})
  BY ResourceFieldsAre
<1>2. y \in ResourceFields({x.uid}, {x.spec}, {b})
  BY <1>1, Zenon DEF ResourceFields
<1> QED
  BY <1>2 DEF ResourceFields, IsResource

\* The workloads and who writes them.
LEMMA WorkloadsAre ==
  /\ Workloads \subseteq Objects
  /\ "ctlSet" \in Written("controller") /\ "accSet" \in Written("accounting")
  /\ "restDeployment" \in Written("restapi") /\ "loginDeployment" \in Written("loginset")
  BY WrittenTable DEF Workloads, Objects, Reconcilers

\* Whoever writes an object leaves it sound.
LEMMA SoundStep == ASSUME TypeInv, SoundInv, [Next]_vars PROVE SoundInv'
<1>PutSound. ASSUME SoundInv, UNCHANGED scene, NEW o \in Names, NEW v, v # Absent => Sound(o, v),
                    Put(o, v), UNCHANGED seen
             PROVE  SoundInv'
  <2> USE <1>PutSound
  <2>1. api = [m \in Names |-> api[m]] /\ cache = [m \in Names |-> cache[m]]
    BY StoreMaps
  <2>2. \A m \in Names : api'[m] \in {api[m], v} /\ cache'[m] \in {cache[m], v}
                          /\ (m # o => api'[m] = api[m] /\ cache'[m] = cache[m])
    BY <2>1, ZenonT(30) DEF Put
  <2>3. \A m \in Names : /\ api'[m] # Absent => Sound(m, api'[m])
                         /\ cache'[m] # Absent => Sound(m, cache'[m])
    BY <2>2 DEF SoundInv, SoundStore
  <2> QED
    BY <2>3, Zenon DEF SoundInv, SoundStore, Sound, Specs
\* What users write is sound.
<1>UsersSound. ASSUME SoundInv,
                      \/ \E r \in Reconcilers : EditResource(r)
                      \/ \E o \in UserObjects : EditUserObject(o)
                      \/ \E o \in Objects : Overwrite(o)
                      \/ \E o \in Deletable : Delete(o)
               PROVE  \E o \in Names : \E v : UserPuts(o, v) /\ (v # Absent => Sound(o, v)) /\ UNCHANGED scene
  <2> USE <1>UsersSound
  <2> USE SceneTypes
  <2>1. CASE \E r \in Reconcilers : EditResource(r)
    <3>1. PICK r \in Reconcilers : EditResource(r)
      BY <2>1, Zenon
    <3>2. r \in Names /\ r \notin Objects /\ r # "hostKeys" /\ r \notin Workloads
      BY NamesDisjoint, HostKeysName, WorkloadsAre, Zenon DEF Names
    <3>3. PICK s \in Specs[r] :
            IF api[r] = Absent
            THEN UserPuts(r, [uid |-> uids[r] + 1, spec |-> s, deleting |-> FALSE])
            ELSE UserPuts(r, [api[r] EXCEPT !.spec = s])
      BY <3>1, Zenon DEF EditResource
    <3>4. UNCHANGED scene
      BY <3>1, Zenon DEF EditResource
    <3>5. \A v : v.spec = s => Sound(r, v)
      BY <3>2 DEF Sound
    <3>6. CASE api[r] = Absent
      <4>1. Sound(r, [uid |-> uids[r] + 1, spec |-> s, deleting |-> FALSE])
        BY <3>5
      <4> QED
        BY <3>2, <3>3, <3>4, <3>6, <4>1, Zenon
    <3>7. CASE api[r] # Absent
      <4>1. IsResource(api[r])
        BY <3>2, <3>7, StoreTypes DEF StoreOK, ResourceOK
      <4>2. [api[r] EXCEPT !.spec = s].spec = s
        BY <4>1, SpecUpdated
      <4>3. Sound(r, [api[r] EXCEPT !.spec = s])
        BY <3>5, <4>2, Zenon
      <4> QED
        BY <3>2, <3>3, <3>4, <3>7, <4>3, Zenon
    <3> QED
      BY <3>6, <3>7, Zenon
  <2>2. CASE \E o \in UserObjects : EditUserObject(o)
    <3>1. PICK o \in UserObjects, v \in Versions : UserPuts(o, v) /\ UNCHANGED scene
      BY <2>2 DEF EditUserObject
    <3>2. o \in Names /\ o \notin Objects /\ o \notin Workloads /\ o # "hostKeys" /\ o # "controller"
      BY NamesDisjoint, HostKeysName, WorkloadsAre, Zenon DEF Names, Reconcilers
    <3>3. Sound(o, v)
      BY <3>2, Zenon DEF Sound
    <3> QED
      BY <3>1, <3>2, <3>3
  <2>3. CASE \E o \in Objects : Overwrite(o)
    <3>1. PICK o \in Objects : Overwrite(o)
      BY <2>3
    <3> DEFINE d == [f \in DOMAIN api[o].data |-> Drift]
               v == [api[o] EXCEPT !.data = d]
    <3>2. o \in Names /\ o # "controller" /\ api[o] # Absent
      BY <3>1, NamesDisjoint, Zenon DEF Names, Reconcilers, Overwrite
    <3>3. IsObject(api[o]) /\ Sound(o, api[o])
      BY <3>1, <3>2, StoreTypes DEF StoreOK, ObjectOK, SoundInv, SoundStore
    <3>4. UserPuts(o, v) /\ UNCHANGED scene
      BY <3>1, Zenon DEF Overwrite
    <3>5. o \in Workloads => PodOK(o, d)
      BY <3>3, Zenon DEF Sound, PodOK
    <3> HIDE DEF d
    <3>6. v.immutable = api[o].immutable /\ v.data = d
      BY <3>3, DataUpdated
    <3> HIDE DEF v
    <3>7. Sound(o, v)
      BY <3>2, <3>3, <3>5, <3>6, Zenon DEF Sound
    <3> QED
      BY <3>2, <3>4, <3>7
  <2>4. CASE \E o \in Deletable : Delete(o)
    <3>1. PICK o \in Deletable : Delete(o)
      BY <2>4
    <3> DEFINE v == [api[o] EXCEPT !.deleting = TRUE]
    <3>2. o \in Names /\ api[o] # Absent /\ UNCHANGED scene
      BY <3>1 DEF Delete
    <3>3. UserPuts(o, Absent) \/ (o \notin UserObjects /\ UserPuts(o, v))
      BY <3>1, Zenon DEF Delete
    <3>4. Sound(o, api[o])
      BY <3>2, Zenon DEF SoundInv, SoundStore
    <3>5. ASSUME o \in Objects PROVE Sound(o, v)
      <4>1. IsObject(api[o])
        BY <3>2, <3>5, StoreTypes DEF StoreOK, ObjectOK
      <4>2. v.immutable = api[o].immutable /\ v.data = api[o].data
        BY <4>1, DeletingUpdated
      <4> HIDE DEF v
      <4> QED
        BY <3>4, <3>5, <4>2, NamesDisjoint, Zenon DEF Sound, Reconcilers
    <3>6. ASSUME o \in Reconcilers PROVE Sound(o, v)
      <4>1. IsResource(api[o])
        BY <3>2, <3>6, StoreTypes DEF StoreOK, ResourceOK
      <4>2. v.spec = api[o].spec
        BY <4>1, MarkUpdated
      <4> HIDE DEF v
      <4> QED
        BY <3>4, <3>6, <4>2, NamesDisjoint, HostKeysName, WorkloadsAre, Zenon DEF Sound
    <3> HIDE DEF v
    <3> QED
      BY <3>2, <3>3, <3>5, <3>6, Zenon DEF Names
  <2> QED
    BY <2>1, <2>2, <2>3, <2>4, Zenon
<1> USE SceneTypes
<1>1. CASE \E r \in Running : Step(r)
  <2>1. PICK r \in Reconcilers : Step(r)
    BY <1>1
  <2>2. PICK o, drawn, y : StepWrites(r, o, drawn, y)
    BY <2>1, StepParts, Zenon
  <2>3. /\ y = Result(o, Wanted(o, seen[r], cache, drawn))
        /\ o \in Written(r) /\ o \in Names /\ seen[r] # Absent
        /\ (y = Failed /\ UNCHANGED <<api, cache>>) \/ (y # Failed /\ Put(o, y))
        /\ UNCHANGED <<seen, scene>>
    BY <2>2, Zenon DEF StepWrites
  <2>4. y # Failed /\ y # Absent => Sound(o, y)
    BY <2>3, ResultSound, Zenon
  <2>5. CASE y = Failed
    BY <2>3, <2>5, Zenon DEF SoundInv, SoundStore, Sound, Specs
  <2>6. CASE y # Failed
    BY <2>3, <2>4, <2>6, <1>PutSound, Zenon
  <2> QED
    BY <2>5, <2>6
<1>2. CASE UNCHANGED <<api, cache, seen, scene>>
  BY <1>2, Zenon DEF SoundInv, SoundStore, Sound, Specs
<1>3. CASE \E r \in Running : Start(r) \/ Finish(r) \/ StatusFails(r)
  <2>1. PICK r \in Reconcilers : Start(r) \/ Finish(r) \/ StatusFails(r)
    BY <1>3, Zenon
  <2>2. /\ UNCHANGED <<api, cache, scene>>
        /\ UNCHANGED seen \/ seen' = [seen EXCEPT ![r] = cache[r]] \/ seen' = [seen EXCEPT ![r] = Absent]
    BY <2>1, Zenon DEF Start, Finish, StatusFails
  <2>3. \/ seen'["controller"] = seen["controller"] \/ seen'["controller"] = cache["controller"]
        \/ seen'["controller"] = Absent
    BY <2>2, PcTypes, Zenon DEF Reconcilers
  <2>4. cache["controller"] # Absent => cache["controller"].spec \in Specs["controller"]
    BY Zenon DEF SoundInv, SoundStore, Sound, Names, Reconcilers
  <2> QED
    BY <2>2, <2>3, <2>4, Zenon DEF SoundInv, SoundStore, Sound, Specs
<1>4. CASE \E o \in stale : Deliver(o)
  <2>1. PICK o \in stale : cache' = [cache EXCEPT ![o] = api[o]] /\ UNCHANGED <<api, seen, scene>>
    BY <1>4, Zenon DEF Deliver
  <2>2. \A m \in Names : cache'[m] = cache[m] \/ (m = o /\ cache'[m] = api[m])
    BY <2>1, StoreMaps, Zenon
  <2>3. \A m \in Names : cache'[m] # Absent => Sound(m, cache'[m])
    BY <2>2, Zenon DEF SoundInv, SoundStore
  <2> QED
    BY <2>1, <2>3, Zenon DEF SoundInv, SoundStore, Sound, Specs
<1>5. CASE (\E o \in Objects : Collect(o)) \/ \E o \in Reconcilers \cup Objects : Vanish(o)
  <2>1. PICK o \in Names : Put(o, Absent) /\ UNCHANGED <<seen, scene>>
    BY <1>5, Zenon DEF Collect, Vanish, Names
  <2> QED
    BY <2>1, <1>PutSound, Zenon
<1>6. CASE \/ \E r \in Reconcilers : EditResource(r)
           \/ \E o \in UserObjects : EditUserObject(o)
           \/ \E o \in Objects : Overwrite(o)
           \/ \E o \in Deletable : Delete(o)
  BY <1>6, <1>UsersSound, <1>PutSound, Zenon DEF UserPuts
<1>7. CASE Restart
  BY <1>7, Zenon DEF Restart, SoundInv, SoundStore, Sound, Specs, Reconcilers
<1>8. (\E r \in Running : StepFails(r)) \/ RequeueNodeSet \/ Resync \/ UNCHANGED vars
        => UNCHANGED <<api, cache, seen, scene>>
  BY Zenon DEF StepFails, RequeueNodeSet, Resync, vars
<1> QED
  BY <1>1, <1>2, <1>3, <1>4, <1>5, <1>6, <1>7, <1>8, Zenon DEF Next, Reconcile

\* There are no objects initially.
LEMMA InitSound == ASSUME Init PROVE SoundInv
<1>1. PICK s \in [Reconcilers -> UNION {Specs[r] : r \in Reconcilers} \cup {Absent}] :
        /\ \A r \in Reconcilers : IF Specs[r] = {} THEN s[r] = Absent ELSE s[r] \in Specs[r]
        /\ api = [n \in Names |->
                   CASE n \in UserObjects -> CHOOSE v \in Versions : TRUE
                     [] n \in Reconcilers /\ s[n] # Absent ->
                          [uid |-> 1, spec |-> s[n], deleting |-> FALSE]
                     [] OTHER -> Absent]
  BY Zenon DEF Init
<1>2. \A o \in Objects : api[o] = Absent
  <2> SUFFICES ASSUME NEW o \in Objects PROVE api[o] = Absent
    BY Zenon
  <2>1. o \in Names /\ o \notin UserObjects /\ o \notin Reconcilers
    BY NamesDisjoint, Zenon DEF Names
  <2> QED
    BY <1>1, <2>1, Zenon
<1>3. api["controller"] # Absent => api["controller"].spec \in Specs["controller"]
  <2>1. "controller" \in Reconcilers /\ "controller" \in Names /\ "controller" \notin UserObjects
    BY NamesDisjoint DEF Reconcilers, Names
  <2>2. api["controller"] # Absent =>
          api["controller"] = [uid |-> 1, spec |-> s["controller"], deleting |-> FALSE]
            /\ s["controller"] # Absent
    BY <1>1, <2>1
  <2>3. s["controller"] # Absent => s["controller"] \in Specs["controller"]
    BY <1>1, <2>1, Zenon
  <2> QED
    BY <2>2, <2>3
<1>4. ASSUME NEW n \in Names, api[n] # Absent PROVE Sound(n, api[n])
  <2>1. n \notin Objects
    BY <1>2, <1>4, Zenon
  <2>2. n # "hostKeys" /\ n \notin Workloads
    BY <2>1, HostKeysName, WorkloadsAre
  <2> QED
    BY <1>3, <1>4, <2>1, <2>2, Zenon DEF Sound
<1>5. cache = api /\ seen["controller"] = Absent
  BY Zenon DEF Init, Reconcilers
<1> QED
  BY <1>4, <1>5, Zenon DEF SoundInv, SoundStore

-----------------------------------------------------------------------------
(* What a step leaves is what it wanted.                                   *)

\* Only the host keys depend on what is drawn.
LEMMA WantedDrawn ==
  ASSUME NEW r \in Alert, NEW o \in Written(r), o # "hostKeys", NEW c, NEW k, NEW d, NEW e
  PROVE  Wanted(o, c, k, d) = Wanted(o, c, k, e)
<1>1. Owner(o) = r
  BY OwnerWrites, HeardOwn
<1>2. CASE r = "loginset"
  <2>1. LoginSetStep(o, c, k, d) = LoginSetStep(o, c, k, e)
    BY <1>2, WrittenTable DEF LoginSetStep
  <2> QED
    BY <1>1, <1>2, <2>1 DEF Wanted
<1>3. CASE r # "loginset"
  BY <1>1, <1>3 DEF Wanted, Alert
<1> QED
  BY <1>2, <1>3

\* The data of what is built has its entries and nothing else.
IsMap(d) == d = [f \in DOMAIN d |-> d[f]]

\* What a step wants has such data.
LEMMA WantedMap ==
  ASSUME NEW r \in Alert, NEW o \in Written(r), NEW c, NEW k, NEW d
  PROVE  LET w == Wanted(o, c, k, d) IN w \in {Skip, Remove, Failed} \/ IsMap(w.data)
<1> DEFINE OK(w) == w \in {Skip, Remove, Failed} \/ IsMap(w.data)
<1>1. \A imm, data : IsMap(data) => OK(OwnedBy(c, imm, data))
  BY DEF OwnedBy
<1>2. \A x, y : IsMap([spec |-> x]) /\ IsMap([conf |-> x]) /\ IsMap([keys |-> x])
                 /\ IsMap([sshd |-> x, authorized |-> y])
  BY DEF IsMap
<1>3. \A sp, v, t, h : IsMap(BuildPodTemplate(sp, v, t, h))
  BY DEF IsMap, BuildPodTemplate, Joined
<1>4. OK(Skip) /\ OK(Remove) /\ OK(Failed)
  OBVIOUS
<1>5. Owner(o) = r
  BY OwnerWrites, HeardOwn
<1> HIDE DEF OK
<1>6. CASE r = "controller"
  <2>1. /\ OK(BuildControllerService(c)) /\ OK(BuildControllerConfigExternal(c, k))
        /\ OK(BuildControllerConfig(c, k)) /\ OK(BuildController(c, k))
        /\ OK(BuildControllerServiceMonitor(c))
    BY <1>1, <1>2, <1>3, <1>4, Zenon DEF BuildControllerService, BuildService,
         BuildControllerConfigExternal, BuildControllerConfig, BuildConfigMap, BuildController,
         controllerPodTemplate, BuildControllerServiceMonitor, BuildServiceMonitor
  <2>2. OK(ControllerStep(o, c, k))
    BY <1>4, <1>6, <2>1, WrittenTable DEF ControllerStep
  <2> QED
    BY <1>5, <1>6, <2>2 DEF Wanted, OK
<1>7. CASE r = "accounting"
  <2>1. /\ OK(BuildAccountingService(c)) /\ OK(BuildAccountingConfig(c, k))
        /\ OK(BuildAccounting(c, k))
    BY <1>1, <1>2, <1>3, <1>4, Zenon DEF BuildAccountingService, BuildService, BuildAccountingConfig,
         BuildSecret, BuildAccounting, accountingPodTemplate
  <2>2. OK(AccountingStep(o, c, k))
    BY <1>4, <1>7, <2>1, WrittenTable DEF AccountingStep
  <2> QED
    BY <1>5, <1>7, <2>2 DEF Wanted, OK
<1>8. CASE r = "restapi"
  <2>1. OK(BuildRestapiService(c)) /\ OK(BuildRestapi(c, k))
    BY <1>1, <1>2, <1>3, <1>4, Zenon DEF BuildRestapiService, BuildService, BuildRestapi,
         restapiPodTemplate
  <2>2. OK(RestApiStep(o, c, k))
    BY <1>8, <2>1, WrittenTable DEF RestApiStep
  <2> QED
    BY <1>5, <1>8, <2>2 DEF Wanted, OK
<1>9. CASE r = "loginset"
  <2>1. /\ OK(BuildLoginSshHostKeys(c, d)) /\ OK(BuildLoginSshConfig(c))
        /\ OK(BuildLoginService(c)) /\ OK(BuildLogin(c, k))
    BY <1>1, <1>2, <1>3, <1>4, Zenon DEF BuildLoginSshHostKeys, BuildSecret, BuildLoginSshConfig,
         BuildConfigMap, BuildLoginService, BuildService, BuildLogin, loginPodTemplate
  <2>2. OK(LoginSetStep(o, c, k, d))
    BY <1>9, <2>1, WrittenTable DEF LoginSetStep
  <2> QED
    BY <1>5, <1>9, <2>2 DEF Wanted, OK
<1> QED
  BY <1>6, <1>7, <1>8, <1>9 DEF Alert

\* A merge with the live object as the old one is the new one.
LEMMA MergedIsNew ==
  ASSUME NEW old, NEW new, IsMap(new)
  PROVE  Merged(old, new, old) = new
  BY DEF Merged, IsMap

\* A step that knows the live object leaves it as wanted.
LEMMA SyncObjectMatches ==
  ASSUME NoMarker, NEW o, NEW x, x # Absent => IsObject(x),
         NEW want, want \notin {Skip, Remove, Failed}, IsObject(want), IsMap(want.data)
  PROVE  Matches(o, SyncObject(x, want, x, ShouldUpdate(o)), want)
<1>1. want # Absent
  BY DEF NoMarker
<1>2. CASE x = Absent
  BY <1>1, <1>2 DEF SyncObject, Matches
<1>3. CASE x # Absent /\ (x.deleting \/ ~ShouldUpdate(o) \/ x.immutable)
  <2>1. SyncObject(x, want, x, ShouldUpdate(o)) = x
    BY <1>3 DEF SyncObject
  <2> QED
    BY <1>3, <2>1 DEF Matches
<1>4. CASE x # Absent /\ ~(x.deleting \/ ~ShouldUpdate(o) \/ x.immutable)
  <2> DEFINE y == MergePatch(x, want, x)
  <2>1. SyncObject(x, want, x, ShouldUpdate(o)) = y
    BY <1>4 DEF SyncObject
  <2>2. /\ IsObject(y) /\ y.data = Merged(x.data, want.data, x.data)
        /\ y.owner = IF x.owner = want.owner THEN x.owner ELSE want.owner
    BY <1>4, MergePatchParts
  <2> HIDE DEF y
  <2>3. y.owner = want.owner /\ y.data = want.data /\ y # Absent
    BY <2>2, MergedIsNew DEF NoMarker
  <2> QED
    BY <2>1, <2>3 DEF Matches
<1> QED
  BY <1>2, <1>3, <1>4

\* After a step on an object whose cached copy was current, it is as wanted.
LEMMA ResultMatches ==
  ASSUME TypeInv, SoundInv, NoMarker, NEW r \in Alert, NEW o \in Written(r), seen[r] # Absent,
         cache[o] = api[o], NEW drawn, NEW y, y = Result(o, Wanted(o, seen[r], cache, drawn)),
         y # Failed, NEW d
  PROVE  Matches(o, y, Wanted(o, seen[r], cache, d))
<1> DEFINE want == Wanted(o, seen[r], cache, drawn)
<1>1. r \in Reconcilers /\ o \in Objects /\ o \in Names
  BY HeardOwn DEF Objects, Names
<1>2. api[o] # Absent => IsObject(api[o])
  BY <1>1, StoreTypes, Zenon DEF StoreOK, ObjectOK
<1>3. want \in {Skip, Remove, Failed} \/ (IsObject(want) /\ IsMap(want.data))
  BY <1>1, SceneTypes, StoreTypes, SeenTypes, WantedShape, WantedMap DEF ObjectOK
<1>4. y = Result(o, want)
  OBVIOUS
<1>5. Matches(o, y, want)
  <2> HIDE DEF want
  <2>1. CASE want = Skip
    BY <2>1 DEF Matches
  <2>2. CASE want = Remove
    <3>1. y = DeleteObject(api[o], api[o])
      BY <1>4, <2>2, MarkersAssumption DEF Result
    <3>2. Gone(y)
      BY <3>1 DEF DeleteObject, Gone
    <3> QED
      BY <2>2, <3>2 DEF Matches
  <2>3. CASE want = Failed
    BY <1>4, <2>3, MarkersAssumption DEF Result
  <2>4. CASE want \notin {Skip, Remove, Failed}
    <3>1. y = SyncObject(api[o], want, api[o], ShouldUpdate(o))
      BY <1>4, <2>4 DEF Result
    <3> QED
      BY <1>2, <1>3, <2>4, <3>1, SyncObjectMatches
  <2> QED
    BY <2>1, <2>2, <2>3, <2>4
<1>6. CASE o # "hostKeys"
  BY <1>5, <1>6, WantedDrawn
<1>7. CASE o = "hostKeys"
  <2>1. /\ want = BuildLoginSshHostKeys(seen[r], drawn)
        /\ Wanted(o, seen[r], cache, d) = BuildLoginSshHostKeys(seen[r], d)
    BY <1>7, HostKeysName DEF Wanted, LoginSetStep
  <2>2. want \notin {Skip, Remove, Failed} /\ Wanted(o, seen[r], cache, d) \notin {Skip, Remove, Failed}
    BY <2>1, BuiltIsNoMarker, ZenonT(30) DEF BuildLoginSshHostKeys, BuildSecret
  <2>3. y # Absent
    BY <1>5, <2>2 DEF Matches
  <2>4. y.immutable = TRUE
    BY <1>1, <1>7, <2>3, ResultSound, ZenonT(30) DEF Sound
  <2> QED
    BY <2>2, <2>3, <2>4 DEF Matches
<1> QED
  BY <1>6, <1>7

-----------------------------------------------------------------------------
(* No step loses a trigger.                                                *)

\* The ServiceMonitor is the last of its steps.
LEMMA MonitorIsLast ==
  ASSUME NEW r \in Alert, NEW i \in DOMAIN Steps[r], NEW j \in DOMAIN Steps[r], i < j
  PROVE  Steps[r][i] # "ctlMonitor"
<1>1. CASE r = "controller"
  <2>1. Steps[r] = <<"ctlService", "ctlConfig", "ctlSet", "ctlMonitor">>
    BY <1>1 DEF Steps, ControllerSync
  <2>2. DOMAIN Steps[r] = 1..4
    BY <2>1
  <2>3. i \in 1..3
    BY <2>2
  <2> QED
    BY <2>1, <2>3
<1>2. CASE r # "controller"
  BY <1>2, HeardOwn, StepsFacts
<1> QED
  BY <1>1, <1>2

\* The invariant about the triggers is preserved.
LEMMA TriggerStep ==
  ASSUME TypeInv, SoundInv, NoMarker, TriggerInv, Watched(Scenes[scene]), [Next]_vars
  PROVE  TriggerInv'
\* A reconciler that takes a step is still caught up after it.
<1>OwnStep. ASSUME NEW r \in Alert \cap Running, CaughtUp(r), Step(r),
                   stale \subseteq Lagging, "ctlMonitor" \notin Lagging
            PROVE  CaughtUp(r)'
  <2> USE <1>OwnStep
  <2>0. PICK i, o, drawn, y : i = pc[r] /\ StepWrites(r, o, drawn, y)
    BY HeardOwn, StepParts, Zenon
  <2>1. /\ o = Steps[r][i] /\ i = pc[r] /\ i \in DOMAIN Steps[r]
        /\ y = Result(o, Wanted(o, seen[r], cache, drawn))
        /\ o \in Written(r) /\ o \in Names /\ seen[r] # Absent
        /\ \/ /\ y = Failed /\ failed' = failed \cup {r}
              /\ UNCHANGED <<api, cache, stale, queue>>
           \/ /\ y # Failed /\ Put(o, y) /\ queue' = queue \cup Told(o, y)
              /\ UNCHANGED failed
        /\ pc' = [pc EXCEPT ![r] = @ + 1]
        /\ UNCHANGED <<seen, scene>>
    BY <2>0, Zenon DEF StepWrites
  <2>2. r \in Reconcilers /\ r # o /\ "controller" # o
    <3>1. r \in Reconcilers /\ o \in Objects
      BY <2>1, HeardOwn, Zenon DEF Objects
    <3> QED
      BY <3>1, NamesDisjoint DEF Reconcilers
  <2>3. i \in Nat /\ i \in DOMAIN Steps[r] /\ i # 0 /\ pc'[r] = i + 1 /\ pc'[r] # 0
    <3>1. i \in DOMAIN Steps[r]
      BY <2>1
    <3>2. i \in Nat /\ i # 0
      BY <2>2, <3>1, StepsFacts
    <3>3. pc \in [Reconcilers -> Nat]
      BY PcTypes, Zenon
    <3>4. pc' = [pc EXCEPT ![r] = @ + 1] /\ i = pc[r]
      BY <2>1, Zenon
    <3> QED
      BY <2>2, <3>1, <3>2, <3>3, <3>4
  <2>4. /\ queue \subseteq queue' /\ stale \subseteq stale' /\ failed \subseteq failed'
        /\ cache'[r] = cache[r] /\ cache'["controller"] = cache["controller"]
    <3>1. cache = [m \in Names |-> cache[m]] /\ r \in Names /\ "controller" \in Names
      BY <2>2, StoreMaps, Zenon DEF Names, Reconcilers
    <3>2. cache' = cache \/ cache' = [cache EXCEPT ![o] = y]
      BY <2>1, Zenon DEF Put
    <3>3. cache'[r] = cache[r] /\ cache'["controller"] = cache["controller"]
      BY <2>2, <3>1, <3>2, Zenon
    <3> QED
      BY <2>1, <3>3, Zenon DEF Put
  <2>5. CASE r \in queue \/ r \in stale \/ Gone(cache[r])
    BY <2>4, <2>5 DEF CaughtUp
  <2>6. CASE Served(r) /\ ~Gone(cache[r])
    <3>1. /\ seen[r] = cache[r] /\ seen'[r] = cache'[r]
          /\ r = "loginset" => Present(cache', "controller")
      BY <2>1, <2>3, <2>4, <2>6 DEF Served, Present
    <3>2. CASE r \in failed'
      BY <2>3, <3>1, <3>2, Zenon DEF Served, CaughtUp
    <3>3. CASE r \notin failed'
      <4>1. y # Failed /\ Put(o, y) /\ queue' = queue \cup Told(o, y)
        BY <2>1, <3>3
      <4>2. \A j \in DOMAIN Steps[r] : j < i => Kept(r, Steps[r][j])
        BY <2>1, <2>3, <2>4, <2>6, <3>3, ZenonT(30) DEF Served
      <4>3. cache[o] = api[o] => \A d : Matches(o, y, Wanted(o, cache[r], cache, d))
        BY <2>1, <3>1, <4>1, ResultMatches, ZenonT(30)
      <4>4. ASSUME Kept(r, o)', \A j \in DOMAIN Steps[r] : j < i => Kept(r, Steps[r][j])'
            PROVE  CaughtUp(r)'
        <5>1. \A j \in DOMAIN Steps[r] : j < i + 1 => j < i \/ j = i
          BY <2>3, StepsFacts, <2>2
        <5>2. \A j \in DOMAIN Steps[r] : j < pc'[r] => Kept(r, Steps[r][j])'
          BY <2>1, <2>3, <4>4, <5>1, Zenon
        <5> QED
          BY <2>3, <3>1, <5>2, Zenon DEF Served, CaughtUp
      <4>5. CASE y = api[o] \/ o \in Lagging
        <5>1. cache' = cache /\ (y # api[o] => o \in stale')
          BY <4>1, <4>5, Zenon DEF Put
        <5>2. \A j \in DOMAIN Steps[r] : j < i => Kept(r, Steps[r][j])'
          BY <2>4, <4>2, <5>1, Zenon DEF Kept
        <5>3. o \notin stale => cache[o] = api[o]
          BY <2>1, CacheAgrees
        <5>4. Kept(r, o)'
          <6>1. CASE o \in stale'
            BY <6>1 DEF Kept
          <6>2. CASE o \notin stale'
            <7>1. cache[o] = api[o] /\ y = cache[o]
              BY <2>4, <5>1, <5>3, <6>2, Zenon
            <7>2. \A d : Matches(o, cache[o], Wanted(o, cache[r], cache, d))
              BY <4>3, <7>1
            <7> QED
              BY <5>1, <7>2 DEF Kept
          <6> QED
            BY <6>1, <6>2
        <5> QED
          BY <4>4, <5>2, <5>4
      <4>6. CASE ~(y = api[o] \/ o \in Lagging)
        <5>1. cache' = [cache EXCEPT ![o] = y] /\ queue' = queue \cup Enqueued(o, cache')
          BY <4>1, <4>6, Zenon DEF Put, Told
        <5>2. CASE o # "ctlMonitor"
          <6>1. o \in Heard(r) /\ Present(cache', r)
            BY <2>1, <2>4, <2>6, <5>2, HeardOwn, Zenon DEF Gone, Present
          <6>2. r \in Enqueued(o, cache')
            BY <6>1, HeardIsQueued, Zenon
          <6> QED
            BY <5>1, <6>2 DEF CaughtUp
        <5>3. CASE o = "ctlMonitor"
          <6>1. cache[o] = api[o]
            BY <2>1, <5>3, CacheAgrees, Zenon
          <6>2. \A m \in Names : cache'[m] = IF m = o THEN y ELSE cache[m]
            BY <2>1, <5>1, StoreMaps
          <6>3. /\ \A m \in Heard(r) : cache'[m] = cache[m]
                /\ \A m \in Unheard : cache'[m] \in {cache[m], Absent}
            BY <5>1, <5>3, HeardOwn DEF Unheard
          <6>4. \A w \in Written(r) : \A x, d :
                  Matches(w, x, Wanted(w, cache[r], cache, d)) => Matches(w, x, Wanted(w, cache[r], cache', d))
            BY <2>6, <6>3, MatchesStays, CachedFiles, ZenonT(30)
          <6>5. Kept(r, o)'
            <7>1. \A d : Matches(o, y, Wanted(o, cache[r], cache', d))
              BY <2>1, <4>3, <6>1, <6>4, Zenon
            <7>2. cache'[o] = y
              BY <2>1, <6>2, Zenon
            <7> QED
              BY <2>4, <7>1, <7>2 DEF Kept
          <6>6. ASSUME NEW j \in DOMAIN Steps[r], j < i PROVE Kept(r, Steps[r][j])'
            <7> DEFINE w == Steps[r][j]
            <7>1. w # o /\ w \in Written(r) /\ w \in Names
              BY <2>1, <2>2, <2>3, <5>3, <6>6, MonitorIsLast, StepsFacts, Zenon DEF Names
            <7>2. Kept(r, w)
              BY <4>2, <6>6
            <7> HIDE DEF w
            <7>3. cache'[w] = cache[w]
              BY <6>2, <7>1
            <7>4. Kept(r, w)'
              BY <2>4, <6>4, <7>1, <7>2, <7>3 DEF Kept
            <7> QED
              BY <7>4, Zenon DEF w
          <6> QED
            BY <4>4, <6>5, <6>6, Zenon
        <5> QED
          BY <5>2, <5>3
      <4> QED
        BY <4>5, <4>6, Zenon
    <3> QED
      BY <3>2, <3>3, Zenon
  <2> QED
    BY <2>5, <2>6 DEF CaughtUp
\* The garbage collector takes a ServiceMonitor only from a Controller that
\* does not want it, or will be reconciled.
<1>CollectMonitor. ASSUME "ctlMonitor" \notin Lagging,
                          "controller" \in Running, Collect("ctlMonitor")
                   PROVE  CaughtUp("controller")'
  <2> USE <1>CollectMonitor
  <2> DEFINE o == "ctlMonitor"
             r == "controller"
  <2>1. /\ o \in Objects /\ o \in Names /\ Owner(o) = r /\ r \in Names /\ r # o
        /\ r \in Reconcilers /\ r \in Alert /\ o \in Written(r)
    BY WrittenTable, OwnerWrites DEF Objects, Names, Reconcilers, Alert
  <2>2. /\ Garbage(o) /\ Put(o, Absent) /\ queue' = queue \cup Told(o, Absent)
        /\ UNCHANGED <<pc, seen, failed, scene>>
    BY DEF Collect
  <2>3. api[o] # Absent /\ ~Live(r, api[o].owner)
    BY <2>1, <2>2 DEF Garbage
  <2>4. cache' = [cache EXCEPT ![o] = Absent] /\ stale' = stale
    BY <2>2, <2>3 DEF Put
  <2>5. \A m \in Names : cache'[m] = IF m = o THEN Absent ELSE cache[m]
    BY <2>1, <2>4, StoreMaps
  <2>6. cache'[r] = cache[r] /\ cache'[o] = Absent
    BY <2>1, <2>5
  <2>7. CaughtUp(r)
    BY <2>1 DEF TriggerInv
  <2>8. CASE r \in queue \/ r \in stale \/ Gone(cache[r])
    BY <2>2, <2>4, <2>6, <2>8 DEF CaughtUp
  <2>9. CASE ~(r \in queue \/ r \in stale \/ Gone(cache[r]))
    <3>1. Served(r) /\ cache[r] = api[r] /\ api[r] # Absent /\ ~api[r].deleting
      BY <2>1, <2>7, <2>9, CacheAgrees DEF CaughtUp, Gone
    <3>2. api[o].owner # api[r].uid
      BY <2>3, <3>1 DEF Live
    <3>3. cache[o] = api[o] /\ o \notin stale
      BY <2>1, CacheAgrees DEF TriggerInv
    <3>4. /\ \A m \in Heard(r) : cache'[m] = cache[m]
          /\ \A m \in Unheard : cache'[m] \in {cache[m], Absent}
      BY <2>1, <2>4, HeardOwn DEF Unheard
    <3>5. \A w \in Written(r) : \A x, d :
            Matches(w, x, Wanted(w, cache[r], cache, d)) => Matches(w, x, Wanted(w, cache[r], cache', d))
      BY <2>1, <2>9, <3>4, MatchesStays, CachedFiles, Zenon
    <3>6. ASSUME Kept(r, o) PROVE Kept(r, o)'
      <4> SUFFICES ASSUME NEW d PROVE Matches(o, Absent, Wanted(o, cache[r], cache', d))
        BY <2>6 DEF Kept
      <4>1. Matches(o, api[o], Wanted(o, cache[r], cache, d))
        BY <3>3, <3>6, Zenon DEF Kept
      <4>2. \/ Wanted(o, cache[r], cache, d) = Remove
            \/ /\ Wanted(o, cache[r], cache, d) \notin {Skip, Remove, Failed}
               /\ Wanted(o, cache[r], cache, d).owner = cache[r].uid
        <5>1. \/ Wanted(o, cache[r], cache, d) = Remove
              \/ Wanted(o, cache[r], cache, d) = BuildControllerServiceMonitor(cache[r])
          BY <2>1, Zenon DEF Wanted, ControllerStep
        <5> QED
          BY <5>1, BuiltIsNoMarker DEF BuildControllerServiceMonitor, BuildServiceMonitor, OwnedBy
      <4>3. api[o].deleting = FALSE /\ api[o].immutable = FALSE /\ ShouldUpdate(o)
        BY <2>1, <2>3, HostKeysName, Zenon DEF TriggerInv, SoundInv, SoundStore, Sound, ShouldUpdate
      <4>4. Wanted(o, cache[r], cache, d) = Remove
        BY <3>1, <3>2, <4>1, <4>2, <4>3, Zenon DEF Matches
      <4>5. Wanted(o, cache[r], cache', d) = Remove
        BY <2>1, <4>4, BuiltIsNoMarker, Zenon
        DEF Wanted, ControllerStep, BuildControllerServiceMonitor, BuildServiceMonitor
      <4> QED
        BY <4>5 DEF Matches, Gone
    <3>7. ASSUME NEW w \in Written(r), Kept(r, w) PROVE Kept(r, w)'
      <4>1. w \in Names
        BY <2>1 DEF Names, Objects
      <4>2. CASE w = o
        BY <3>6, <3>7, <4>2
      <4>3. CASE w # o
        <5>1. cache'[w] = cache[w]
          BY <2>5, <4>1, <4>3
        <5> QED
          BY <2>4, <2>6, <3>5, <3>7, <5>1, ZenonT(30) DEF Kept
      <4> QED
        BY <4>2, <4>3
    <3>8. \A i \in DOMAIN Steps[r] : Steps[r][i] \in Written(r)
      BY <2>1, StepsFacts
    <3>9. Served(r)'
      BY <2>2, <2>6, <3>1, <3>7, <3>8, Zenon DEF Served
    <3> QED
      BY <3>9 DEF CaughtUp
  <2> QED
    BY <2>8, <2>9
\* What leaves the cache alone leaves r where it is.
<1>CacheStays. ASSUME NEW r \in Alert, CaughtUp(r), cache' = cache,
                      r \in queue => r \in queue', stale \subseteq stale',
                      pc'[r] = pc[r], seen'[r] = seen[r], r \in failed => r \in failed'
               PROVE  CaughtUp(r)'
  <2> USE <1>CacheStays
  <2>1. \A o : Kept(r, o) => Kept(r, o)'
    BY Zenon DEF Kept
  <2>2. Served(r) => Served(r)'
    BY <2>1 DEF Served
  <2> QED
    BY <2>2 DEF CaughtUp
\* A run starts, ends, or loses a step.
<1>RunCaughtUp. ASSUME NEW q \in Reconcilers,
                       Start(q) \/ Finish(q) \/ StatusFails(q) \/ StepFails(q), NEW r \in Alert, CaughtUp(r)
                PROVE  CaughtUp(r)'
  <2> USE <1>RunCaughtUp
  <2>1. UNCHANGED <<cache, stale>> /\ r \in Reconcilers
    BY HeardOwn, Zenon DEF Start, Finish, StatusFails, StepFails
  <2>2. pc \in [Reconcilers -> Nat] /\ seen = [m \in Reconcilers |-> seen[m]] /\ Len(Steps[r]) \in Nat
    BY <2>1, PcTypes, StepsFacts
  <2>3. CASE r # q
    <3>1. /\ pc'[r] = pc[r] /\ seen'[r] = seen[r]
          /\ r \in queue => r \in queue' /\ (r \in failed => r \in failed')
      BY <2>1, <2>2, <2>3, Zenon DEF Start, Finish, StatusFails, StepFails
    <3>2. r \in failed => r \in failed'
      BY <2>1, <2>2, <2>3 DEF Start, Finish, StatusFails, StepFails
    <3> QED
      BY <2>1, <3>1, <3>2, <1>CacheStays, Zenon
  <2>4. CASE r = q /\ Start(r)
    <3>1. CASE Gone(cache[r])
      BY <2>1, <3>1 DEF CaughtUp
    <3>2. CASE ~Gone(cache[r])
      <4>1. pc'[r] = 1 /\ seen'[r] = cache[r] /\ (r = "loginset" => Present(cache, "controller"))
        BY <2>1, <2>2, <2>4, <3>2, Zenon DEF Start
      <4>2. \A i \in DOMAIN Steps[r] : ~(pc'[r] = 0 \/ i < pc'[r])
        BY <2>1, <4>1, StepsFacts
      <4> QED
        BY <2>1, <4>1, <4>2, Zenon DEF CaughtUp, Served
    <3> QED
      BY <3>1, <3>2
  <2>5. CASE r = q /\ StatusFails(r)
    BY <2>5 DEF StatusFails, CaughtUp
  <2>6. CASE r = q /\ StepFails(r)
    <3>1. pc'[r] # 0 /\ seen' = seen /\ r \in failed' /\ queue' = queue /\ pc[r] # 0
      BY <2>1, <2>2, <2>6, StepsFacts DEF StepFails
    <3> QED
      BY <2>1, <3>1, Zenon DEF CaughtUp, Served
  <2>7. CASE r = q /\ Finish(r)
    <3>1. CASE r \in queue'
      BY <3>1, Zenon DEF CaughtUp
    <3>2. CASE r \notin queue'
      <4>1. r \notin failed /\ r \notin queue /\ pc[r] = Len(Steps[r]) + 1 /\ pc'[r] = 0
        BY <2>1, <2>2, <2>7, <3>2, Zenon DEF Finish
      <4>2. \A i \in DOMAIN Steps[r] : i < pc[r]
        BY <2>1, <2>2, <4>1, StepsFacts
      <4>3. ASSUME Served(r) PROVE Served(r)'
        <5>1. \A i \in DOMAIN Steps[r] : Kept(r, Steps[r][i])
          BY <4>1, <4>2, <4>3, ZenonT(30) DEF Served
        <5>2. \A i \in DOMAIN Steps[r] : Kept(r, Steps[r][i])'
          BY <2>1, <5>1, ZenonT(30) DEF Kept
        <5> QED
          BY <2>1, <4>1, <4>3, <5>2, ZenonT(30) DEF Served
      <4> QED
        BY <2>1, <4>1, <4>3, Zenon DEF CaughtUp
    <3> QED
      BY <3>1, <3>2
  <2> QED
    BY <2>3, <2>4, <2>5, <2>6, <2>7
\* A change of the cache is one that r hears of, or changes nothing for it.
<1>CacheMoves. ASSUME NEW r \in Alert \cap Running, CaughtUp(r), NEW x \in Names, NEW v,
                      cache' = [cache EXCEPT ![x] = v], x = "ctlMonitor" => r # "controller",
                      x \in Unheard => v \in {cache[x], Absent},
                      queue \subseteq queue', Enqueued(x, cache') \subseteq queue', stale \ {x} \subseteq stale',
                      pc'[r] = pc[r], seen'[r] = seen[r], r \in failed => r \in failed', UNCHANGED scene
               PROVE  CaughtUp(r)'
  <2> USE <1>CacheMoves
  <2>1. cache = [m \in Names |-> cache[m]] /\ Heard(r) \subseteq Names /\ Unheard \subseteq Names
    <3>1. Heard(r) \subseteq Names
      BY WrittenTable DEF Heard, Alert, Names, Reconcilers, UserObjects, Objects
    <3> QED
      BY <3>1, StoreMaps DEF Names, UserObjects, Unheard
  <2>2. \A m \in Names : cache'[m] = IF m = x THEN v ELSE cache[m]
    BY <2>1
  <2>3. CASE x \in Heard(r)
    <3>1. Present(cache', r) => r \in Enqueued(x, cache')
      BY <2>3, HeardIsQueued
    <3>2. Enqueued(x, cache') \subseteq queue'
      BY Zenon
    <3> QED
      BY <3>1, <3>2 DEF CaughtUp, Gone, Present
  <2>4. CASE x \notin Heard(r)
    <3>1. x # r /\ x \notin Written(r)
      BY <2>4, HeardOwn, Zenon
    <3>2. /\ cache'[r] = cache[r] /\ \A m \in Heard(r) : cache'[m] = cache[m]
          /\ \A m \in Unheard : cache'[m] \in {cache[m], Absent}
          /\ \A o \in Written(r) : cache'[o] = cache[o] /\ (o \in stale => o \in stale')
      <4>1. \A o \in Written(r) : o \in Names
        BY HeardOwn DEF Names, Objects
      <4> QED
        BY <2>1, <2>2, <2>4, <3>1, <4>1, HeardOwn, Zenon
    <3>3. ASSUME Served(r), ~Gone(cache[r]) PROVE Served(r)'
      <4>1. r = "loginset" => Present(cache', "controller")
        BY <3>2, <3>3 DEF Served, Heard, Present
      <4>2. ASSUME NEW o \in Written(r), Kept(r, o) PROVE Kept(r, o)'
        <5>1. CASE o \in stale
          BY <3>2, <5>1 DEF Kept
        <5>2. CASE \A drawn : Matches(o, cache[o], Wanted(o, cache[r], cache, drawn))
          <6>1. \A drawn : Matches(o, cache[o], Wanted(o, cache[r], cache', drawn))
            BY <3>2, <3>3, <5>2, MatchesStays, CachedFiles, ZenonT(30)
          <6> QED
            BY <3>2, <6>1, Zenon DEF Kept
        <5> QED
          BY <4>2, <5>1, <5>2, Zenon DEF Kept
      <4>3. \A i \in DOMAIN Steps[r] : Steps[r][i] \in Written(r)
        BY HeardOwn, StepsFacts, Zenon
      <4> QED
        BY <3>2, <3>3, <4>1, <4>2, <4>3, Zenon DEF Served
    <3> QED
      BY <3>1, <3>2, <3>3 DEF CaughtUp
  <2> QED
    BY <2>3, <2>4, Zenon
<1>PutCaughtUp. ASSUME NEW r \in Alert \cap Running, CaughtUp(r), NEW x \in Names, NEW v,
                       Put(x, v), queue' = queue \cup Told(x, v), x = "ctlMonitor" => r # "controller",
                       x \in Unheard => v = Absent,
                       pc'[r] = pc[r], seen'[r] = seen[r], UNCHANGED <<failed, scene>>
                PROVE  CaughtUp(r)'
  <2> USE <1>PutCaughtUp
  <2>1. CASE v = api[x] \/ x \in Lagging
    <3>1. cache' = cache /\ stale \subseteq stale'
      BY <2>1 DEF Put
    <3> QED
      BY <3>1, <1>CacheStays, Zenon
  <2>2. CASE ~(v = api[x] \/ x \in Lagging)
    <3>1. cache' = [cache EXCEPT ![x] = v] /\ stale' = stale
      BY <2>2, Zenon DEF Put
    <3>2. Enqueued(x, cache') \subseteq queue'
      BY <2>2, <3>1 DEF Told
    <3> QED
      BY <3>1, <3>2, <1>CacheMoves, Zenon
  <2> QED
    BY <2>1, <2>2, Zenon
\* What a write of o leaves of the invariant, if every reconciler stays caught up.
<1>PutTriggers. ASSUME NEW o \in Names, NEW v, Put(o, v), UNCHANGED scene,
                       o \in Unheard => v = Absent, o = "ctlMonitor" /\ v # Absent => v.deleting = FALSE,
                       o \in Objects \ Managed => v = Absent, \A r \in Alert \cap Running : CaughtUp(r)'
                PROVE  TriggerInv'
  <2> USE <1>PutTriggers
  <2>1. Running' = Running /\ Lagging' = Lagging /\ Managed' = Managed
    BY DEF Running, Lagging, Managed
  <2>2. stale' \subseteq Lagging
    BY DEF Put, TriggerInv
  <2>3. Unheard \subseteq Names /\ "ctlMonitor" \in Names
    BY WrittenTable, ZenonT(30) DEF Unheard, Names, UserObjects, Objects, Reconcilers
  <2>4. \A m \in Names : /\ api'[m] = IF m = o THEN v ELSE api[m]
                         /\ m # o => cache'[m] = cache[m]
    BY StoreMaps DEF Put
  <2>5. \A x \in Unheard : api'[x] \in {cache'[x], Absent}
    BY <2>3, <2>4 DEF TriggerInv
  <2>6. api'["ctlMonitor"] # Absent => api'["ctlMonitor"].deleting = FALSE
    BY <2>3, <2>4 DEF TriggerInv
  <2>7. \A m \in Objects \ Managed : api'[m] = Absent
    BY <2>4 DEF TriggerInv, Names
  <2> QED
    BY <2>1, <2>2, <2>5, <2>6, <2>7, ZenonT(30) DEF TriggerInv
<1>OthersPut. ASSUME NEW o \in Names, NEW v, Put(o, v),
                     queue' = queue \cup Told(o, v), o # "ctlMonitor", o \in Unheard => v = Absent,
                     o \in Objects \ Managed => v = Absent, UNCHANGED <<pc, seen, failed, scene>>
              PROVE  TriggerInv'
  <2> USE <1>OthersPut
  <2>1. \A r \in Alert \cap Running : CaughtUp(r)'
    BY <1>PutCaughtUp DEF TriggerInv
  <2> QED
    BY <2>1, <1>PutTriggers, Zenon
\* Nobody marks a ServiceMonitor as deleted.
<1>MonitorUnmarked. ASSUME api["ctlMonitor"] # Absent => api["ctlMonitor"].deleting = FALSE,
                           NEW c, NEW drawn, NEW y, y = Result("ctlMonitor", Wanted("ctlMonitor", c, cache, drawn)),
                           y \notin {Failed, Absent}
                    PROVE  y.deleting = FALSE
  <2> USE <1>MonitorUnmarked
  <2> DEFINE o == "ctlMonitor"
             want == Wanted(o, c, cache, drawn)
  <2>1. o \in Objects /\ o \in Names /\ Owner(o) = "controller"
    BY WrittenTable, OwnerWrites DEF Objects, Names, Reconcilers
  <2>3. want = Remove \/ want.deleting = FALSE
    BY <2>1, Zenon DEF Wanted, ControllerStep, BuildControllerServiceMonitor, BuildServiceMonitor, OwnedBy
  <2>4. api[o] # Absent => IsObject(api[o])
    BY <2>1, StoreTypes DEF StoreOK, ObjectOK
  <2>5. y = Result(o, want)
    OBVIOUS
  <2> HIDE DEF want
  <2>6. CASE want \in {Skip, Remove, Failed}
    BY <2>5, <2>6 DEF Result, DeleteObject
  <2>7. CASE want \notin {Skip, Remove, Failed}
    <3>1. y = SyncObject(cache[o], want, api[o], ShouldUpdate(o))
      BY <2>5, <2>7 DEF Result
    <3>2. y \in {want, api[o]} \/ (api[o] # Absent /\ y = MergePatch(cache[o], want, api[o]))
      BY <3>1 DEF SyncObject
    <3>3. CASE y \in {want, api[o]}
      BY <2>3, <2>7, <3>3, Zenon
    <3>4. CASE api[o] # Absent /\ y = MergePatch(cache[o], want, api[o])
      BY <2>4, <3>4, MergePatchParts
    <3> QED
      BY <3>2, <3>3, <3>4, Zenon
  <2> QED
    BY <2>6, <2>7, Zenon
<1>StepTriggers. ASSUME "ctlMonitor" \notin Lagging,
                        NEW q \in Running, Step(q)
                 PROVE  TriggerInv'
  <2> USE <1>StepTriggers
  <2>0. q \in Reconcilers /\ stale \subseteq Lagging
    BY SceneTypes DEF TriggerInv
  <2>1. PICK o, drawn, y : StepWrites(q, o, drawn, y)
    BY <2>0, StepParts, Zenon
  <2>2. /\ y = Result(o, Wanted(o, seen[q], cache, drawn))
        /\ o \in Written(q) /\ o \in Names /\ seen[q] # Absent
        /\ \/ /\ y = Failed /\ failed' = failed \cup {q}
              /\ UNCHANGED <<api, cache, stale, queue>>
           \/ /\ y # Failed /\ Put(o, y) /\ queue' = queue \cup Told(o, y)
              /\ UNCHANGED failed
        /\ pc' = [pc EXCEPT ![q] = @ + 1]
        /\ UNCHANGED <<seen, scene>>
    BY <2>1, Zenon DEF StepWrites
  <2>3. o \in Managed /\ o \in Objects /\ o \notin Unheard
    <3>1. o \in Managed /\ o \in Objects
      BY <2>0, <2>2, Zenon DEF Managed, Objects
    <3> QED
      BY <3>1, NamesDisjoint DEF Unheard, UserObjects
  <2>4. o = "ctlMonitor" => q = "controller"
    BY <2>0, <2>2, WrittenTable DEF Reconcilers
  <2>5. ASSUME NEW r \in Alert \cap Running PROVE CaughtUp(r)'
    <3>1. CaughtUp(r)
      BY DEF TriggerInv
    <3>2. CASE r = q
      BY <2>0, <3>1, <3>2, <1>OwnStep
    <3>3. CASE r # q
      <4>1. pc'[r] = pc[r] /\ seen'[r] = seen[r]
        BY <2>2, <3>3, PcTypes, HeardOwn, Zenon
      <4>2. CASE y = Failed
        BY <2>2, <3>1, <4>1, <4>2, <1>CacheStays
      <4>3. CASE y # Failed
        <5>1. /\ Put(o, y) /\ queue' = queue \cup Told(o, y) /\ UNCHANGED <<failed, scene>>
              /\ o \in Names
          BY <2>2, <4>3, Zenon
        <5>2. (o = "ctlMonitor" => r # "controller") /\ (o \in Unheard => y = Absent)
          BY <2>3, <2>4, <3>3
        <5> QED
          BY <3>1, <4>1, <5>1, <5>2, <1>PutCaughtUp, Zenon
      <4> QED
        BY <4>2, <4>3, Zenon
    <3> QED
      BY <3>2, <3>3
  <2>6. CASE y = Failed
    <3>1. UNCHANGED <<api, cache, stale, scene>>
      BY <2>2, <2>6
    <3> QED
      BY <2>5, <3>1, Zenon DEF TriggerInv, Running, Lagging, Managed
  <2>7. CASE y # Failed
    <3>1. Put(o, y) /\ UNCHANGED scene /\ o \in Names
      BY <2>2, <2>7
    <3>2. o = "ctlMonitor" /\ y # Absent => y.deleting = FALSE
      BY <2>2, <2>7, <1>MonitorUnmarked, Zenon DEF TriggerInv
    <3> QED
      BY <2>3, <2>5, <3>1, <3>2, <1>PutTriggers, Zenon
  <2> QED
    BY <2>6, <2>7, Zenon
<1>DeliverTriggers. ASSUME "ctlMonitor" \notin Lagging,
                           NEW o \in stale, Deliver(o), o \in Names
                    PROVE  TriggerInv'
  <2> USE <1>DeliverTriggers
  <2>1. /\ stale' = stale \ {o} /\ cache' = [cache EXCEPT ![o] = api[o]]
        /\ queue' = queue \cup Enqueued(o, cache') /\ UNCHANGED <<api, pc, seen, failed, scene>>
    BY DEF Deliver
  <2>2. o # "ctlMonitor" /\ (o \in Unheard => api[o] \in {cache[o], Absent})
    BY DEF TriggerInv
  <2>3. ASSUME NEW r \in Alert \cap Running PROVE CaughtUp(r)'
    <3>1. CaughtUp(r)
      BY Zenon DEF TriggerInv
    <3>2. /\ queue \subseteq queue' /\ Enqueued(o, cache') \subseteq queue' /\ stale \ {o} \subseteq stale'
          /\ pc'[r] = pc[r] /\ seen'[r] = seen[r] /\ (r \in failed => r \in failed')
      BY <2>1, Zenon
    <3> QED
      BY <2>1, <2>2, <3>1, <3>2, <1>CacheMoves, Zenon
  <2>4. \A x \in Unheard : api'[x] \in {cache'[x], Absent}
    <3>1. \A x \in Unheard : x \in Names
      BY DEF Unheard, Names, UserObjects
    <3>2. \A m \in Names : cache'[m] = IF m = o THEN api[o] ELSE cache[m]
      BY <2>1, StoreMaps, Zenon
    <3> QED
      BY <2>1, <3>1, <3>2 DEF TriggerInv
  <2> QED
    BY <2>1, <2>3, <2>4, Zenon DEF TriggerInv, Running, Lagging, Managed
\* Users leave alone what a build reads and nobody watches, or delete it.
<1>UsersWatched. ASSUME Watched(Scenes[scene]),
                        \/ \E r \in Reconcilers : EditResource(r)
                        \/ \E o \in UserObjects : EditUserObject(o)
                        \/ \E o \in Objects : Overwrite(o)
                        \/ \E o \in Deletable : Delete(o)
                 PROVE  \E o \in Names : \E v :
                          /\ UserPuts(o, v) /\ UNCHANGED scene /\ o # "ctlMonitor"
                          /\ o \in Unheard => v = Absent
                          /\ o \in Objects => api[o] # Absent
  <2> USE <1>UsersWatched
  <2>1. /\ Unheard \cap Editable = {} /\ "ctlMonitor" \notin Editable \cup Deletable
        /\ Deletable \subseteq Names
    BY SceneTypes DEF Watched, Unheard, Editable, Deletable
  <2>2. CASE \E r \in Reconcilers : EditResource(r)
    <3>1. PICK r \in Reconcilers : EditResource(r)
      BY <2>2
    <3>2. r \in Names /\ r \notin Objects /\ r \notin Unheard /\ r # "ctlMonitor"
      BY NamesDisjoint DEF Names, Unheard, Reconcilers
    <3>3. \E v : UserPuts(r, v) /\ UNCHANGED scene
      BY <3>1 DEF EditResource
    <3> QED
      BY <3>2, <3>3
  <2>3. CASE \E o \in UserObjects : EditUserObject(o)
    <3>1. PICK o \in UserObjects : EditUserObject(o)
      BY <2>3
    <3>2. o \in Editable /\ \E v : UserPuts(o, v) /\ UNCHANGED scene
      BY <3>1 DEF EditUserObject
    <3> QED
      BY <2>1, <3>2, NamesDisjoint DEF Names
  <2>4. CASE \E o \in Objects : Overwrite(o)
    <3>1. PICK o \in Objects : Overwrite(o)
      BY <2>4
    <3>2. o \in Editable /\ api[o] # Absent /\ \E v : UserPuts(o, v) /\ UNCHANGED scene
      BY <3>1 DEF Overwrite
    <3> QED
      BY <2>1, <3>2 DEF Names
  <2>5. CASE \E o \in Deletable : Delete(o)
    <3>1. PICK o \in Deletable : Delete(o)
      BY <2>5
    <3>2. /\ api[o] # Absent
          /\ \E v : UserPuts(o, v) /\ UNCHANGED scene /\ (o \in UserObjects => v = Absent)
      BY <3>1 DEF Delete
    <3>3. Unheard \subseteq UserObjects
      BY DEF Unheard, UserObjects
    <3> QED
      BY <2>1, <3>2, <3>3
  <2> QED
    BY <2>2, <2>3, <2>4, <2>5, Zenon
<1>GoneTriggers. ASSUME "ctlMonitor" \notin Lagging,
                        NEW o \in Names, Collect(o) \/ Vanish(o)
                 PROVE  TriggerInv'
  <2> USE <1>GoneTriggers
  <2>1. /\ Put(o, Absent) /\ queue' = queue \cup Told(o, Absent)
        /\ UNCHANGED <<pc, seen, failed, scene>>
    BY DEF Collect, Vanish
  <2>2. CASE o # "ctlMonitor"
    BY <2>1, <2>2, <1>OthersPut
  <2>3. CASE o = "ctlMonitor"
    <3>1. ~Going(o)
      BY <2>3 DEF Going, TriggerInv
    <3>2. Collect(o)
      BY <3>1 DEF Vanish
    <3>3. ASSUME NEW r \in Alert \cap Running PROVE CaughtUp(r)'
      <4>1. CASE r = "controller"
        BY <2>3, <3>2, <4>1, <1>CollectMonitor, Zenon
      <4>2. CASE r # "controller"
        <5>1. CaughtUp(r)
          BY Zenon DEF TriggerInv
        <5>2. pc'[r] = pc[r] /\ seen'[r] = seen[r] /\ UNCHANGED <<failed, scene>>
          BY <2>1
        <5>3. o = "ctlMonitor" => r # "controller"
          BY <4>2, Zenon
        <5> QED
          BY <2>1, <5>1, <5>2, <5>3, <1>PutCaughtUp, Zenon
      <4> QED
        BY <4>1, <4>2
    <3> QED
      BY <2>1, <3>3, <1>PutTriggers, Zenon
  <2> QED
    BY <2>2, <2>3, Zenon
<1> USE SceneTypes
<1>1. "ctlMonitor" \notin Lagging /\ stale \subseteq Names
  BY ClusterObjectsAssumption DEF Watched, Lagging, TriggerInv
<1>2. CASE \E r \in Running : Step(r)
  BY <1>1, <1>2, <1>StepTriggers, Zenon
<1>3. CASE \E r \in Running : Start(r) \/ Finish(r) \/ StatusFails(r) \/ StepFails(r)
  <2>1. PICK q \in Reconcilers : Start(q) \/ Finish(q) \/ StatusFails(q) \/ StepFails(q)
    BY <1>3, Zenon
  <2>2. \A r \in Alert \cap Running : CaughtUp(r)'
    BY <2>1, <1>RunCaughtUp, Zenon DEF TriggerInv
  <2>3. UNCHANGED <<api, cache, stale, scene>>
    BY <2>1, Zenon DEF Start, Finish, StatusFails, StepFails
  <2> QED
    BY <2>2, <2>3 DEF TriggerInv, Running, Lagging, Managed
<1>4. CASE RequeueNodeSet \/ Resync \/ UNCHANGED vars
  <2>1. queue \subseteq queue' /\ UNCHANGED <<api, cache, stale, pc, seen, failed, scene>>
    BY <1>4, Zenon DEF RequeueNodeSet, Resync, vars
  <2>2. \A r \in Alert \cap Running : CaughtUp(r)'
    BY <2>1, <1>CacheStays DEF TriggerInv
  <2> QED
    BY <2>1, <2>2 DEF TriggerInv, Running, Lagging, Managed
<1>5. CASE \E o \in stale : Deliver(o)
  BY <1>1, <1>5, <1>DeliverTriggers
<1>6. CASE (\E o \in Objects : Collect(o)) \/ \E o \in Reconcilers \cup Objects : Vanish(o)
  <2>1. PICK o \in Names : Collect(o) \/ Vanish(o)
    BY <1>6, Zenon DEF Names
  <2> QED
    BY <1>1, <2>1, <1>GoneTriggers
<1>7. CASE \/ \E r \in Reconcilers : EditResource(r)
           \/ \E o \in UserObjects : EditUserObject(o)
           \/ \E o \in Objects : Overwrite(o)
           \/ \E o \in Deletable : Delete(o)
  <2>1. PICK o \in Names : \E v :
          /\ UserPuts(o, v) /\ UNCHANGED scene /\ o # "ctlMonitor"
          /\ o \in Unheard => v = Absent
          /\ o \in Objects => api[o] # Absent
    BY <1>7, <1>UsersWatched, Zenon
  <2>2. PICK v :
          /\ UserPuts(o, v) /\ UNCHANGED scene /\ o # "ctlMonitor"
          /\ o \in Unheard => v = Absent
          /\ o \in Objects => api[o] # Absent
    BY <2>1, Zenon
  <2>3. Put(o, v) /\ queue' = queue \cup Told(o, v) /\ UNCHANGED <<pc, seen, failed, scene>>
    BY <2>2, Zenon DEF UserPuts
  <2>4. o \in Objects \ Managed => v = Absent
    BY <2>2, Zenon DEF TriggerInv
  <2> QED
    BY <2>2, <2>3, <2>4, <1>OthersPut, Zenon
<1>8. CASE Restart
  <2>1. /\ cache' = api /\ api' = api /\ stale' = {} /\ scene' = scene
        /\ queue' = {r \in Running : Present(api, r)}
    BY <1>8 DEF Restart
  <2>2. \A r \in Running : r \in queue' \/ Gone(cache'[r])
    BY <2>1 DEF Present, Gone
  <2> QED
    BY <2>1, <2>2, Zenon DEF TriggerInv, CaughtUp, Running, Lagging, Managed
<1> QED
  BY <1>2, <1>3, <1>4, <1>5, <1>6, <1>7, <1>8 DEF Next, Reconcile

\* It holds initially: every reconciler has a request.
LEMMA InitTriggers == ASSUME Init PROVE TriggerInv
<1>1. cache = api /\ stale = {} /\ queue = {r \in Running : Present(api, r)}
  BY Zenon DEF Init
<1>2. \A r \in Running : r \in queue \/ Gone(cache[r])
  BY <1>1 DEF Present, Gone
<1>3. \A o \in Objects : api[o] = Absent
  <2> SUFFICES ASSUME NEW o \in Objects PROVE api[o] = Absent
    OBVIOUS
  <2>1. o \in Names /\ o \notin UserObjects /\ o \notin Reconcilers
    BY NamesDisjoint DEF Names
  <2> QED
    BY <2>1, Zenon DEF Init
<1>4. "ctlMonitor" \in Objects
  BY WrittenTable DEF Objects, Reconcilers
<1> QED
  BY <1>1, <1>2, <1>3, <1>4 DEF TriggerInv, CaughtUp

-----------------------------------------------------------------------------
(* A settled cluster.                                                      *)

\* An object that is managed, but for workers', is written by an alert reconciler.
LEMMA ManagedOwner ==
  ASSUME TypeInv, NEW o \in Managed \ Written("nodeset")
  PROVE  /\ Owner(o) \in Alert \cap Running /\ o \in Written(Owner(o))
         /\ o \in Objects /\ o \in Names /\ o \notin Reconcilers
<1>1. PICK r \in Running : o \in Written(r)
  BY DEF Managed
<1>2. r \in Reconcilers /\ r \in Alert /\ o \in Objects
  BY <1>1, SceneTypes, Zenon DEF Reconcilers, Alert, Objects
<1> QED
  BY <1>1, <1>2, OwnerWrites, NamesDisjoint DEF Names

\* The last run of r has seen the objects as they are, and left them as it wanted them.
LEMMA SettledMatches ==
  ASSUME TypeInv, TriggerInv, Settled, NEW r \in Alert \cap Running, ~Gone(api[r])
  PROVE  /\ r = "loginset" => Present(api, "controller")
         /\ \A o \in Written(r) : \A d : Matches(o, api[o], Wanted(o, api[r], api, d))
<1>1. r \notin queue /\ stale = {} /\ pc[r] = 0 /\ r \in Reconcilers
  BY HeardOwn DEF Settled, Quiet, Alert
<1>2. cache = api
  BY <1>1, StoreMaps, CacheAgrees, Zenon
<1>3. Served(r)
  BY <1>1, <1>2, Zenon DEF TriggerInv, CaughtUp
<1>4. \A i \in DOMAIN Steps[r] : Kept(r, Steps[r][i])
  BY <1>1, <1>3, Zenon DEF Served
<1>5. ASSUME NEW o \in Written(r), NEW d PROVE Matches(o, api[o], Wanted(o, api[r], api, d))
  <2>1. Kept(r, o)
    BY <1>4, Zenon DEF Written
  <2> QED
    BY <1>1, <1>2, <2>1, Zenon DEF Kept
<1> QED
  BY <1>2, <1>3, <1>5, Zenon DEF Served

\* An object that is there has an owner that is there, and neither is going.
LEMMA SettledOwner ==
  ASSUME TypeInv, Settled, NEW o \in Managed \ Written("nodeset"), api[o] # Absent
  PROVE  ~Gone(api[Owner(o)]) /\ api[o].owner = api[Owner(o)].uid /\ ~api[o].deleting
<1>1. o \in Objects /\ o \in Names /\ o \notin Reconcilers
  BY ManagedOwner
<1>2. ~Garbage(o) /\ ~Going(o)
  BY <1>1 DEF Settled
<1> QED
  BY <1>1, <1>2 DEF Garbage, Going, Live, Gone

\* Without requests and events to come, all steps have done what they should.
LEMMA QuietCurrent == ASSUME TypeInv, SoundInv, NoMarker, TriggerInv PROVE QuietIsCurrent
<1> SUFFICES ASSUME Settled, NEW o \in Managed \ Written("nodeset") PROVE UpToDate(o)
  BY DEF QuietIsCurrent
<1> DEFINE r == Owner(o)
           c == api[r]
           want == Wanted(o, c, api, CHOOSE d \in DrawnKeys : TRUE)
<1>1. r \in Alert \cap Running /\ o \in Written(r) /\ o \in Objects /\ o \in Names /\ o \notin Reconcilers
  BY ManagedOwner
<1>2. api[o] # Absent => ~Gone(c) /\ api[o].owner = c.uid /\ ~api[o].deleting
  BY SettledOwner
<1>3. CASE Gone(c)
  BY <1>2, <1>3 DEF UpToDate
<1>4. CASE ~Gone(c)
  <2>1. Matches(o, api[o], want)
    BY <1>1, <1>4, SettledMatches, Zenon
  <2>2. want = Remove => api[o] = Absent
    BY <1>2, <2>1, MarkersAssumption DEF Matches, Gone
  <2>3. ASSUME want \notin {Skip, Failed, Remove}
        PROVE  /\ api[o] # Absent /\ ~api[o].deleting /\ api[o].owner = c.uid
               /\ (ShouldUpdate(o) /\ ~want.immutable) => api[o].data = want.data
    <3>1. api[o] # Absent /\ ~api[o].deleting /\ api[o].owner = c.uid
      BY <1>2, <2>1, <2>3, ZenonT(30) DEF Matches
    <3>2. CASE o = "hostKeys"
      <4>1. want = BuildLoginSshHostKeys(c, CHOOSE d \in DrawnKeys : TRUE)
        BY <3>2, HostKeysName, Zenon DEF Wanted, LoginSetStep
      <4>2. want.immutable = TRUE
        BY <4>1 DEF BuildLoginSshHostKeys, BuildSecret, OwnedBy
      <4> QED
        BY <3>1, <4>2, Zenon
    <3>3. CASE o # "hostKeys"
      <4>1. api[o].immutable = FALSE
        BY <1>1, <3>1, <3>3, Zenon DEF SoundInv, SoundStore, Sound
      <4> HIDE DEF want
      <4>2. ShouldUpdate(o) => api[o].data = want.data
        BY <2>1, <2>3, <3>1, <4>1 DEF Matches
      <4> QED
        BY <3>1, <4>2, Zenon
    <3> QED
      BY <3>2, <3>3, ZenonT(30)
  <2> HIDE DEF want
  <2>4. CASE want \in {Skip, Failed}
    BY <1>4, <2>4, MarkersAssumption DEF UpToDate, want
  <2>5. CASE want = Remove
    BY <1>4, <2>2, <2>5, MarkersAssumption DEF UpToDate, want
  <2>6. CASE want \notin {Skip, Failed, Remove}
    BY <1>4, <2>3, <2>6 DEF UpToDate, want
  <2> QED
    BY <2>4, <2>5, <2>6, Zenon
<1> QED
  BY <1>3, <1>4

\* A step that updates has the last word on the data.
LEMMA SettledData ==
  ASSUME TypeInv, SoundInv, TriggerInv, Settled, NEW o \in Managed \ Written("nodeset"),
         o \notin {"hostKeys", "ctlService"}, api[o] # Absent,
         NEW d, NEW want, want = Wanted(o, api[Owner(o)], api, d), want \notin {Skip, Remove, Failed}
  PROVE  api[o].data = want.data
<1>1. /\ Owner(o) \in Alert \cap Running /\ o \in Written(Owner(o)) /\ o \in Objects /\ o \in Names
      /\ ~Gone(api[Owner(o)]) /\ ~api[o].deleting
  BY ManagedOwner, SettledOwner, Zenon
<1>2. Matches(o, api[o], want)
  BY <1>1, SettledMatches
<1>3. api[o].immutable = FALSE
  BY <1>1, Zenon DEF SoundInv, SoundStore, Sound
<1>4. ShouldUpdate(o)
  BY Zenon DEF ShouldUpdate
<1> QED
  BY <1>1, <1>2, <1>3, <1>4, Zenon DEF Matches

\* The entries of a template are those of its hashes and of its parts.
LEMMA TemplateHashes ==
  ASSUME NEW spec, NEW volumes, NEW containers, NEW hashes, NEW e \in DOMAIN hashes,
         e \notin {"spec", "volumes", "mounts"},
         NEW pod, pod = BuildPodTemplate(spec, volumes, containers, hashes)
  PROVE  pod[e] = hashes[e]
  BY Zenon DEF BuildPodTemplate, Joined

\* What was built from the live objects has their hashes.
LEMMA Templates == ASSUME TypeInv, SoundInv, NoMarker, TriggerInv PROVE TemplatesFollow
<1>1. SUFFICES ASSUME Settled PROVE
        /\ \A w \in {"ctlSet", "accSet"} \cap Managed :
             (api[w] # Absent /\ ~api[Owner(w)].spec.external) =>
               LET pod == api[w].data IN
               /\ pod.slurmKey = api["slurmKey"] /\ pod.jwtKey = api["jwtKey"]
               /\ w = "accSet" => pod.config = DataOf(api, "accConfig")
               /\ (w = "ctlSet" /\ ~api["controller"].spec.inplace) =>
                    pod.config = DataOf(api, "ctlConfig")
        /\ ("loginset" \in Running /\ api["loginDeployment"] # Absent) =>
             LET pod == api["loginDeployment"].data IN
             /\ pod.hostKeys = DataOf(api, "hostKeys") /\ pod.sssd = api["sssd"]
             /\ pod.sshd = api["loginset"].spec.sshd
  BY Zenon DEF TemplatesFollow
<1>2. ASSUME "ctlSet" \in Managed, api["ctlSet"] # Absent, ~api["controller"].spec.external
      PROVE  LET pod == api["ctlSet"].data IN
             /\ pod.slurmKey = api["slurmKey"] /\ pod.jwtKey = api["jwtKey"]
             /\ ~api["controller"].spec.inplace => pod.config = DataOf(api, "ctlConfig")
  <2> DEFINE c == api["controller"]
             pod == api["ctlSet"].data
             hashes == IF c.spec.inplace THEN getAuthHashes(api) ELSE getHashes(api)
  <2>1. Owner("ctlSet") = "controller" /\ "ctlSet" \in Managed \ Written("nodeset")
    BY <1>2, WrittenTable, OwnerWrites DEF Reconcilers
  <2>2. Wanted("ctlSet", c, api, 0) = BuildController(c, api)
    BY <1>2, <2>1 DEF Wanted, ControllerStep
  <2>3. BuildController(c, api) \notin {Skip, Remove, Failed}
    BY BuiltIsNoMarker, ZenonT(30) DEF BuildController
  <2>4. pod = BuildController(c, api).data
    BY <1>1, <1>2, <2>1, <2>2, <2>3, SettledData
  <2>5. \E volumes, containers : pod = BuildPodTemplate(c.spec, volumes, containers, hashes)
    BY <2>4 DEF BuildController, OwnedBy, controllerPodTemplate
  <2>6. /\ "slurmKey" \in DOMAIN hashes /\ hashes["slurmKey"] = api["slurmKey"]
        /\ "jwtKey" \in DOMAIN hashes /\ hashes["jwtKey"] = api["jwtKey"]
        /\ ~c.spec.inplace => "config" \in DOMAIN hashes /\ hashes["config"] = DataOf(api, "ctlConfig")
    BY ZenonT(30) DEF getAuthHashes, getHashes, Joined
  <2> HIDE DEF hashes, pod, c
  <2>7. pod["slurmKey"] = api["slurmKey"] /\ pod["jwtKey"] = api["jwtKey"]
    BY <2>5, <2>6, TemplateHashes
  <2>8. ~c.spec.inplace => pod["config"] = DataOf(api, "ctlConfig")
    BY <2>5, <2>6, TemplateHashes
  <2> QED
    BY <2>7, <2>8 DEF pod, c
<1>3. ASSUME "accSet" \in Managed, api["accSet"] # Absent, ~api["accounting"].spec.external
      PROVE  LET pod == api["accSet"].data IN
             /\ pod.slurmKey = api["slurmKey"] /\ pod.jwtKey = api["jwtKey"]
             /\ pod.config = DataOf(api, "accConfig")
  <2> DEFINE c == api["accounting"]
             pod == api["accSet"].data
             hashes == accountingHashes(api)
  <2>1. Owner("accSet") = "accounting" /\ "accSet" \in Managed \ Written("nodeset")
    BY <1>3, WrittenTable, OwnerWrites DEF Reconcilers
  <2>2. Wanted("accSet", c, api, 0) = BuildAccounting(c, api)
    BY <1>3, <2>1 DEF Wanted, AccountingStep
  <2>3. BuildAccounting(c, api) \notin {Skip, Remove, Failed}
    BY BuiltIsNoMarker, ZenonT(30) DEF BuildAccounting
  <2>4. pod = BuildAccounting(c, api).data
    BY <1>1, <1>3, <2>1, <2>2, <2>3, SettledData
  <2>5. \E volumes, containers : pod = BuildPodTemplate(c.spec, volumes, containers, hashes)
    BY <2>4 DEF BuildAccounting, OwnedBy, accountingPodTemplate
  <2>6. /\ "slurmKey" \in DOMAIN hashes /\ hashes["slurmKey"] = api["slurmKey"]
        /\ "jwtKey" \in DOMAIN hashes /\ hashes["jwtKey"] = api["jwtKey"]
        /\ "config" \in DOMAIN hashes /\ hashes["config"] = DataOf(api, "accConfig")
    BY ZenonT(30) DEF getAuthHashes, accountingHashes, Joined
  <2> HIDE DEF hashes, pod, c
  <2>7. /\ pod["slurmKey"] = api["slurmKey"] /\ pod["jwtKey"] = api["jwtKey"]
        /\ pod["config"] = DataOf(api, "accConfig")
    BY <2>5, <2>6, TemplateHashes
  <2> QED
    BY <2>7 DEF pod
<1>4. ASSUME "loginset" \in Running, api["loginDeployment"] # Absent
      PROVE  LET pod == api["loginDeployment"].data IN
             /\ pod.hostKeys = DataOf(api, "hostKeys") /\ pod.sssd = api["sssd"]
             /\ pod.sshd = api["loginset"].spec.sshd
  <2> DEFINE c == api["loginset"]
             pod == api["loginDeployment"].data
             hashes == getLoginHashes(api)
  <2>1. /\ Owner("loginDeployment") = "loginset" /\ "loginDeployment" \in Managed \ Written("nodeset")
        /\ Owner("sshConfig") = "loginset" /\ "sshConfig" \in Managed \ Written("nodeset")
        /\ "sshConfig" \in Written("loginset") /\ "loginset" \in Alert \cap Running
    BY <1>4, WrittenTable, OwnerWrites DEF Reconcilers, Managed, Alert
  <2>2. ~Gone(c)
    BY <1>1, <1>4, <2>1, SettledOwner, Zenon
  <2>3. Present(api, "controller")
    BY <1>1, <2>1, <2>2, SettledMatches
  <2>4. Wanted("loginDeployment", c, api, 0) = OwnedBy(c, FALSE, loginPodTemplate(c, api))
    BY <2>1, <2>3, Zenon DEF Wanted, LoginSetStep, BuildLogin
  <2>5. pod = loginPodTemplate(c, api)
    <3> DEFINE want == OwnedBy(c, FALSE, loginPodTemplate(c, api))
    <3>1. want \notin {Skip, Remove, Failed}
      BY BuiltIsNoMarker, Zenon
    <3>2. want.data = loginPodTemplate(c, api)
      BY DEF OwnedBy
    <3> HIDE DEF want
    <3>3. want = Wanted("loginDeployment", api[Owner("loginDeployment")], api, 0)
      BY <2>1, <2>4, Zenon DEF want
    <3>4. api["loginDeployment"].data = want.data
      BY <1>1, <1>4, <2>1, <3>1, <3>3, SettledData
    <3> QED
      BY <3>2, <3>4
  <2>6. Wanted("sshConfig", c, api, 0) = BuildLoginSshConfig(c)
    BY <2>1 DEF Wanted, LoginSetStep
  <2>7. BuildLoginSshConfig(c) \notin {Skip, Remove, Failed}
    BY BuiltIsNoMarker, Zenon DEF BuildLoginSshConfig, BuildConfigMap
  <2>8. api["sshConfig"] # Absent
    BY <1>1, <2>1, <2>2, <2>6, <2>7, SettledMatches, ZenonT(30) DEF Matches
  <2>9. api["sshConfig"].data = BuildLoginSshConfig(c).data
    BY <1>1, <2>1, <2>6, <2>7, <2>8, SettledData
  <2>10. api["sshConfig"].data.sshd = c.spec.sshd
    BY <2>9 DEF BuildLoginSshConfig, BuildConfigMap, OwnedBy
  <2>11. /\ "hostKeys" \in DOMAIN hashes /\ hashes["hostKeys"] = DataOf(api, "hostKeys")
         /\ "sssd" \in DOMAIN hashes /\ hashes["sssd"] = api["sssd"]
         /\ "sshd" \in DOMAIN hashes /\ hashes["sshd"] = c.spec.sshd
    BY <2>8, <2>10 DEF getLoginHashes, Present
  <2>12. \E spec, volumes, containers : pod = BuildPodTemplate(spec, volumes, containers, hashes)
    BY <2>5 DEF loginPodTemplate
  <2> HIDE DEF hashes, pod, c
  <2>13. PICK spec, volumes, containers : pod = BuildPodTemplate(spec, volumes, containers, hashes)
    BY <2>12, Zenon
  <2>14. pod["hostKeys"] = hashes["hostKeys"]
    BY <2>11, <2>13, TemplateHashes
  <2>15. pod["sssd"] = hashes["sssd"]
    BY <2>11, <2>13, TemplateHashes
  <2>16. pod["sshd"] = hashes["sshd"]
    BY <2>11, <2>13, TemplateHashes
  <2> QED
    BY <2>11, <2>14, <2>15, <2>16, Zenon DEF pod, c
<1>5. Owner("ctlSet") = "controller" /\ Owner("accSet") = "accounting"
  BY WrittenTable, OwnerWrites DEF Reconcilers
<1> QED
  BY <1>2, <1>3, <1>4, <1>5, Zenon

\* Worker pods mount volumes they have.
LEMMA WorkerMounts ==
  ASSUME NEW c, NEW k
  PROVE  MountsVolumes(BuildWorkerPodTemplate(c, k))
<1> DEFINE pod == BuildWorkerPodTemplate(c, k)
<1>1. pod.volumes = nodesetVolumes(c) /\ pod.mounts = UNION {slurmdContainer(c), LogfileContainer}
  BY PodTemplateParts DEF BuildWorkerPodTemplate
<1>2. DOMAIN nodesetVolumes(c) = {"etc", "log"} \cup (IF c.spec.ssh THEN {"sshd", "sssd"} ELSE {})
  BY DEF nodesetVolumes, Joined, LogFileVolume
<1>3. slurmdContainer(c) \cup LogfileContainer \subseteq DOMAIN nodesetVolumes(c)
  BY <1>2 DEF slurmdContainer, LogfileContainer
<1> HIDE DEF pod
<1>4. MountsVolumes(pod)
  BY <1>1, <1>3 DEF MountsVolumes
<1> QED
  BY <1>4, Zenon DEF pod

\* The ConfigMap of a settled Controller is there.
LEMMA SettledConfig ==
  ASSUME TypeInv, SoundInv, NoMarker, TriggerInv, Settled,
         "controller" \in Running, ~Gone(api["controller"])
  PROVE  api["ctlConfig"] # Absent
<1>1. "controller" \in Alert \cap Running /\ "ctlConfig" \in Written("controller")
        /\ Owner("ctlConfig") = "controller"
  BY WrittenTable, OwnerWrites DEF Alert, Reconcilers
<1>2. Wanted("ctlConfig", api["controller"], api, 0) \notin {Skip, Remove}
  <2>1. Wanted("ctlConfig", api["controller"], api, 0) \in
          {BuildControllerConfigExternal(api["controller"], api), BuildControllerConfig(api["controller"], api)}
    BY <1>1, Zenon DEF Wanted, ControllerStep
  <2> QED
    BY <2>1, BuiltIsNoMarker, MarkersAssumption, ZenonT(30)
    DEF BuildControllerConfigExternal, BuildControllerConfig, BuildConfigMap
<1> QED
  BY <1>1, <1>2, SettledMatches, Zenon DEF Matches

\* What the template of a workload projects was written by a step before it.
LEMMA Mounts ==
  ASSUME TypeInv, SoundInv, NoMarker, TriggerInv, Watched(Scenes[scene]) PROVE MountsExist
<1>1. ASSUME NEW w \in Workloads, api[w] # Absent PROVE MountsVolumes(api[w].data)
  <2>1. PodOK(w, api[w].data)
    BY <1>1, WorkloadsAre, Zenon DEF SoundInv, SoundStore, Sound, Names
  <2> QED
    BY <2>1, ZenonT(30) DEF PodOK, VolumesOK, MountsVolumes
<1>2. ASSUME NEW w \in Workloads, api[w] # Absent, Settled, api[w].data.volumes # Drift,
             ~(w = "accSet" /\ api["accounting"].spec.external),
             NEW v \in DOMAIN api[w].data.volumes, NEW n \in api[w].data.volumes[v] \ UserObjects
      PROVE  api[n] # Absent
  <2>1. w \in Objects /\ w \in Names /\ w \in Managed /\ w \notin Written("nodeset")
    BY <1>2, WorkloadsAre, WrittenTable, ZenonT(30) DEF Names, TriggerInv, Workloads
  <2>2. n \in Projected(w)
    <3>1. PodOK(w, api[w].data)
      BY <1>2, <2>1, ZenonT(30) DEF SoundInv, SoundStore, Sound
    <3> QED
      BY <1>2, <3>1 DEF PodOK, VolumesOK
  <2>3. Owner(w) \in Alert \cap Running /\ ~Gone(api[Owner(w)])
    BY <1>2, <2>1, ManagedOwner, SettledOwner, ZenonT(30)
  <2>4. \A o \in Written(Owner(w)) : \A d : Matches(o, api[o], Wanted(o, api[Owner(w)], api, d))
    BY <1>2, <2>3, SettledMatches, ZenonT(30)
  <2>5. CASE w = "ctlSet"
    <3>1. Owner(w) = "controller" /\ n = "ctlConfig"
      BY <2>2, <2>5, WorkloadsAre, OwnerWrites DEF Projected, Reconcilers
    <3> QED
      BY <1>2, <2>3, <3>1, SettledConfig
  <2>6. CASE w = "accSet"
    <3>1. /\ Owner(w) = "accounting" /\ n = "accConfig" /\ Owner(n) = "accounting"
          /\ n \in Written("accounting")
      BY <2>2, <2>6, WrittenTable, OwnerWrites DEF Projected, Reconcilers
    <3>2. Wanted(n, api["accounting"], api, 0) = BuildAccountingConfig(api["accounting"], api)
      BY <1>2, <2>6, <3>1 DEF Wanted, AccountingStep
    <3>3. BuildAccountingConfig(api["accounting"], api) \notin {Skip, Remove}
      BY BuiltIsNoMarker, MarkersAssumption, ZenonT(30) DEF BuildAccountingConfig, BuildSecret
    <3> QED
      BY <2>4, <3>1, <3>2, <3>3, Zenon DEF Matches
  <2>7. CASE w = "restDeployment"
    <3>1. /\ Owner(w) = "restapi" /\ n = "ctlConfig" /\ w \in Written("restapi")
      BY <2>2, <2>7, WorkloadsAre, OwnerWrites DEF Projected, Reconcilers
    <3>2. Wanted(w, api["restapi"], api, 0) = BuildRestapi(api["restapi"], api)
      BY <2>7, <3>1 DEF Wanted, RestApiStep
    <3>3. Present(api, "controller")
      <4>1. Matches("restDeployment", api[w], BuildRestapi(api["restapi"], api))
        BY <2>4, <2>7, <3>1, <3>2, Zenon
      <4>2. ~Matches("restDeployment", api[w], Failed)
        BY MarkersAssumption, Zenon DEF Matches
      <4> QED
        BY <4>1, <4>2, ZenonT(30) DEF BuildRestapi
    <3>4. "controller" \in Running /\ "controller" \in Reconcilers /\ "controller" \in Names
      BY <2>3, <3>1, Zenon DEF Watched, Running, Reconcilers, Names
    <3>5. ~api["controller"].deleting
      <4>1. SUFFICES ASSUME api["controller"].deleting PROVE FALSE
        OBVIOUS
      <4>2. PICK o \in Written("controller") : api[o] # Absent
        BY <1>2, <3>3, <3>4, <4>1, ZenonT(30) DEF Settled, Going, Present
      <4>3. o \in Managed \ Written("nodeset") /\ Owner(o) = "controller"
        BY <3>4, WrittenTable, OwnerWrites DEF Managed
      <4> QED
        BY <1>2, <4>1, <4>2, <4>3, SettledOwner, Zenon DEF Gone
    <3> QED
      BY <1>2, <3>1, <3>3, <3>4, <3>5, SettledConfig DEF Present, Gone
  <2>8. CASE w = "loginDeployment"
    <3>1. /\ Owner(w) = "loginset" /\ n \in {"hostKeys", "sshConfig"} /\ Owner(n) = "loginset"
          /\ n \in Written("loginset")
      BY <2>2, <2>8, WrittenTable, OwnerWrites DEF Projected, Reconcilers
    <3>2. Wanted(n, api["loginset"], api, 0) \in
            {BuildLoginSshHostKeys(api["loginset"], 0), BuildLoginSshConfig(api["loginset"])}
      BY <3>1 DEF Wanted, LoginSetStep
    <3>3. Wanted(n, api["loginset"], api, 0) \notin {Skip, Remove, Failed}
      BY <3>2, BuiltIsNoMarker, Zenon
      DEF BuildLoginSshHostKeys, BuildLoginSshConfig, BuildSecret, BuildConfigMap
    <3> QED
      BY <2>4, <3>1, <3>3, Zenon DEF Matches
  <2> QED
    BY <2>5, <2>6, <2>7, <2>8 DEF Workloads
<1> QED
  BY <1>1, <1>2, WorkerMounts DEF MountsExist

-----------------------------------------------------------------------------
(* The types.                                                              *)

\* What a store may hold under a name.
Fits(x, m, n) ==
  x # Absent => /\ m \in Objects => ObjectOK(x, n)
                /\ m \in Reconcilers => ResourceOK(x, n)

\* The types are preserved.
LEMMA TypeStep == ASSUME TypeInv, [Next]_vars PROVE TypeInv'
\* The state as the steps of a reconcile, of the API server and of users leave it.
<1>TypeParts. ASSUME scene' = scene,
                     StoreOK(api', MaxUid), StoreOK(cache', MaxUid),
                     \A m \in Names \ stale' : cache'[m] = api'[m],
                     queue' \subseteq Reconcilers, failed' \subseteq Reconcilers,
                     seen' = [r \in Reconcilers |-> seen'[r]],
                     \A r \in Reconcilers : seen'[r] # Absent => ResourceOK(seen'[r], MaxUid),
                     pc' \in [Reconcilers -> Nat],
                     \A r \in Reconcilers :
                       pc'[r] \in 0..Len(Steps[r]) + 1 /\ (pc'[r] = 0 <=> seen'[r] = Absent),
                     uids' \in [Reconcilers -> 1..MaxUid],
                     budget' \in 0..MaxDisturb
              PROVE  TypeInv'
  <2> USE <1>TypeParts
  <2>1. MaxUid' = MaxUid /\ MaxDisturb' = MaxDisturb
    BY Zenon DEF MaxUid, MaxDisturb
  <2>2. \A n \in Objects : api'[n] # Absent => api'[n].owner \in 1..MaxUid /\ api'[n].deleting \in BOOLEAN
    BY Zenon DEF StoreOK, ObjectOK
  <2>3. TypeOK'
    BY <2>1, <2>2 DEF TypeOK
  <2>4. StoreOK(api, MaxUid)' /\ StoreOK(cache, MaxUid)'
    BY <2>1, Zenon DEF StoreOK, ObjectOK, ResourceOK, IsObject, IsResource
  <2> QED
    BY <2>1, <2>3, <2>4, Zenon DEF TypeInv, ResourceOK, IsResource
<1>StoreFits. ASSUME NEW k, NEW n
              PROVE  StoreOK(k, n) <=> k = [m \in Names |-> k[m]] /\ \A m \in Names : Fits(k[m], m, n)
  BY <1>StoreFits DEF StoreOK, Fits, Names
\* A write keeps what the stores hold, and the cache up to date where no events are
\* on their way.
<1>PutKeeps. ASSUME NEW n, StoreOK(api, n), StoreOK(cache, n), \A m \in Names \ stale : cache[m] = api[m],
                    NEW o \in Names, NEW v, Fits(v, o, n), Put(o, v)
             PROVE  /\ StoreOK(api', n) /\ StoreOK(cache', n)
                    /\ \A m \in Names \ stale' : cache'[m] = api'[m]
  <2> USE <1>PutKeeps
  <2>1. /\ api = [m \in Names |-> api[m]] /\ \A m \in Names : Fits(api[m], m, n)
        /\ cache = [m \in Names |-> cache[m]] /\ \A m \in Names : Fits(cache[m], m, n)
    BY <1>StoreFits, Zenon
  <2>2. /\ api' = [m \in Names |-> api'[m]]
        /\ \A m \in Names : api'[m] = IF m = o THEN v ELSE api[m]
    BY <2>1, Zenon DEF Put
  <2>3. /\ cache' = [m \in Names |-> cache'[m]]
        /\ \A m \in Names : cache'[m] = cache[m] \/ (m = o /\ cache'[m] = v)
    BY <2>1, Zenon DEF Put
  <2>4. StoreOK(api', n) /\ StoreOK(cache', n)
    BY <2>1, <2>2, <2>3, <1>StoreFits, Zenon
  <2>5. \A m \in Names \ stale' : cache'[m] = api'[m]
    BY <2>1, <2>2, Zenon DEF Put
  <2> QED
    BY <2>4, <2>5, Zenon
<1>EnqueuedRuns. ASSUME NEW o, NEW v, NEW k
                 PROVE  Enqueued(o, k) \subseteq Running /\ Told(o, v) \subseteq Running
  BY <1>EnqueuedRuns, Zenon DEF Enqueued, Told
\* What a step leaves of its object fits: the object as it was, none, the one it wants,
\* or the live one with what is new patched in.
<1>SyncObjectFits. ASSUME NEW n, NEW o \in Objects, NEW old, NEW new, ObjectOK(new, n),
                          NEW live, Fits(live, o, n), NEW should,
                          SyncObject(old, new, live, should) # Failed
                   PROVE  Fits(SyncObject(old, new, live, should), o, n)
  <2> USE <1>SyncObjectFits
  <2>1. o \notin Reconcilers
    BY NamesDisjoint
  <2>2. Fits(new, o, n)
    BY <2>1, Zenon DEF Fits
  <2>3. ASSUME live # Absent
        PROVE  Fits(MergePatch(old, new, live), o, n)
    <3>1. ObjectOK(live, n)
      BY <2>3 DEF Fits
    <3>2. PICK d : MergePatch(old, new, live) =
                     [live EXCEPT !.owner = IF old.owner = new.owner THEN @ ELSE new.owner, !.data = d]
      BY Zenon DEF MergePatch
    <3>3. PICK u \in {live.owner, new.owner} :
            MergePatch(old, new, live) = Patched(live, u, d)
      BY <3>2, Zenon DEF Patched
    <3>4. /\ IsObject(MergePatch(old, new, live))
          /\ MergePatch(old, new, live).owner = u
          /\ MergePatch(old, new, live).deleting = live.deleting
      BY <3>1, <3>3, OwnerDataUpdated DEF ObjectOK
    <3> QED
      BY <2>1, <3>1, <3>3, <3>4, Zenon DEF Fits, ObjectOK
  <2>4. SyncObject(old, new, live, should)
          \in {new, live, Failed} \cup (IF live = Absent THEN {} ELSE {MergePatch(old, new, live)})
    BY Zenon DEF SyncObject
  <2> QED
    BY <2>2, <2>3, <2>4, Zenon
<1>ResultFits. ASSUME NEW r \in Reconcilers, NEW o \in Written(r), seen[r] # Absent, NEW drawn,
                      Result(o, Wanted(o, seen[r], cache, drawn)) # Failed
               PROVE  Fits(Result(o, Wanted(o, seen[r], cache, drawn)), o, MaxUid)
  <2> USE <1>ResultFits
  <2> DEFINE want == Wanted(o, seen[r], cache, drawn)
  <2>1. o \in Objects /\ o \in Names
    BY Zenon DEF Objects, Names
  <2>2. Fits(api[o], o, MaxUid) /\ Fits(Absent, o, MaxUid)
    <3>1. Fits(api[o], o, MaxUid)
      BY <2>1, StoreTypes, <1>StoreFits, Zenon
    <3> QED
      BY <3>1, Zenon DEF Fits
  <2>3. want \in {Skip, Remove, Failed} \/ ObjectOK(want, MaxUid)
    BY SceneTypes, StoreTypes, SeenTypes, WantedShape, Zenon
  <2> HIDE DEF want
  <2>4. CASE want \in {Skip, Remove, Failed}
    BY <2>2, <2>4 DEF Result, DeleteObject, want
  <2>5. CASE want \notin {Skip, Remove, Failed}
    <3>1. Result(o, want) = SyncObject(cache[o], want, api[o], ShouldUpdate(o))
      BY <2>5, Zenon DEF Result
    <3> QED
      BY <2>1, <2>2, <2>3, <2>5, <3>1, <1>SyncObjectFits, Zenon DEF want
  <2> QED
    BY <2>4, <2>5, Zenon
<1>StartType. ASSUME NEW r \in Reconcilers, Start(r) PROVE TypeInv'
  <2> USE <1>StartType
  <2>1. /\ UNCHANGED <<api, cache, stale, uids, budget, scene>>
        /\ queue' \subseteq Reconcilers /\ failed' \subseteq Reconcilers
    BY TypeFacts, Zenon DEF Start
  <2>2. CASE Gone(cache[r]) /\ UNCHANGED <<pc, seen, failed>>
    BY <2>1, <2>2, TypeFacts, <1>TypeParts, Zenon
  <2>3. CASE /\ ~Gone(cache[r])
             /\ pc' = [pc EXCEPT ![r] = 1]
             /\ seen' = [seen EXCEPT ![r] = cache[r]]
    <3>1. cache[r] # Absent /\ ResourceOK(cache[r], MaxUid)
      BY <2>3, StoreTypes DEF Gone, StoreOK
    <3>2. /\ seen' = [q \in Reconcilers |-> seen'[q]]
          /\ \A q \in Reconcilers : seen'[q] = IF q = r THEN cache[r] ELSE seen[q]
      BY <2>3, PcTypes, Zenon
    <3>3. /\ pc' \in [Reconcilers -> Nat]
          /\ \A q \in Reconcilers : pc'[q] = IF q = r THEN 1 ELSE pc[q]
      BY <2>3, PcTypes, Zenon
    <3>4. \A q \in Reconcilers :
            pc'[q] \in 0..Len(Steps[q]) + 1 /\ (pc'[q] = 0 <=> seen'[q] = Absent)
      <4> SUFFICES ASSUME NEW q \in Reconcilers
                   PROVE  pc'[q] \in 0..Len(Steps[q]) + 1 /\ (pc'[q] = 0 <=> seen'[q] = Absent)
        BY Zenon
      <4>1. CASE q = r
        BY <3>1, <3>2, <3>3, <4>1, StepsFacts
      <4>2. CASE q # r
        BY <3>2, <3>3, <4>2, PcTypes, Zenon
      <4> QED
        BY <4>1, <4>2, Zenon
    <3>5. \A q \in Reconcilers : seen'[q] # Absent => ResourceOK(seen'[q], MaxUid)
      BY <3>1, <3>2, SeenTypes, Zenon
    <3> QED
      BY <2>1, <3>2, <3>3, <3>4, <3>5, TypeFacts, <1>TypeParts, Zenon
  <2> QED
    BY <2>2, <2>3, Zenon DEF Start
<1>StepType. ASSUME NEW r \in Reconcilers, Step(r) PROVE TypeInv'
  <2> USE <1>StepType
  <2>1. PICK o, drawn, y : StepWrites(r, o, drawn, y)
    BY StepParts, Zenon
  <2>2. /\ y = Result(o, Wanted(o, seen[r], cache, drawn))
        /\ o \in Written(r) /\ o \in Names /\ seen[r] # Absent
        /\ \/ /\ y = Failed /\ failed' = failed \cup {r}
              /\ UNCHANGED <<api, cache, stale, queue>>
           \/ /\ y # Failed /\ Put(o, y) /\ queue' = queue \cup Told(o, y)
              /\ UNCHANGED failed
        /\ pc[r] \in DOMAIN Steps[r] /\ pc' = [pc EXCEPT ![r] = @ + 1]
        /\ UNCHANGED <<seen, uids, budget, scene>>
    BY <2>1, Zenon DEF StepWrites
  <2>3. /\ pc' \in [Reconcilers -> Nat]
        /\ \A q \in Reconcilers :
             pc'[q] \in 0..Len(Steps[q]) + 1 /\ (pc'[q] = 0 <=> seen'[q] = Absent)
    BY <2>2, PcMoves, Zenon
  <2>4. /\ StoreOK(api', MaxUid) /\ StoreOK(cache', MaxUid)
        /\ \A m \in Names \ stale' : cache'[m] = api'[m]
        /\ queue' \subseteq Reconcilers /\ failed' \subseteq Reconcilers
    <3>1. CASE y = Failed
      BY <2>2, <3>1, TypeFacts
    <3>2. CASE y # Failed
      <4>1. Fits(y, o, MaxUid)
        BY <2>2, <3>2, <1>ResultFits, Zenon
      <4>2. Put(o, y) /\ queue' = queue \cup Told(o, y) /\ UNCHANGED failed
        BY <2>2, <3>2, Zenon
      <4>3. /\ StoreOK(api', MaxUid) /\ StoreOK(cache', MaxUid)
            /\ \A m \in Names \ stale' : cache'[m] = api'[m]
        BY <2>2, <4>1, <4>2, TypeFacts, <1>PutKeeps
      <4> QED
        BY <4>2, <4>3, TypeFacts, <1>EnqueuedRuns, Zenon
    <3> QED
      BY <3>1, <3>2, Zenon
  <2> QED
    BY <2>2, <2>3, <2>4, TypeFacts, <1>TypeParts
<1>StepFailsType. ASSUME NEW r \in Reconcilers, StepFails(r) PROVE TypeInv'
  <2> USE <1>StepFailsType
  <2>1. /\ pc[r] \in DOMAIN Steps[r] /\ pc' = [pc EXCEPT ![r] = @ + 1] /\ seen' = seen
        /\ UNCHANGED <<api, cache, stale, queue, uids, scene>>
        /\ failed' = failed \cup {r} /\ budget > 0 /\ budget' = budget - 1
    BY Zenon DEF StepFails
  <2>2. budget' \in 0..MaxDisturb
    BY <2>1, TypeFacts
  <2> QED
    BY <2>1, <2>2, TypeFacts, PcMoves, <1>TypeParts, Zenon
\* A run ends, whether or not its status was written.
<1>FinishType. ASSUME NEW r \in Reconcilers, Finish(r) \/ StatusFails(r)
               PROVE  TypeInv'
  <2> USE <1>FinishType
  <2>1. /\ pc' = [pc EXCEPT ![r] = 0] /\ seen' = [seen EXCEPT ![r] = Absent]
        /\ queue' \subseteq queue \cup {r} /\ failed' = failed \ {r}
        /\ UNCHANGED <<api, cache, stale, uids, scene>>
    BY Zenon DEF Finish, StatusFails
  <2>2. budget' \in 0..MaxDisturb
    BY TypeFacts DEF Finish, StatusFails
  <2>3. /\ pc \in [Reconcilers -> Nat] /\ seen = [q \in Reconcilers |-> seen[q]]
        /\ \A q \in Reconcilers : seen[q] # Absent => ResourceOK(seen[q], MaxUid)
        /\ \A q \in Reconcilers : pc[q] \in 0..Len(Steps[q]) + 1 /\ (pc[q] = 0 <=> seen[q] = Absent)
    BY TypeFacts, Zenon
  <2>4. /\ pc' \in [Reconcilers -> Nat] /\ seen' = [q \in Reconcilers |-> seen'[q]]
        /\ \A q \in Reconcilers : pc'[q] = IF q = r THEN 0 ELSE pc[q]
        /\ \A q \in Reconcilers : seen'[q] = IF q = r THEN Absent ELSE seen[q]
    BY <2>1, <2>3, Zenon
  <2>5. 0 \in 0..Len(Steps[r]) + 1
    BY StepsFacts
  <2>6. \A q \in Reconcilers :
          /\ pc'[q] \in 0..Len(Steps[q]) + 1 /\ (pc'[q] = 0 <=> seen'[q] = Absent)
          /\ seen'[q] # Absent => ResourceOK(seen'[q], MaxUid)
    BY <2>3, <2>4, <2>5
  <2> QED
    BY <2>1, <2>2, <2>4, <2>6, TypeFacts, <1>TypeParts, Zenon
<1>DeliverType. ASSUME NEW o \in stale, Deliver(o) PROVE TypeInv'
  <2> USE <1>DeliverType
  <2>1. /\ stale' = stale \ {o} /\ cache' = [cache EXCEPT ![o] = api[o]]
        /\ queue' = queue \cup Enqueued(o, cache')
        /\ UNCHANGED <<api, pc, seen, failed, uids, budget, scene>>
    BY Zenon DEF Deliver
  <2>2. /\ cache = [m \in Names |-> cache[m]] /\ \A m \in Names : Fits(cache[m], m, MaxUid)
        /\ \A m \in Names : Fits(api[m], m, MaxUid)
    BY TypeFacts, <1>StoreFits, Zenon
  <2>3. /\ cache' = [m \in Names |-> cache'[m]]
        /\ \A m \in Names : cache'[m] = IF m = o THEN api[o] ELSE cache[m]
    BY <2>1, <2>2, Zenon
  <2>4. StoreOK(cache', MaxUid)
    BY <2>2, <2>3, <1>StoreFits, Zenon
  <2>5. \A m \in Names \ stale' : cache'[m] = api'[m]
    BY <2>1, <2>3, TypeFacts
  <2>6. queue' \subseteq Reconcilers
    BY <2>1, TypeFacts, <1>EnqueuedRuns, Zenon
  <2> QED
    BY <2>1, <2>4, <2>5, <2>6, TypeFacts, <1>TypeParts, Zenon
\* A write by anyone, with a request for each reconciler it concerns.
<1>PutType. ASSUME NEW o \in Names, NEW v, Fits(v, o, MaxUid), Put(o, v),
                   queue' = queue \cup Told(o, v), UNCHANGED <<pc, seen, failed, scene>>,
                   uids' \in [Reconcilers -> 1..MaxUid], budget' \in 0..MaxDisturb
            PROVE  TypeInv'
  <2> USE <1>PutType
  <2>1. /\ StoreOK(api', MaxUid) /\ StoreOK(cache', MaxUid)
        /\ \A m \in Names \ stale' : cache'[m] = api'[m]
    BY TypeFacts, <1>PutKeeps
  <2>2. queue' \subseteq Reconcilers
    BY TypeFacts, <1>EnqueuedRuns, Zenon
  <2> QED
    BY <2>1, <2>2, TypeFacts, <1>TypeParts, Zenon
<1>GoneType. ASSUME NEW o \in Names, Collect(o) \/ Vanish(o)
             PROVE  TypeInv'
  <2> USE <1>GoneType
  <2>1. Fits(Absent, o, MaxUid)
    BY Zenon DEF Fits
  <2> QED
    BY <2>1, TypeFacts, <1>PutType, Zenon DEF Collect, Vanish
\* Requests that are made without a change.
<1>AskType. ASSUME RequeueNodeSet \/ Resync PROVE TypeInv'
  <2> USE <1>AskType
  <2>1. /\ UNCHANGED <<api, cache, stale, pc, seen, failed, uids, budget, scene>>
        /\ queue' \subseteq Reconcilers
    BY TypeFacts, Zenon DEF RequeueNodeSet, Resync
  <2> QED
    BY <2>1, TypeFacts, <1>TypeParts, Zenon
<1>UserPutsType. ASSUME NEW o \in Names, NEW v, Fits(v, o, MaxUid), UserPuts(o, v), UNCHANGED scene,
                        uids' \in [Reconcilers -> 1..MaxUid]
                 PROVE  TypeInv'
  <2> USE <1>UserPutsType
  <2>1. budget' \in 0..MaxDisturb
    BY TypeFacts DEF UserPuts
  <2> QED
    BY <2>1, <1>PutType, Zenon DEF UserPuts
<1>EditType. ASSUME NEW r \in Reconcilers, EditResource(r) PROVE TypeInv'
  <2> USE <1>EditType
  <2>1. r \in Names /\ r \notin Objects
    BY NamesDisjoint DEF Names
  <2>2. PICK s \in Specs[r] :
          IF api[r] = Absent
          THEN /\ uids[r] < MaxUid
               /\ uids' = [uids EXCEPT ![r] = @ + 1]
               /\ UserPuts(r, [uid |-> uids[r] + 1, spec |-> s, deleting |-> FALSE])
          ELSE UserPuts(r, [api[r] EXCEPT !.spec = s]) /\ UNCHANGED uids
    BY Zenon DEF EditResource
  <2>3. UNCHANGED scene
    BY DEF EditResource
  <2>4. CASE api[r] = Absent
    <3>1. uids[r] \in 1..MaxUid /\ uids[r] < MaxUid /\ uids \in [Reconcilers -> 1..MaxUid]
      BY <2>2, <2>4, TypeFacts, Zenon
    <3>2. uids[r] + 1 \in 1..MaxUid
      BY <3>1, TypeFacts
    <3>3. uids' \in [Reconcilers -> 1..MaxUid]
      BY <2>2, <2>4, <3>1, <3>2, Zenon
    <3>4. Fits([uid |-> uids[r] + 1, spec |-> s, deleting |-> FALSE], r, MaxUid)
      BY <2>1, <3>2, Zenon DEF Fits, ResourceOK, IsResource
    <3> QED
      BY <2>1, <2>2, <2>3, <2>4, <3>3, <3>4, <1>UserPutsType, Zenon
  <2>5. CASE api[r] # Absent
    <3>1. ResourceOK(api[r], MaxUid)
      BY <2>5, TypeFacts DEF StoreOK
    <3> DEFINE v == [api[r] EXCEPT !.spec = s]
    <3>2. IsResource(v) /\ v.uid = api[r].uid /\ v.deleting = api[r].deleting
      BY <3>1, SpecUpdated DEF ResourceOK
    <3>3. Fits(v, r, MaxUid)
      BY <2>1, <3>1, <3>2 DEF Fits, ResourceOK
    <3>4. UserPuts(r, v) /\ UNCHANGED uids
      BY <2>2, <2>5, Zenon
    <3> HIDE DEF v
    <3> QED
      BY <2>1, <2>3, <3>3, <3>4, TypeFacts, <1>UserPutsType, Zenon
  <2> QED
    BY <2>4, <2>5, Zenon
<1>EditUserObjectType. ASSUME NEW o \in UserObjects, EditUserObject(o) PROVE TypeInv'
  <2> USE <1>EditUserObjectType
  <2>1. o \in Names /\ \A v : Fits(v, o, MaxUid)
    BY NamesDisjoint DEF Names, Fits
  <2> QED
    BY <2>1, TypeFacts, <1>UserPutsType, Zenon DEF EditUserObject
<1>OverwriteType. ASSUME NEW o \in Objects, Overwrite(o) PROVE TypeInv'
  <2> USE <1>OverwriteType
  <2>1. o \in Names /\ o \notin Reconcilers
    BY NamesDisjoint DEF Names
  <2>2. PICK d : UserPuts(o, [api[o] EXCEPT !.data = d])
    BY Zenon DEF Overwrite
  <2>3. ObjectOK(api[o], MaxUid)
    BY TypeFacts DEF Overwrite, StoreOK
  <2> DEFINE v == [api[o] EXCEPT !.data = d]
  <2>4. IsObject(v) /\ v.owner = api[o].owner /\ v.deleting = api[o].deleting
    BY <2>3, DataUpdated DEF ObjectOK
  <2>5. Fits(v, o, MaxUid)
    BY <2>1, <2>3, <2>4 DEF Fits, ObjectOK
  <2>6. UserPuts(o, v)
    BY <2>2
  <2> HIDE DEF v
  <2> QED
    BY <2>1, <2>5, <2>6, TypeFacts, <1>UserPutsType, Zenon DEF Overwrite
<1>DeleteType. ASSUME NEW o \in Deletable, Delete(o) PROVE TypeInv'
  <2> USE <1>DeleteType
  <2>1. o \in Names /\ Fits(Absent, o, MaxUid)
    BY TypeFacts DEF Fits
  <2>2. UNCHANGED <<uids, scene>>
    BY Zenon DEF Delete
  <2>3. CASE UserPuts(o, Absent)
    BY <2>1, <2>2, <2>3, TypeFacts, <1>UserPutsType, Zenon
  <2>4. CASE o \notin UserObjects /\ UserPuts(o, [api[o] EXCEPT !.deleting = TRUE])
    <3> DEFINE v == [api[o] EXCEPT !.deleting = TRUE]
    <3>1. api[o] # Absent
      BY DEF Delete
    <3>2. ASSUME o \in Objects PROVE Fits(v, o, MaxUid)
      <4>1. ObjectOK(api[o], MaxUid)
        BY <3>1, <3>2, TypeFacts DEF StoreOK
      <4>2. IsObject(v) /\ v.owner = api[o].owner /\ v.deleting = TRUE
        BY <4>1, DeletingUpdated DEF ObjectOK
      <4> QED
        BY <3>2, <4>1, <4>2, NamesDisjoint, Zenon DEF Fits, ObjectOK
    <3>3. ASSUME o \in Reconcilers PROVE Fits(v, o, MaxUid)
      <4>1. ResourceOK(api[o], MaxUid)
        BY <3>1, <3>3, TypeFacts DEF StoreOK
      <4>2. IsResource(v) /\ v.uid = api[o].uid /\ v.deleting = TRUE
        BY <4>1, MarkUpdated DEF ResourceOK
      <4> QED
        BY <3>3, <4>1, <4>2, NamesDisjoint, Zenon DEF Fits, ResourceOK
    <3> QED
      BY <2>1, <2>2, <2>4, <3>2, <3>3, TypeFacts, <1>UserPutsType, Zenon DEF Names
  <2> QED
    BY <2>3, <2>4, Zenon DEF Delete
<1>RestartType. ASSUME Restart PROVE TypeInv'
  <2> USE <1>RestartType
  <2>1. /\ cache' = api /\ stale' = {} /\ UNCHANGED <<api, uids, scene>>
        /\ queue' \subseteq Reconcilers
        /\ pc' = [r \in Reconcilers |-> 0] /\ seen' = [r \in Reconcilers |-> Absent] /\ failed' = {}
        /\ budget' = budget - 1 /\ budget > 0
    BY TypeFacts DEF Restart
  <2>2. /\ pc' \in [Reconcilers -> Nat] /\ seen' = [r \in Reconcilers |-> seen'[r]]
        /\ \A r \in Reconcilers : pc'[r] = 0 /\ seen'[r] = Absent
    BY <2>1
  <2>3. \A r \in Reconcilers : pc'[r] \in 0..Len(Steps[r]) + 1
    BY <2>2, StepsFacts
  <2>4. budget' \in 0..MaxDisturb
    BY <2>1, TypeFacts
  <2> QED
    BY <2>1, <2>2, <2>3, <2>4, TypeFacts, <1>TypeParts, Zenon
<1> USE TypeFacts
<1>1. CASE \E r \in Running : Reconcile(r) \/ StepFails(r) \/ StatusFails(r)
  BY <1>1, <1>StartType, <1>StepType, <1>StepFailsType, <1>FinishType, Zenon DEF Reconcile
<1>2. CASE RequeueNodeSet \/ Resync
  BY <1>2, <1>AskType, Zenon
<1>3. CASE \E o \in stale : Deliver(o)
  BY <1>3, <1>DeliverType, Zenon
<1>4. CASE (\E o \in Objects : Collect(o)) \/ \E o \in Reconcilers \cup Objects : Vanish(o)
  BY <1>4, <1>GoneType, Zenon DEF Names
<1>5. CASE \E r \in Reconcilers : EditResource(r)
  BY <1>5, <1>EditType, Zenon
<1>6. CASE \E o \in UserObjects : EditUserObject(o)
  BY <1>6, <1>EditUserObjectType, Zenon
<1>7. CASE \E o \in Objects : Overwrite(o)
  BY <1>7, <1>OverwriteType, Zenon
<1>8. CASE \E o \in Deletable : Delete(o)
  BY <1>8, <1>DeleteType, Zenon
<1>9. CASE Restart
  BY <1>9, <1>RestartType, Zenon
<1>10. CASE UNCHANGED vars
  BY <1>10, <1>TypeParts, Zenon DEF vars
<1> QED
  BY <1>1, <1>2, <1>3, <1>4, <1>5, <1>6, <1>7, <1>8, <1>9, <1>10, Zenon DEF Next

\* They hold initially.
LEMMA InitType == ASSUME Init PROVE TypeInv
<1>1. scene \in DOMAIN Scenes /\ cache = api /\ stale = {} /\ failed = {} /\ budget = MaxDisturb
  BY Zenon DEF Init
<1>2. PICK s : api = [n \in Names |->
                   CASE n \in UserObjects -> CHOOSE v \in Versions : TRUE
                     [] n \in Reconcilers /\ s[n] # Absent ->
                          [uid |-> 1, spec |-> s[n], deleting |-> FALSE]
                     [] OTHER -> Absent]
  BY Zenon DEF Init
<1>3. /\ Running \subseteq Reconcilers /\ MaxDisturb \in Nat /\ MaxUid \in Nat /\ 1 \in 1..MaxUid
  BY <1>1, SceneFacts
<1>4. \A o \in Objects : api[o] = Absent
  <2> SUFFICES ASSUME NEW o \in Objects PROVE api[o] = Absent
    OBVIOUS
  <2>1. o \in Names /\ o \notin UserObjects /\ o \notin Reconcilers
    BY NamesDisjoint DEF Names
  <2> QED
    BY <1>2, <2>1, Zenon
<1>5. \A r \in Reconcilers : api[r] # Absent => ResourceOK(api[r], MaxUid)
  <2> SUFFICES ASSUME NEW r \in Reconcilers, api[r] # Absent PROVE ResourceOK(api[r], MaxUid)
    OBVIOUS
  <2>1. r \in Names /\ r \notin UserObjects
    BY NamesDisjoint DEF Names
  <2>2. api[r] = [uid |-> 1, spec |-> s[r], deleting |-> FALSE]
    BY <1>2, <2>1, Zenon
  <2> QED
    BY <1>3, <2>2 DEF ResourceOK, IsResource
<1>6. StoreOK(api, MaxUid)
  <2> DEFINE first(n) == CASE n \in UserObjects -> CHOOSE v \in Versions : TRUE
                           [] n \in Reconcilers /\ s[n] # Absent ->
                                [uid |-> 1, spec |-> s[n], deleting |-> FALSE]
                           [] OTHER -> Absent
  <2>1. api = [n \in Names |-> first(n)]
    BY <1>2
  <2> HIDE DEF first
  <2>2. api = [n \in Names |-> api[n]]
    BY <2>1
  <2> QED
    BY <1>4, <1>5, <2>2 DEF StoreOK
<1>7. /\ pc = [r \in Reconcilers |-> 0] /\ seen = [r \in Reconcilers |-> Absent]
      /\ uids = [r \in Reconcilers |-> 1] /\ queue \subseteq Reconcilers
  BY <1>3, Zenon DEF Init
<1>8. \A r \in Reconcilers : pc[r] \in 0..Len(Steps[r]) + 1 /\ (pc[r] = 0 <=> seen[r] = Absent)
  BY <1>7, StepsFacts
<1>9. TypeOK
  BY <1>1, <1>3, <1>4, <1>7, <1>8 DEF TypeOK
<1> QED
  BY <1>1, <1>3, <1>6, <1>7, <1>9 DEF TypeInv

\* Whatever users, faults, restarts and late events do to the cluster, every
\* object has an owner that exists or existed, the informer caches differ from
\* the API server only where an event is on its way, and a reconcile that runs
\* has read its resource.
THEOREM ClusterTypeCorrect == Spec => []TypeOK
<1>1. Init => TypeInv
  BY InitType
<1>2. TypeInv /\ [Next]_vars => TypeInv'
  BY TypeStep
<1>3. TypeInv => TypeOK
  BY DEF TypeInv
<1> QED
  BY <1>1, <1>2, <1>3, PTL DEF Spec

-----------------------------------------------------------------------------
(* The host keys.                                                          *)

\* The Secret, where it is, is immutable.
KeysIn(k) == k["hostKeys"] # Absent => k["hostKeys"].immutable = TRUE

KeysInv == KeysIn(api) /\ KeysIn(cache)

\* y is what the Secret x may become.
KeepsKeys(x, y) ==
  /\ y # Absent => y.immutable = TRUE
  /\ x # Absent /\ y # Absent => y.data = x.data

KeysKept == KeepsKeys(api["hostKeys"], api'["hostKeys"])

\* No step replaces the keys of a Secret that is there.
LEMMA KeysStep == ASSUME TypeInv, KeysInv, [Next]_vars PROVE KeysInv' /\ KeysKept
<1>PutKeepsKeys. ASSUME KeysInv, NEW o \in Names, NEW v, Put(o, v),
                        o = "hostKeys" => KeepsKeys(api[o], v)
                 PROVE  KeysInv' /\ KeysKept
  <2> USE <1>PutKeepsKeys
  <2>1. api = [m \in Names |-> api[m]] /\ cache = [m \in Names |-> cache[m]]
    BY StoreMaps
  <2>2. /\ api' = [api EXCEPT ![o] = v]
        /\ cache' = cache \/ cache' = [cache EXCEPT ![o] = v]
    BY Zenon DEF Put
  <2>3. CASE o = "hostKeys"
    <3>1. api'[o] = v /\ (cache'[o] = cache[o] \/ cache'[o] = v)
      BY <2>1, <2>2, Zenon
    <3> QED
      BY <2>3, <3>1, Zenon DEF KeysInv, KeysIn, KeysKept, KeepsKeys
  <2>4. CASE o # "hostKeys"
    <3>1. api'["hostKeys"] = api["hostKeys"] /\ cache'["hostKeys"] = cache["hostKeys"]
      BY <2>1, <2>2, <2>4, HostKeysName, Zenon
    <3> QED
      BY <3>1 DEF KeysInv, KeysIn, KeysKept, KeepsKeys
  <2> QED
    BY <2>3, <2>4
\* A step of a reconcile creates the Secret or leaves its keys alone.
<1>ResultKeepsKeys. ASSUME KeysInv, NEW c, NEW drawn,
                           Result("hostKeys", Wanted("hostKeys", c, cache, drawn)) # Failed
                    PROVE  KeepsKeys(api["hostKeys"], Result("hostKeys", Wanted("hostKeys", c, cache, drawn)))
  <2> USE <1>ResultKeepsKeys
  <2> DEFINE want == Wanted("hostKeys", c, cache, drawn)
             old  == cache["hostKeys"]
             live == api["hostKeys"]
  <2>1. want = BuildLoginSshHostKeys(c, drawn)
    BY HostKeysName, Zenon DEF Wanted, LoginSetStep
  <2>2. want.immutable = TRUE
    BY <2>1 DEF BuildLoginSshHostKeys, BuildSecret, OwnedBy
  <2> HIDE DEF want
  <2>3. KeepsKeys(live, live) /\ KeepsKeys(live, Absent) /\ (live = Absent => KeepsKeys(live, want))
    BY <2>2, Zenon DEF KeepsKeys, KeysInv, KeysIn
  <2>4. old # Absent => old.immutable
    BY DEF KeysInv, KeysIn
  <2>5. SyncObject(old, want, live, ShouldUpdate("hostKeys")) # Failed =>
          KeepsKeys(live, SyncObject(old, want, live, ShouldUpdate("hostKeys")))
    <3>1. CASE old = Absent
      BY <2>3, <3>1 DEF SyncObject
    <3>2. CASE old # Absent
      BY <2>3, <2>4, <3>2, Zenon DEF SyncObject
    <3> QED
      BY <3>1, <3>2
  <2>6. DeleteObject(old, live) = live \/ DeleteObject(old, live) = Absent
    BY DEF DeleteObject
  <2>7. \/ Result("hostKeys", want) = live
        \/ Result("hostKeys", want) = DeleteObject(old, live)
        \/ Result("hostKeys", want) = Failed
        \/ Result("hostKeys", want) = SyncObject(old, want, live, ShouldUpdate("hostKeys"))
    BY DEF Result
  <2>8. Result("hostKeys", want) # Failed => KeepsKeys(live, Result("hostKeys", want))
    <3> HIDE DEF old, live
    <3> QED
      BY <2>3, <2>5, <2>6, <2>7
  <2> QED
    BY <2>8 DEF want
<1>StepKeepsKeys. ASSUME KeysInv, NEW r \in Reconcilers, Step(r)
                  PROVE  KeysInv' /\ KeysKept
  <2> USE <1>StepKeepsKeys
  <2>1. PICK o, drawn, y : StepWrites(r, o, drawn, y)
    BY StepParts, Zenon
  <2>2. /\ y = Result(o, Wanted(o, seen[r], cache, drawn)) /\ o \in Names
        /\ (y = Failed /\ UNCHANGED <<api, cache>>) \/ (y # Failed /\ Put(o, y))
    BY <2>1, Zenon DEF StepWrites
  <2>3. CASE y = Failed
    BY <2>2, <2>3 DEF KeysInv, KeysIn, KeysKept, KeepsKeys
  <2>4. CASE y # Failed
    <3>1. o = "hostKeys" => KeepsKeys(api[o], y)
      BY <2>2, <2>4, <1>ResultKeepsKeys, Zenon
    <3> QED
      BY <2>2, <2>4, <3>1, <1>PutKeepsKeys, Zenon
  <2> QED
    BY <2>3, <2>4
\* A user may delete the Secret or mark it as going, and nothing else.
<1>UsersKeepKeys. ASSUME KeysInv,
                         \/ \E r \in Reconcilers : EditResource(r)
                         \/ \E o \in UserObjects : EditUserObject(o)
                         \/ \E o \in Objects : Overwrite(o)
                         \/ \E o \in Deletable : Delete(o)
                  PROVE  KeysInv' /\ KeysKept
  <2> USE <1>UsersKeepKeys
  <2>1. \E o \in Names : \E v : Put(o, v) /\ (o = "hostKeys" => KeepsKeys(api[o], v))
    <3>1. CASE (\E r \in Reconcilers : EditResource(r)) \/ \E o \in UserObjects : EditUserObject(o)
      <4>1. \A o \in Reconcilers \cup UserObjects : o \in Names /\ o # "hostKeys"
        BY HostKeysName, NamesDisjoint DEF Names
      <4>2. \E o \in Reconcilers \cup UserObjects : \E v : Put(o, v)
        BY <3>1, Zenon DEF EditResource, EditUserObject, UserPuts
      <4> QED
        BY <4>1, <4>2, Zenon
    <3>2. CASE \E o \in Objects : Overwrite(o)
      <4>1. PICK o \in Objects : Overwrite(o)
        BY <3>2
      <4>2. PICK v : Put(o, v)
        BY <4>1 DEF Overwrite, UserPuts
      <4>3. api[o] # Absent /\ ~api[o].immutable
        BY <4>1 DEF Overwrite
      <4> QED
        BY <4>2, <4>3, Zenon DEF Names, KeysInv, KeysIn
    <3>3. CASE \E o \in Deletable : Delete(o)
      <4>1. PICK o \in Deletable : Delete(o)
        BY <3>3
      <4>2. o \in Names /\ api[o] # Absent
        BY <4>1, SceneTypes, Zenon DEF Delete
      <4>3. CASE Put(o, Absent)
        BY <4>2, <4>3, Zenon DEF KeepsKeys
      <4>4. CASE Put(o, [api[o] EXCEPT !.deleting = TRUE])
        <5> DEFINE v == [api[o] EXCEPT !.deleting = TRUE]
        <5>1. ASSUME o = "hostKeys" PROVE KeepsKeys(api[o], v)
          <6>1. IsObject(api[o])
            BY <4>2, <5>1, StoreTypes, HostKeysName DEF StoreOK, ObjectOK
          <6>2. v.immutable = api[o].immutable /\ v.data = api[o].data
            BY <6>1, DeletingUpdated
          <6> QED
            BY <4>2, <5>1, <6>2, Zenon DEF KeepsKeys, KeysInv, KeysIn
        <5> HIDE DEF v
        <5>2. Put(o, v)
          BY <4>4 DEF v
        <5> QED
          BY <4>2, <5>1, <5>2
      <4> QED
        BY <4>1, <4>3, <4>4 DEF Delete, UserPuts
    <3> QED
      BY <3>1, <3>2, <3>3, Zenon
  <2> QED
    BY <2>1, <1>PutKeepsKeys, Zenon
<1> USE SceneTypes
<1>1. CASE \E r \in Running : Step(r)
  BY <1>1, <1>StepKeepsKeys, Zenon
<1>2. CASE UNCHANGED <<api, cache>>
  BY <1>2, Zenon DEF KeysInv, KeysIn, KeysKept, KeepsKeys
<1>3. CASE \E o \in stale : Deliver(o)
  <2>1. PICK o \in stale : api' = api /\ cache' = [cache EXCEPT ![o] = api[o]]
    BY <1>3, Zenon DEF Deliver
  <2>2. cache = [m \in Names |-> cache[m]]
    BY StoreMaps
  <2>3. cache'["hostKeys"] = cache["hostKeys"] \/ cache'["hostKeys"] = api["hostKeys"]
    BY <2>1, <2>2, HostKeysName, Zenon
  <2> QED
    BY <2>1, <2>3 DEF KeysInv, KeysIn, KeysKept, KeepsKeys
<1>4. CASE (\E o \in Objects : Collect(o)) \/ \E o \in Reconcilers \cup Objects : Vanish(o)
  <2>1. PICK o \in Names : Put(o, Absent)
    BY <1>4 DEF Collect, Vanish, Names
  <2>2. KeepsKeys(api[o], Absent)
    BY DEF KeepsKeys
  <2> QED
    BY <2>1, <2>2, <1>PutKeepsKeys, Zenon
<1>5. CASE \/ \E r \in Reconcilers : EditResource(r)
           \/ \E o \in UserObjects : EditUserObject(o)
           \/ \E o \in Objects : Overwrite(o)
           \/ \E o \in Deletable : Delete(o)
  BY <1>5, <1>UsersKeepKeys, Zenon
<1>6. CASE Restart
  BY <1>6, Zenon DEF Restart, KeysInv, KeysIn, KeysKept, KeepsKeys
<1>7. (\E r \in Running : Start(r) \/ Finish(r) \/ StepFails(r) \/ StatusFails(r))
        \/ RequeueNodeSet \/ Resync \/ UNCHANGED vars => UNCHANGED <<api, cache>>
  BY Zenon DEF Start, Finish, StepFails, StatusFails, RequeueNodeSet, Resync, vars
<1> QED
  BY <1>1, <1>2, <1>3, <1>4, <1>5, <1>6, <1>7, Zenon DEF Next, Reconcile

\* Every reconcile of a LoginSet draws new host keys, from a cache that may
\* not show the Secret yet; the Secret on the API server keeps the keys it was
\* created with until it is deleted.
THEOREM HostKeysStay == Spec => HostKeysStable
<1> DEFINE Same == api["hostKeys"] # Absent /\ api'["hostKeys"] # Absent =>
                     api'["hostKeys"].data = api["hostKeys"].data
<1>1. Init => TypeInv
  BY InitType
<1>2. Init => KeysInv
  <2> SUFFICES ASSUME Init PROVE KeysInv
    OBVIOUS
  <2>1. api["hostKeys"] = Absent /\ cache = api
    BY HostKeysName, NamesDisjoint, Zenon DEF Init
  <2> QED
    BY <2>1 DEF KeysInv, KeysIn
<1>3. TypeInv /\ [Next]_vars => TypeInv'
  BY TypeStep
<1>4. TypeInv /\ KeysInv /\ [Next]_vars => KeysInv' /\ Same
  BY KeysStep, Zenon DEF KeysKept, KeepsKeys
<1>5. TypeInv /\ KeysInv /\ [Next]_vars => [Same]_vars
  BY <1>4, Zenon
<1> QED
  BY <1>1, <1>2, <1>3, <1>4, <1>5, PTL DEF Spec, HostKeysStable

-----------------------------------------------------------------------------
(* The theorems about the triggers.                                        *)

\* The inductive invariant: the shape of the objects in every scene, and the
\* triggers in the scenes whose inputs are watched.
ClusterInv == TypeInv /\ SoundInv /\ (NoMarker /\ Watched(Scenes[scene]) => TriggerInv)

\* The invariant, by induction.
LEMMA ClusterInvHolds == Spec => []ClusterInv
<1>1. Init => ClusterInv
  BY InitType, InitSound, InitTriggers, Zenon DEF ClusterInv
<1>2. ClusterInv /\ [Next]_vars => ClusterInv'
  <2> SUFFICES ASSUME ClusterInv, [Next]_vars PROVE ClusterInv'
    OBVIOUS
  <2>1. TypeInv' /\ SoundInv'
    BY TypeStep, SoundStep DEF ClusterInv
  <2>2. scene' = scene
    BY Zenon DEF Next, vars, Reconcile, Start, Step, Finish, StepFails, StatusFails,
           RequeueNodeSet, Deliver, Collect, Vanish, Resync, EditResource, EditUserObject, Overwrite, Delete, Restart
  <2>3. ASSUME NoMarker, Watched(Scenes[scene']) PROVE TriggerInv'
    BY <2>2, <2>3, TriggerStep DEF ClusterInv
  <2> QED
    BY <2>1, <2>3 DEF ClusterInv, NoMarker
<1> QED
  BY <1>1, <1>2, PTL DEF Spec

\* Whatever interleaving of reconciles, watch events, garbage collection, user
\* edits, failures and restarts led there: when no request waits and nothing is
\* on its way, every object is what its builder makes of the live inputs.  The
\* handlers of each reconciler (SetupWithManager and its event handlers) lose
\* no trigger, as long as users only delete, and do not edit, the inputs that a
\* builder reads and no handler watches.
THEOREM NoTriggerLost == Spec => [](NoMarker /\ Watched(Scenes[scene]) => QuietIsCurrent)
<1>1. ClusterInv => (NoMarker /\ Watched(Scenes[scene]) => QuietIsCurrent)
  BY QuietCurrent DEF ClusterInv
<1> QED
  BY <1>1, ClusterInvHolds, PTL

\* In a settled cluster every pod template carries the hashes of the keys and
\* the configuration that are live, so that no StatefulSet or Deployment keeps
\* running pods of an older configuration.
THEOREM TemplatesAreCurrent == Spec => [](NoMarker /\ Watched(Scenes[scene]) => TemplatesFollow)
<1>1. ClusterInv => (NoMarker /\ Watched(Scenes[scene]) => TemplatesFollow)
  BY Templates DEF ClusterInv
<1> QED
  BY <1>1, ClusterInvHolds, PTL

\* No container mounts a volume that its pod template lacks, and every object
\* that the template of a settled cluster's workload projects exists.
THEOREM MountsAreThere == Spec => [](NoMarker /\ Watched(Scenes[scene]) => MountsExist)
<1>1. ClusterInv => (NoMarker /\ Watched(Scenes[scene]) => MountsExist)
  BY Mounts DEF ClusterInv
<1> QED
  BY <1>1, ClusterInvHolds, PTL
=============================================================================
