--------------------------- MODULE ClusterObjects ---------------------------
(***************************************************************************)
(* The reconcilers that turn custom resources into Kubernetes objects: the *)
(* Controller, Accounting, RestApi and LoginSet controllers whole, and the *)
(* steps of the NodeSet controller that write objects other than pods (its *)
(* other steps are in NodeSetSync).  Each runs beside the others, reads    *)
(* through a cache that lags behind the API server, and is told of changes *)
(* by event handlers that run when a change reaches the cache.             *)
(*                                                                         *)
(* There is one resource of each kind.  A reconciler builds and writes an  *)
(* object in one step; a change that reaches the cache between the build   *)
(* and the write is covered by the cache lagging until after the step.     *)
(***************************************************************************)
EXTENDS Builders, Naturals, Sequences, FiniteSets

CONSTANTS
  Skip,         \* a step leaves its object alone
  Remove,       \* a step deletes its object
  Versions,     \* the contents users give the objects they keep themselves
  Drift,        \* what is in an object someone else has changed
  Scenes        \* by name, the resources and disturbances to check together

Reconcilers == {"controller", "accounting", "restapi", "loginset", "nodeset"}

UserObjects == {"slurmKey", "jwtKey", "storagePassword", "sssd", "files", "stateClaim"}

\* The objects each reconciler writes, in the order of its steps.
ControllerSync == <<"ctlService", "ctlConfig", "ctlSet", "ctlMonitor">>
AccountingSync == <<"accService", "accConfig", "accSet">>
RestApiSync == <<"restService", "restDeployment">>
LoginSetSync == <<"hostKeys", "sshConfig", "loginService", "loginDeployment">>
NodeSetObjects == <<"workerService", "workerPDB", "workerSsh">>

Steps ==
  [controller |-> ControllerSync, accounting |-> AccountingSync, restapi |-> RestApiSync,
   loginset |-> LoginSetSync, nodeset |-> NodeSetObjects]

Written(r) == {Steps[r][i] : i \in DOMAIN Steps[r]}
Objects    == UNION {Written(r) : r \in Reconcilers}
Names      == Reconcilers \cup UserObjects \cup Objects
Owner(o)   == CHOOSE r \in Reconcilers : o \in Written(r)
Workloads  == {"ctlSet", "accSet", "restDeployment", "loginDeployment"}

ASSUME ClusterObjectsAssumption ==
  \A n \in DOMAIN Scenes :
    LET s == Scenes[n] IN
    /\ DOMAIN s.specs = Reconcilers /\ s.running \subseteq Reconcilers
    /\ s.editable \subseteq Names /\ s.deletable \subseteq Names /\ s.lagging \subseteq Names
    /\ s.resyncs \in BOOLEAN /\ s.disturb \in Nat /\ s.uids \in Nat \ {0}
    /\ \A c \in s.specs["controller"] :
         c.files \subseteq {"files"} /\ c.persist \in {"existing", "template", "none"}

ASSUME MarkersAssumption == Absent # Failed /\ Skip \notin {Absent, Failed, Remove}
                            /\ Remove \notin {Absent, Failed}

VARIABLES
  api,      \* the objects in the API server
  cache,    \* the objects the operator's client reads
  stale,    \* the objects with events that have not reached the cache
  queue,    \* the reconcilers that have a request waiting
  pc,       \* the step a reconciler is at, 0 when it is idle
  seen,     \* the resource a running reconciler has read
  failed,   \* the reconcilers with a failed step in this run
  uids,     \* how often each resource was created
  budget,   \* how many disturbances are left
  scene     \* which of the scenes this behaviour is in, for good

vars == <<api, cache, stale, queue, pc, seen, failed, uids, budget, scene>>

Specs      == Scenes[scene].specs       \* for every resource, the specs users give it
Running    == Scenes[scene].running     \* the reconcilers that run
DrawnKeys  == Scenes[scene].drawn       \* the host keys a build can draw
Editable   == Scenes[scene].editable    \* the resources and objects users create and change
Deletable  == Scenes[scene].deletable   \* the objects of any kind users delete
Lagging    == Scenes[scene].lagging     \* the objects whose changes reach the cache late
Resyncs    == Scenes[scene].resyncs     \* whether the ten-hourly resync happens
MaxDisturb == Scenes[scene].disturb     \* bound: how often users and faults interfere
MaxUid     == Scenes[scene].uids        \* bound: how often a resource is created

Managed == UNION {Written(r) : r \in Running}

\* In a watched scene nothing changes that a build reads and no handler watches,
\* except that users may delete it, and whoever runs RestApis runs their Controller.
Watched(s) ==
  /\ {"files", "storagePassword"} \cap s.editable = {}
  /\ "ctlMonitor" \notin s.editable \cup s.deletable \cup s.lagging
  /\ "restapi" \in s.running => "controller" \in s.running

-----------------------------------------------------------------------------
(* The steps: what each wants its object to be, from the resource c it     *)
(* works for and the cache k.                                              *)

ControllerStep(o, c, k) ==
  CASE o = "ctlService" -> IF c.spec.external THEN Skip ELSE BuildControllerService(c)
    [] o = "ctlConfig"  -> IF c.spec.external THEN BuildControllerConfigExternal(c, k)
                                              ELSE BuildControllerConfig(c, k)
    [] o = "ctlSet"     -> IF c.spec.external THEN Skip ELSE BuildController(c, k)
    [] o = "ctlMonitor" -> IF c.spec.monitor THEN BuildControllerServiceMonitor(c) ELSE Remove

AccountingStep(o, c, k) ==
  IF c.spec.external THEN Skip
  ELSE CASE o = "accService" -> BuildAccountingService(c)
         [] o = "accConfig"  -> BuildAccountingConfig(c, k)
         [] o = "accSet"     -> BuildAccounting(c, k)

RestApiStep(o, c, k) ==
  CASE o = "restService"    -> BuildRestapiService(c)
    [] o = "restDeployment" -> BuildRestapi(c, k)

LoginSetStep(o, c, k, drawn) ==
  CASE o = "hostKeys"        -> BuildLoginSshHostKeys(c, drawn)
    [] o = "sshConfig"       -> BuildLoginSshConfig(c)
    [] o = "loginService"    -> BuildLoginService(c)
    [] o = "loginDeployment" -> BuildLogin(c, k)

\* The live Service or budget replaces the one just built, and then gets the
\* NodeSets of the cluster as its owners.
SetOwnerReferences(built, c, live) ==
  IF live = Absent THEN built ELSE [live EXCEPT !.owner = c.uid]

syncClusterWorkerService(c, k) ==
  SetOwnerReferences(BuildClusterWorkerService(c), c, k["workerService"])

syncClusterWorkerPDB(c, k) ==
  SetOwnerReferences(BuildClusterWorkerPodDisruptionBudget(c), c, k["workerPDB"])

syncSshConfig(c) == IF c.spec.ssh THEN BuildWorkerSshConfig(c) ELSE Skip

NodeSetStep(o, c, k) ==
  CASE o = "workerService" -> syncClusterWorkerService(c, k)
    [] o = "workerPDB"     -> syncClusterWorkerPDB(c, k)
    [] o = "workerSsh"     -> syncSshConfig(c)

Wanted(o, c, k, drawn) ==
  CASE Owner(o) = "controller" -> ControllerStep(o, c, k)
    [] Owner(o) = "accounting" -> AccountingStep(o, c, k)
    [] Owner(o) = "restapi"    -> RestApiStep(o, c, k)
    [] Owner(o) = "loginset"   -> LoginSetStep(o, c, k, drawn)
    [] Owner(o) = "nodeset"    -> NodeSetStep(o, c, k)

\* The one step that only creates: SyncObject with shouldUpdate = false.
ShouldUpdate(o) == o # "ctlService"

-----------------------------------------------------------------------------
(* internal/utils/objectutils                                              *)

Gone(c) == IF c = Absent THEN TRUE ELSE c.deleting

\* A merge patch sets the entries in which the new object differs from the
\* cached one and drops those the new object no longer has, whatever the API
\* server holds by now.
MergePatch(old, new, live) ==
  LET set  == {f \in DOMAIN new.data : ~(f \in DOMAIN old.data /\ old.data[f] = new.data[f])}
      drop == DOMAIN old.data \ DOMAIN new.data
  IN  [live EXCEPT !.owner = IF old.owner = new.owner THEN @ ELSE new.owner,
                   !.data  = [f \in set \cup (DOMAIN live.data \ drop) |->
                                IF f \in set THEN new.data[f] ELSE live.data[f]]]

\* What the API server holds after SyncObject, or Failed.  An object that is
\* not in the cache yet is created again, which the server refuses.
SyncObject(old, new, live, shouldUpdate) ==
  CASE old = Absent /\ live = Absent                      -> new
    [] old = Absent /\ live # Absent                      -> Failed
    [] old # Absent /\ (old.deleting \/ ~shouldUpdate \/ old.immutable) -> live
    [] OTHER -> IF live = Absent THEN Failed ELSE MergePatch(old, new, live)

\* Faulty: the object is left where it is.
DeleteObjectKept(old, live) == live

\* What it holds after DeleteObject.
DeleteObject(old, live) == IF Gone(old) THEN live ELSE Absent
-----------------------------------------------------------------------------
(* internal/utils/refresolver and the event handlers: whom a change of o   *)
(* concerns, once the cache is k.                                          *)

GetNodeSetsForController(k)    == {"nodeset"} \cap {r \in Reconcilers : Present(k, r)}
GetLoginSetsForController(k)   == {"loginset"} \cap {r \in Reconcilers : Present(k, r)}
GetRestapisForController(k)    == {"restapi"} \cap {r \in Reconcilers : Present(k, r)}
GetControllersForAccounting(k) == {"controller"} \cap {r \in Reconcilers : Present(k, r)}
GetController(k)               == {"controller"} \cap {r \in Reconcilers : Present(k, r)}

AuthKeys == {"slurmKey", "jwtKey"}

controllerOnNodeSet(k) == GetController(k)
controllerOnAccounting(k) == GetControllersForAccounting(k)
controllerOnSecret(o, k) == IF o \in AuthKeys THEN GetController(k) ELSE {}

\* The reconciler owns its StatefulSet, Service, ConfigMap and Secrets, and
\* not its ServiceMonitor.
controllerWatches(o, k) ==
  CASE o \in {"controller", "ctlService", "ctlConfig", "ctlSet"} -> {"controller"}
    [] o = "nodeset"       -> controllerOnNodeSet(k)
    [] o = "accounting"    -> controllerOnAccounting(k)
    [] o \in UserObjects   -> controllerOnSecret(o, k)
    [] OTHER               -> {}

accountingOnSecret(o, k) ==
  IF o \in AuthKeys /\ Present(k, "accounting") THEN {"accounting"} ELSE {}

accountingWatches(o, k) ==
  CASE o \in {"accounting"} \cup Written("accounting") -> {"accounting"}
    [] o \in UserObjects -> accountingOnSecret(o, k)
    [] OTHER             -> {}

restapiOnController(k) == GetRestapisForController(k)
restapiOnSecret(o, k)  ==
  IF o \in AuthKeys /\ Present(k, "controller") THEN GetRestapisForController(k) ELSE {}

restapiWatches(o, k) ==
  CASE o \in {"restapi"} \cup Written("restapi") -> {"restapi"}
    [] o = "controller"  -> restapiOnController(k)
    [] o \in UserObjects -> restapiOnSecret(o, k)
    [] OTHER             -> {}

loginsetOnController(k) == GetLoginSetsForController(k)
loginsetOnSecret(o, k)  ==
  IF o = "sssd" \/ (o \in AuthKeys /\ Present(k, "controller"))
  THEN GetLoginSetsForController(k) ELSE {}

loginsetWatches(o, k) ==
  CASE o \in {"loginset"} \cup Written("loginset") -> {"loginset"}
    [] o = "controller"  -> loginsetOnController(k)
    [] o \in UserObjects -> loginsetOnSecret(o, k)
    [] OTHER             -> {}

nodesetOnController(k) == GetNodeSetsForController(k)
nodesetOnSecret(o, k)  ==
  IF o \in AuthKeys /\ Present(k, "controller") THEN GetNodeSetsForController(k) ELSE {}

\* No NodeSet is the controller of the shared Service and budget, and the
\* ConfigMap is not among the kinds the reconciler owns.
nodesetWatches(o, k) ==
  CASE o = "nodeset"     -> {"nodeset"}
    [] o = "controller"  -> nodesetOnController(k)
    [] o \in UserObjects -> nodesetOnSecret(o, k)
    [] OTHER             -> {}

Enqueued(o, k) ==
  Running \cap (controllerWatches(o, k) \cup accountingWatches(o, k) \cup restapiWatches(o, k)
                  \cup loginsetWatches(o, k) \cup nodesetWatches(o, k))

\* A write to the API server, and the events of one that is in the cache, and
\* handled, at once.
Put(o, v) ==
  /\ api' = [api EXCEPT ![o] = v]
  /\ IF v = api[o] \/ o \in Lagging
     THEN /\ cache' = cache
          /\ stale' = IF v = api[o] THEN stale ELSE stale \cup {o}
     ELSE /\ cache' = [cache EXCEPT ![o] = v]
          /\ stale' = stale

Told(o, v) == IF o \in Lagging \/ v = api[o] THEN {} ELSE Enqueued(o, [cache EXCEPT ![o] = v])

-----------------------------------------------------------------------------
(* A reconcile.                                                            *)

\* Sync reads the resource; one that is gone or going needs nothing.  A
\* LoginSet whose Controller is missing ends in an error, so its request
\* stays in the queue and is tried again.
Start(r) ==
  /\ r \in queue /\ pc[r] = 0
  /\ \/ /\ Gone(cache[r])
        /\ UNCHANGED <<pc, seen, failed>>
     \/ /\ ~Gone(cache[r])
        /\ r = "loginset" => Present(cache, "controller")
        /\ pc' = [pc EXCEPT ![r] = 1]
        /\ seen' = [seen EXCEPT ![r] = cache[r]]
        /\ failed' = failed \ {r}
  /\ queue' = queue \ {r}
  /\ UNCHANGED <<api, cache, stale, uids, budget, scene>>

\* What the API server holds under o after a step that wants it to be want.
Result(o, want) ==
  CASE want = Skip   -> api[o]
    [] want = Remove -> DeleteObject(cache[o], api[o])
    [] want = Failed -> Failed
    [] OTHER -> SyncObject(cache[o], want, api[o], ShouldUpdate(o))

\* One step of syncsteps: a failed step does not stop the ones after it.
Step(r) ==
  /\ pc[r] \in DOMAIN Steps[r]
  /\ pc' = [pc EXCEPT ![r] = @ + 1]
  /\ LET o == Steps[r][pc[r]] IN
     \E drawn \in DrawnKeys :
     \E want \in {Wanted(o, seen[r], cache, drawn)} :
     \E result \in {Result(o, want)} :
       IF result = Failed
       THEN /\ failed' = failed \cup {r}
            /\ UNCHANGED <<api, cache, stale, queue>>
       ELSE /\ Put(o, result)
            /\ queue' = queue \cup Told(o, result)
            /\ UNCHANGED failed
  /\ UNCHANGED <<seen, uids, budget, scene>>

\* The API server refuses or loses a write.
StepFails(r) ==
  /\ budget > 0
  /\ pc[r] \in DOMAIN Steps[r]
  /\ pc' = [pc EXCEPT ![r] = @ + 1]
  /\ failed' = failed \cup {r}
  /\ budget' = budget - 1
  /\ UNCHANGED <<api, cache, stale, queue, seen, uids, scene>>

\* The status of a LoginSet counts the replicas of its Deployment and is an
\* error while that is not in the cache.
syncStatus(r) == r = "loginset" => Present(cache, "loginDeployment")

\* The status cannot be written: the request is put back.
StatusFails(r) ==
  /\ budget > 0 /\ budget' = budget - 1
  /\ pc[r] = Len(Steps[r]) + 1
  /\ pc' = [pc EXCEPT ![r] = 0]
  /\ seen' = [seen EXCEPT ![r] = Absent]
  /\ queue' = queue \cup {r}
  /\ failed' = failed \ {r}
  /\ UNCHANGED <<api, cache, stale, uids, scene>>

\* Faulty: an error in a step is forgotten when the status could be written.
FinishForgets(r) ==
  /\ pc[r] = Len(Steps[r]) + 1
  /\ pc' = [pc EXCEPT ![r] = 0]
  /\ seen' = [seen EXCEPT ![r] = Absent]
  /\ queue' = IF ~syncStatus(r) THEN queue \cup {r} ELSE queue
  /\ failed' = failed \ {r}
  /\ UNCHANGED <<api, cache, stale, uids, budget, scene>>

\* Faulty: the status is not written when a step has failed.
FinishEarly(r) ==
  /\ pc[r] = Len(Steps[r]) + 1 \/ r \in failed
  /\ pc' = [pc EXCEPT ![r] = IF r \in failed THEN Len(Steps[r]) + 2 ELSE 0]
  /\ seen' = [seen EXCEPT ![r] = Absent]
  /\ queue' = queue \cup {r}
  /\ failed' = failed \ {r}
  /\ UNCHANGED <<api, cache, stale, uids, budget, scene>>

\* syncStatus runs after the steps whatever came of them; an error of either
\* puts the request back.
Finish(r) ==
  /\ pc[r] = Len(Steps[r]) + 1
  /\ pc' = [pc EXCEPT ![r] = 0]
  /\ seen' = [seen EXCEPT ![r] = Absent]
  /\ queue' = IF r \in failed \/ ~syncStatus(r) THEN queue \cup {r} ELSE queue
  /\ failed' = failed \ {r}
  /\ UNCHANGED <<api, cache, stale, uids, budget, scene>>

Reconcile(r) == Start(r) \/ Step(r) \/ Finish(r)

\* A NodeSet asks to be reconciled again after 30 seconds.
RequeueNodeSet ==
  /\ "nodeset" \in Running /\ pc["nodeset"] = 0 /\ Present(cache, "nodeset") /\ "nodeset" \notin queue
  /\ queue' = queue \cup {"nodeset"}
  /\ UNCHANGED <<api, cache, stale, pc, seen, failed, uids, budget, scene>>

-----------------------------------------------------------------------------
(* The API server, its garbage collector and its watches.                  *)

Deliver(o) ==
  /\ o \in stale
  /\ stale' = stale \ {o}
  /\ cache' = [cache EXCEPT ![o] = api[o]]
  /\ queue' = queue \cup Enqueued(o, cache')
  /\ UNCHANGED <<api, pc, seen, failed, uids, budget, scene>>

Live(r, uid) == api[r] # Absent /\ api[r].uid = uid /\ ~api[r].deleting

Garbage(o) == o \in Objects /\ api[o] # Absent /\ ~Live(Owner(o), api[o].owner)

Going(o) ==
  /\ o \in Reconcilers \cup Objects
  /\ api[o] # Absent /\ api[o].deleting
  /\ o \in Reconcilers => \A w \in Written(o) : api[w] = Absent

\* Objects go when their owner has gone or is going.
Collect(o) ==
  /\ Garbage(o)
  /\ Put(o, Absent)
  /\ queue' = queue \cup Told(o, Absent)
  /\ UNCHANGED <<pc, seen, failed, uids, budget, scene>>

\* An object that is being deleted goes once nothing it owns is left.
Vanish(o) ==
  /\ Going(o)
  /\ Put(o, Absent)
  /\ queue' = queue \cup Told(o, Absent)
  /\ UNCHANGED <<pc, seen, failed, uids, budget, scene>>

\* The resync of the informers repeats the events of everything.
Quiet == queue \subseteq {"nodeset"} /\ stale = {} /\ \A r \in Reconcilers \ {"nodeset"} : pc[r] = 0

Resync ==
  /\ Resyncs /\ Quiet
  /\ queue' = queue \cup {r \in Running : Present(cache, r)}
  /\ UNCHANGED <<api, cache, stale, pc, seen, failed, uids, budget, scene>>

-----------------------------------------------------------------------------
(* Users, and a restart of the operator.                                   *)

UserPuts(o, v) ==
  /\ v # api[o]
  /\ Put(o, v)
  /\ queue' = queue \cup Told(o, v)
  /\ budget > 0 /\ budget' = budget - 1
  /\ UNCHANGED <<pc, seen, failed>>

EditResource(r) ==
  /\ r \in Editable
  /\ \E s \in Specs[r] :
       IF api[r] = Absent
       THEN /\ uids[r] < MaxUid
            /\ uids' = [uids EXCEPT ![r] = @ + 1]
            /\ UserPuts(r, [uid |-> uids[r] + 1, spec |-> s, deleting |-> FALSE])
       ELSE UserPuts(r, [api[r] EXCEPT !.spec = s]) /\ UNCHANGED uids
  /\ UNCHANGED scene

EditUserObject(o) ==
  /\ o \in Editable
  /\ \E v \in Versions : UserPuts(o, v)
  /\ UNCHANGED <<uids, scene>>

\* Someone else overwrites an object of the operator.
Overwrite(o) ==
  /\ o \in Editable
  /\ api[o] # Absent /\ ~api[o].immutable
  /\ UserPuts(o, [api[o] EXCEPT !.data = [f \in DOMAIN @ |-> Drift]])
  /\ UNCHANGED <<uids, scene>>

\* In the foreground the object stays, marked, until what it owns has gone.
Delete(o) ==
  /\ api[o] # Absent
  /\ \/ UserPuts(o, Absent)
     \/ o \notin UserObjects /\ UserPuts(o, [api[o] EXCEPT !.deleting = TRUE])
  /\ UNCHANGED <<uids, scene>>

\* A new process lists everything before it starts to reconcile.
Restart ==
  /\ budget > 0 /\ budget' = budget - 1
  /\ cache' = api /\ stale' = {}
  /\ queue' = {r \in Running : Present(api, r)}
  /\ pc' = [r \in Reconcilers |-> 0]
  /\ seen' = [r \in Reconcilers |-> Absent]
  /\ failed' = {}
  /\ UNCHANGED <<api, uids, scene>>

-----------------------------------------------------------------------------
Init ==
  /\ scene \in DOMAIN Scenes
  /\ \E s \in [Reconcilers -> UNION {Specs[r] : r \in Reconcilers} \cup {Absent}] :
       /\ \A r \in Reconcilers : IF Specs[r] = {} THEN s[r] = Absent ELSE s[r] \in Specs[r]
       /\ api = [n \in Names |->
                   CASE n \in UserObjects -> CHOOSE v \in Versions : TRUE
                     [] n \in Reconcilers /\ s[n] # Absent ->
                          [uid |-> 1, spec |-> s[n], deleting |-> FALSE]
                     [] OTHER -> Absent]
  /\ cache = api /\ stale = {}
  /\ queue = {r \in Running : Present(api, r)}
  /\ pc = [r \in Reconcilers |-> 0]
  /\ seen = [r \in Reconcilers |-> Absent]
  /\ failed = {}
  /\ uids = [r \in Reconcilers |-> 1]
  /\ budget = MaxDisturb

Next ==
  \/ \E r \in Running : Reconcile(r) \/ StepFails(r) \/ StatusFails(r)
  \/ RequeueNodeSet
  \/ \E o \in stale : Deliver(o)
  \/ \E o \in Objects : Collect(o)
  \/ \E o \in Reconcilers \cup Objects : Vanish(o)
  \/ Resync
  \/ \E r \in Reconcilers : EditResource(r)
  \/ \E o \in UserObjects : EditUserObject(o)
  \/ \E o \in Objects : Overwrite(o)
  \/ \E o \in Deletable : Delete(o)
  \/ Restart

Spec == Init /\ [][Next]_vars

\* The work queue hands out every request, every watch delivers, and the
\* garbage collector, the 30-second requeue and the resync take their turns.
FairSpec ==
  /\ Spec
  /\ \A r \in Reconcilers : WF_vars(r \in Running /\ Reconcile(r))
  /\ WF_vars(\E o \in stale : Deliver(o))
  /\ WF_vars(\E o \in Names : Collect(o) \/ Vanish(o))
  /\ WF_vars(RequeueNodeSet) /\ WF_vars(Resync)

-----------------------------------------------------------------------------
\* Every object is of its kind, the cache differs from the API server only in
\* objects with events on their way, and a running reconciler has a resource.
TypeOK ==
  /\ \A n \in Objects : api[n] # Absent => api[n].owner \in 1..MaxUid /\ api[n].deleting \in BOOLEAN
  /\ \A n \in Names \ stale : cache[n] = api[n]
  /\ queue \subseteq Reconcilers /\ failed \subseteq Reconcilers
  /\ \A r \in Reconcilers : pc[r] \in 0..Len(Steps[r]) + 1 /\ (pc[r] = 0 <=> seen[r] = Absent)
  /\ budget \in 0..MaxDisturb

\* The object is what its resource and the objects it is built from call for.
UpToDate(o) ==
  LET c == api[Owner(o)] IN
  IF Gone(c)
  THEN api[o] = Absent
  ELSE LET want == Wanted(o, c, api, CHOOSE d \in DrawnKeys : TRUE) IN
       CASE want \in {Skip, Failed} -> TRUE
         [] want = Remove           -> api[o] = Absent
         [] Owner(o) = "loginset" /\ ~Present(api, "controller") -> TRUE
         [] OTHER -> /\ api[o] # Absent /\ ~api[o].deleting /\ api[o].owner = c.uid
                     /\ (ShouldUpdate(o) /\ ~want.immutable) => api[o].data = want.data

Settled == Quiet /\ \A o \in Names : ~Garbage(o) /\ ~Going(o)

Current == \A o \in Managed : UpToDate(o)

\* No trigger is lost: when no request waits, no reconcile runs, nothing is
\* on its way to the cache or to the garbage collector, every object is what
\* its inputs call for.  An input whose change a builder reads and no handler
\* watches, or an event handled before the cache shows it, would break this.
QuietIsCurrent ==
  Settled => \A o \in Managed \ Written("nodeset") : UpToDate(o)

\* The containers of a pod mount volumes of its template.
MountsVolumes(pod) ==
  Drift \notin {pod.volumes, pod.mounts} => pod.mounts \subseteq DOMAIN pod.volumes

\* What a workload mounts is there: no pod of a settled cluster waits for an
\* object that nobody writes, and no container mounts a volume its template
\* does not have, whatever the options of the resources involved.  (Nothing
\* keeps the StatefulSet that an Accounting leaves behind when it becomes
\* external.)
MountsExist ==
  /\ \A w \in Workloads : api[w] # Absent =>
       LET pod == api[w].data IN
       /\ MountsVolumes(pod)
       /\ (Settled /\ pod.volumes # Drift /\ ~(w = "accSet" /\ api["accounting"].spec.external)) =>
            \A v \in DOMAIN pod.volumes : \A n \in pod.volumes[v] \ UserObjects : api[n] # Absent
  /\ ("nodeset" \in Running /\ Present(api, "controller") /\ ~Gone(api["nodeset"])) =>
       MountsVolumes(BuildWorkerPodTemplate(api["nodeset"], api))

\* The pods of a settled cluster are those of its present configuration: each
\* template carries the hashes of what the pods read at their start, so that
\* a change replaces them (the slurm.conf of a Controller that reconfigures
\* in place excepted).
TemplatesFollow ==
  Settled =>
    /\ \A w \in {"ctlSet", "accSet"} \cap Managed :
         (api[w] # Absent /\ ~api[Owner(w)].spec.external) =>
           LET pod == api[w].data IN
           /\ pod.slurmKey = api["slurmKey"] /\ pod.jwtKey = api["jwtKey"]
           /\ w = "accSet" => pod.config = DataOf(api, "accConfig")
           /\ (w = "ctlSet" /\ ~api["controller"].spec.inplace) =>
                pod.config = DataOf(api, "ctlConfig")
    /\ ("loginset" \in Running /\ api["loginDeployment"] # Absent) =>
         LET pod == api["loginDeployment"].data IN
         /\ pod.hostKeys = DataOf(api, "hostKeys") /\ pod.sssd = api["sssd"]
         /\ pod.sshd = api["loginset"].spec.sshd

\* Host keys stay what they are for as long as their Secret exists, though
\* every reconcile builds the Secret with new ones.
HostKeysStable ==
  [][api["hostKeys"] # Absent /\ api'["hostKeys"] # Absent =>
       api'["hostKeys"].data = api["hostKeys"].data]_vars

\* Once users and faults leave the cluster alone, every object becomes what
\* its inputs call for and stays so: whatever the handlers do not watch, the
\* resync and the requeue of NodeSets repair.
Converges == <>[]Current

\* The password of the database reaches slurmdbd, though no handler watches
\* the Secret it is in: the next resync writes it into slurmdbd.conf, and the
\* hash of that file into the StatefulSet.
PasswordArrives ==
  "accounting" \in Running =>
  <>[](/\ api["accConfig"] # Absent /\ api["accSet"] # Absent
       /\ api["accConfig"].data.conf[2] = api["storagePassword"]
       /\ api["accSet"].data.config = api["accConfig"].data)
=============================================================================
