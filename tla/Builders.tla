------------------------------ MODULE Builders ------------------------------
(***************************************************************************)
(* What internal/builder puts into the objects the operator writes.  Every *)
(* builder reads other objects through the cached client; here it is an    *)
(* operator of that cache k (a function from object names to objects, with *)
(* Absent for a NotFound) and of the custom resource c it builds for.      *)
(*                                                                         *)
(* An object is [owner, deleting, immutable, data].  Its data has one      *)
(* entry per part of the object that a merge patch can set on its own, and *)
(* each entry is what that part is computed from.  A pod template carries  *)
(* its volumes (with the objects each one projects), the volumes its       *)
(* containers mount, and one entry per hash annotation.                    *)
(***************************************************************************)
CONSTANTS Absent,     \* what a Get that ends in NotFound returns
          Failed      \* what a builder that returns an error returns

Present(k, n) == k[n] # Absent
DataOf(k, n)  == IF k[n] = Absent THEN Absent ELSE k[n].data

\* The entries of f, and those of g under other names.
Joined(f, g) == [e \in DOMAIN f \cup DOMAIN g |-> IF e \in DOMAIN f THEN f[e] ELSE g[e]]

-----------------------------------------------------------------------------
(* internal/builder/common                                                 *)

OwnedBy(c, imm, data) ==
  [owner |-> c.uid, deleting |-> FALSE, immutable |-> imm, data |-> data]

BuildConfigMap(c, data) == OwnedBy(c, FALSE, data)

BuildSecret(c, imm, data) == OwnedBy(c, imm, data)

\* Two ports of one name or number are an error; a clash is a user's port
\* that has the name or the number of the operator's own.
validateServicePorts(clash) == ~clash

BuildService(c, clash, data) ==
  IF validateServicePorts(clash) THEN OwnedBy(c, FALSE, data) ELSE Failed

BuildPodDisruptionBudget(c, data) == OwnedBy(c, FALSE, data)

\* The containers and init containers are merged into one list, so a pod
\* mounts what any of them mounts.
BuildPodTemplate(spec, volumes, containers, hashes) ==
  Joined([spec |-> spec, volumes |-> volumes, mounts |-> UNION containers], hashes)

LogFileVolume  == [log |-> {}]
PidfileVolume  == [pid |-> {}]
EtcSlurmVolume == [etc |-> {}]

LogfileContainer  == {"log"}
InitconfContainer == {"etc", "config"}

\* slurmd and sackd fetch their configuration from slurmctld, at the address
\* of its Service or at the one an external Controller names.
ConfiglessArgs(c) ==
  IF c.spec.external THEN <<"external", c.spec.rev>> ELSE <<"service">>

-----------------------------------------------------------------------------
(* internal/builder/controllerbuilder                                      *)

BuildControllerService(c) == BuildService(c, c.spec.clash, [spec |-> c.spec])

\* The ConfigMaps users keep configuration files and scripts in: one that is
\* missing fails the build, a missing Accounting does not.  What such a
\* ConfigMap gives slurm.conf is the names of its files and whether it turns
\* cgroups off; two versions of it stand for two that differ in that.
BuildControllerConfig(c, k) ==
  IF \E n \in c.spec.files : ~Present(k, n)
  THEN Failed
  ELSE BuildConfigMap(c,
         [conf |-> <<c.spec, Present(k, "accounting"),
                     IF Present(k, "nodeset") THEN k["nodeset"].spec ELSE Absent,
                     [n \in c.spec.files |-> k[n]]>>])

BuildControllerConfigExternal(c, k) ==
  BuildConfigMap(c, [conf |-> <<c.spec, Present(k, "accounting")>>])

getAuthHashes(k) == [slurmKey |-> k["slurmKey"], jwtKey |-> k["jwtKey"]]

\* Faulty: the configuration is not hashed into the template.
getHashesAuthOnly(k) == Joined(getAuthHashes(k), [config |-> Absent])

getHashes(k) == Joined(getAuthHashes(k), [config |-> DataOf(k, "ctlConfig")])

controllerVolumes(c) ==
  Joined([etc |-> {"ctlConfig", "slurmKey", "jwtKey"} \cup c.spec.files, authsocket |-> {}],
         Joined(LogFileVolume, PidfileVolume))

slurmctldContainer == {"etc", "pid", "statesave", "authsocket", "log"}

reconfigureContainer == {"etc", "authsocket"}

controllerPodTemplate(c, k, extraVolumes) ==
  BuildPodTemplate(c.spec, Joined(controllerVolumes(c), extraVolumes),
    {slurmctldContainer, LogfileContainer}
      \cup (IF c.spec.inplace THEN {reconfigureContainer} ELSE {}),
    IF c.spec.inplace THEN getAuthHashes(k) ELSE getHashes(k))

\* Faulty: without persistence there is no volume for the state.
BuildControllerNoState(c, k) ==
  OwnedBy(c, FALSE,
    controllerPodTemplate(c, k,
      CASE c.spec.persist = "existing" -> [statesave |-> {"stateClaim"}]
        [] c.spec.persist = "template" -> [statesave |-> {}]
        [] c.spec.persist = "none"     -> <<>>))

\* The state of slurmctld is in a claim the user has, in one the StatefulSet
\* makes from a template, or in an emptyDir.
BuildController(c, k) ==
  OwnedBy(c, FALSE,
    controllerPodTemplate(c, k,
      CASE c.spec.persist = "existing" -> [statesave |-> {"stateClaim"}]
        [] c.spec.persist = "template" -> [statesave |-> {}]
        [] c.spec.persist = "none"     -> [statesave |-> {}]))

BuildServiceMonitor(c, data) == OwnedBy(c, FALSE, data)

BuildControllerServiceMonitor(c) == BuildServiceMonitor(c, [spec |-> c.spec])

-----------------------------------------------------------------------------
(* internal/builder/accountingbuilder                                      *)

BuildAccountingService(c) == BuildService(c, c.spec.clash, [spec |-> c.spec])

\* slurmdbd.conf holds the password of the database.
BuildAccountingConfig(c, k) ==
  IF Present(k, "storagePassword")
  THEN BuildSecret(c, FALSE, [conf |-> <<c.spec, k["storagePassword"]>>])
  ELSE Failed

\* Faulty: slurmdbd.conf is not hashed into the template.
accountingHashesAuthOnly(k) == Joined(getAuthHashes(k), [config |-> Absent])

accountingHashes(k) == Joined(getAuthHashes(k), [config |-> DataOf(k, "accConfig")])

accountingVolumes == Joined([etc |-> {"accConfig", "slurmKey", "jwtKey"}], PidfileVolume)

slurmdbdContainer == {"etc", "pid"}

accountingPodTemplate(c, k) ==
  BuildPodTemplate(c.spec, accountingVolumes, {slurmdbdContainer}, accountingHashes(k))

BuildAccounting(c, k) == OwnedBy(c, FALSE, accountingPodTemplate(c, k))

-----------------------------------------------------------------------------
(* internal/builder/restapibuilder                                         *)

BuildRestapiService(c) == BuildService(c, c.spec.clash, [spec |-> c.spec])

restapiVolumes == [etc |-> {"ctlConfig", "slurmKey"}]

slurmrestdContainer == {"etc"}

\* No hash: a new slurm.conf or key does not change this template.
restapiPodTemplate(c) ==
  BuildPodTemplate(c.spec, restapiVolumes, {slurmrestdContainer}, <<>>)

BuildRestapi(c, k) ==
  IF Present(k, "controller") THEN OwnedBy(c, FALSE, restapiPodTemplate(c)) ELSE Failed

-----------------------------------------------------------------------------
(* internal/builder/loginbuilder                                           *)

\* Faulty: the Secret can be updated.
BuildLoginSshHostKeysMutable(c, drawn) == BuildSecret(c, FALSE, [keys |-> drawn])

\* Every build draws new keys; the Secret that holds them is immutable.
BuildLoginSshHostKeys(c, drawn) == BuildSecret(c, TRUE, [keys |-> drawn])

BuildLoginSshConfig(c) ==
  BuildConfigMap(c, [sshd |-> c.spec.sshd, authorized |-> c.spec.authorized])

BuildLoginService(c) == BuildService(c, c.spec.clash, [spec |-> c.spec])

\* The hash of the ConfigMap covers sshd_config and not authorized_keys.
getLoginHashes(k) ==
  [hostKeys |-> DataOf(k, "hostKeys"),
   sshd     |-> IF Present(k, "sshConfig") THEN k["sshConfig"].data.sshd ELSE Absent,
   sssd     |-> k["sssd"]]

loginVolumes ==
  Joined(EtcSlurmVolume,
         [sackd |-> {}, config |-> {"slurmKey"}, hostkeys |-> {"hostKeys"},
          sshd |-> {"sshConfig"}, sssd |-> {"sssd"}])

loginContainer == {"etc", "sackd", "hostkeys", "sshd", "sssd"}

loginPodTemplate(c, k) ==
  BuildPodTemplate(<<c.spec, ConfiglessArgs(k["controller"])>>, loginVolumes,
    {loginContainer, InitconfContainer}, getLoginHashes(k))

BuildLogin(c, k) ==
  IF Present(k, "controller") THEN OwnedBy(c, FALSE, loginPodTemplate(c, k)) ELSE Failed

-----------------------------------------------------------------------------
(* internal/builder/workerbuilder                                          *)

\* The Service and the budget are shared by all NodeSets of a cluster and
\* hold nothing of the NodeSet they happen to be built for.
BuildClusterWorkerService(c) == BuildService(c, FALSE, [spec |-> "workers"])

BuildClusterWorkerPodDisruptionBudget(c) == BuildPodDisruptionBudget(c, [spec |-> "workers"])

BuildWorkerSshConfig(c) == BuildConfigMap(c, [sshd |-> c.spec.sshd])

getWorkerHashes(k) ==
  [sshd |-> IF Present(k, "workerSsh") THEN k["workerSsh"].data.sshd ELSE Absent,
   sssd |-> k["sssd"]]

nodesetVolumes(c) ==
  Joined(Joined([etc |-> {"slurmKey"}], LogFileVolume),
         IF c.spec.ssh THEN [sshd |-> {"workerSsh"}, sssd |-> {"sssd"}] ELSE <<>>)

slurmdContainer(c) == {"etc", "log"} \cup (IF c.spec.ssh THEN {"sshd", "sssd"} ELSE {})

BuildWorkerPodTemplate(c, k) ==
  BuildPodTemplate(<<c.spec, ConfiglessArgs(k["controller"])>>, nodesetVolumes(c),
    {slurmdContainer(c), LogfileContainer}, getWorkerHashes(k))
=============================================================================
