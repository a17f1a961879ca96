-------------------------- MODULE MCClusterObjects --------------------------
(***************************************************************************)
(* The scenes of ClusterObjects: which resources there are, the specs      *)
(* users give them, and what interferes.                                   *)
(***************************************************************************)
EXTENDS ClusterObjects

None == [r \in Reconcilers |-> {}]

Plain    == [external |-> FALSE, inplace |-> FALSE, monitor |-> FALSE, clash |-> FALSE,
             persist |-> "template", files |-> {"files"}, rev |-> 1]
Changed  == [Plain EXCEPT !.rev = 2, !.monitor = TRUE, !.persist = "existing"]
Inplace  == [Plain EXCEPT !.inplace = TRUE, !.persist = "none"]
Outside  == [Plain EXCEPT !.external = TRUE]

Database(r) == [external |-> FALSE, clash |-> FALSE, rev |-> r]
Clashing    == [Database(1) EXCEPT !.clash = TRUE]
Elsewhere   == [Database(1) EXCEPT !.external = TRUE]
Rest(r)     == [clash |-> FALSE, rev |-> r]
Login(r)    == [sshd |-> r, authorized |-> r, clash |-> FALSE, rev |-> r]
Workers(r)  == [ssh |-> r = 1, sshd |-> r, rev |-> r]

Undisturbed ==
  [specs |-> None, running |-> {}, drawn |-> {1}, editable |-> {}, deletable |-> {},
   lagging |-> {}, resyncs |-> FALSE, disturb |-> 2, uids |-> 2]

\* A Controller that changes in many ways.
ChangingController ==
  [Undisturbed EXCEPT
    !.specs     = [None EXCEPT !.controller = {Plain, Changed, Inplace, Outside}],
    !.running   = {"controller"},
    !.editable  = {"controller", "slurmKey", "ctlConfig"},
    !.deletable = {"controller", "ctlConfig"},
    !.lagging   = {"controller", "ctlConfig"}]

\* A Controller with an Accounting and a NodeSet it is configured from.
ReferringController ==
  [Undisturbed EXCEPT
    !.specs     = [None EXCEPT !.controller = {Plain},
                               !.accounting = {Database(1), Database(2)},
                               !.nodeset    = {Workers(1), Workers(2)}],
    !.running   = {"controller"},
    !.editable  = {"accounting", "nodeset", "jwtKey"},
    !.deletable = {"accounting", "nodeset", "ctlSet"},
    !.lagging   = {"accounting", "ctlConfig", "nodeset", "jwtKey"}]

LonelyAccounting ==
  [Undisturbed EXCEPT
    !.specs     = [None EXCEPT !.accounting = {Database(1), Database(2), Clashing, Elsewhere}],
    !.running   = {"accounting"},
    !.editable  = {"accounting", "slurmKey", "accConfig"},
    !.deletable = {"accounting", "accConfig", "storagePassword"},
    !.lagging   = {"accounting", "accConfig", "slurmKey"}]

\* LoginSets and RestApis with the Controller they belong to.
Logins ==
  [Undisturbed EXCEPT
    !.specs     = [None EXCEPT !.controller = {Plain, Outside},
                               !.loginset   = {Login(1), Login(2)}],
    !.running   = {"loginset"},
    !.drawn     = {1, 2},
    !.editable  = {"controller", "loginset", "sssd"},
    !.deletable = {"controller", "hostKeys"},
    !.lagging   = {"controller", "hostKeys"}]

RestApis ==
  [Undisturbed EXCEPT
    !.specs     = [None EXCEPT !.controller = {Plain}, !.restapi = {Rest(1), Rest(2)}],
    !.running   = {"controller", "restapi"},
    !.editable  = {"controller", "restapi"},
    !.deletable = {"controller", "restDeployment"},
    !.lagging   = {"controller", "restDeployment"},
    !.disturb   = 1]

\* The resources with an input, or an object, that no handler watches.
Unwatched ==
  [Undisturbed EXCEPT
    !.specs     = [None EXCEPT !.controller = {Plain, Changed},
                               !.accounting = {Database(1)},
                               !.nodeset    = {Workers(1)}],
    !.running   = {"controller", "nodeset"},
    !.editable  = {"controller", "files"},
    !.deletable = {"ctlMonitor", "workerService", "workerPDB"},
    !.lagging   = {"workerService"},
    !.resyncs   = TRUE,
    !.disturb   = 1,
    !.uids      = 1]

Password ==
  [Unwatched EXCEPT
    !.running   = {"accounting"},
    !.editable  = {"storagePassword"},
    !.deletable = {"accConfig"},
    !.lagging   = {"accConfig", "accSet"},
    !.disturb   = 2]

\* Workers with and without ssh, and what their pods mount.
SshWorkers ==
  [Unwatched EXCEPT
    !.specs     = [None EXCEPT !.controller = {Plain}, !.nodeset = {Workers(1), Workers(2)}],
    !.editable  = {"nodeset", "slurmKey"},
    !.deletable = {"nodeset"},
    !.lagging   = {"nodeset", "workerSsh"},
    !.resyncs   = FALSE]

SafetyScenes ==
  [controller |-> ChangingController, references |-> ReferringController,
   accounting |-> LonelyAccounting, logins |-> Logins, restapis |-> RestApis,
   workers |-> SshWorkers]

ASSUME WatchedAssumption == \A n \in DOMAIN SafetyScenes : Watched(SafetyScenes[n])

LivenessScenes == [unwatched |-> Unwatched, password |-> Password]
=============================================================================
