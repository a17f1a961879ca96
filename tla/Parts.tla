-------------------------------- MODULE Parts --------------------------------
(***************************************************************************)
(* The instances of SlowStartRun, TokenRefresh, SlurmClients and           *)
(* RevisionHistory that TLC checks together. They share no state: a        *)
(* behaviour is one of one instance, its scene, and the variables of the   *)
(* others keep the values they are given here.                             *)
(***************************************************************************)
EXTENDS SlowStartRun

VARIABLES
    scene,                                                      \* which instance
    alive, refresh, secret, cached, status, failed,             \* of TokenRefresh
    controller, restapis, clients, running, starts,             \* of SlurmClients
    key, queued, fails, pc, seen, stored, budget,               \* of both
    nodeset, nodesetSeen, revs, revsSeen,                       \* of RevisionHistory
    step, read, listed, update, changes

\* A Token whose Secret is read as it was written.
Prompt == INSTANCE TokenRefreshProofs WITH
    Lag <- FALSE, Disturb <- {"fault", "secret", "token"}, MaxDisturb <- 2

\* A Token whose Secret is read late.
Late == INSTANCE TokenRefreshProofs WITH
    Lag <- TRUE, Disturb <- {"fault", "secret", "key", "refresh", "token"}, MaxDisturb <- 2

\* A Slurm client whose retries come before its JWT expires.
Renewed == INSTANCE SlurmClientsProofs WITH
    RestApis <- {"a", "b"}, MaxBackoff <- 2, MaxStarts <- 4,
    Disturb <- {"fault", "controller", "key", "crash"}, MaxDisturb <- 2

\* A Slurm client with RestApis that come and go and retries that back off.
Following == INSTANCE SlurmClientsProofs WITH
    RestApis <- {"a", "b"}, MaxBackoff <- 6, MaxStarts <- 4,
    Disturb <- {"fault", "controller", "restapi", "key", "crash"}, MaxDisturb <- 3

\* Revisions that listRevisions finds.
Listed == INSTANCE RevisionHistoryProofs WITH
    Templates <- {"A", "B", "C"}, Colliding <- {}, Labelled <- TRUE, Limit <- 1, MaxChanges <- 2

\* Revisions that it does not, of two templates with one hash.
Unlisted == INSTANCE RevisionHistoryProofs WITH
    Templates <- {"A", "B", "C"}, Colliding <- {"A", "B"}, Labelled <- FALSE, Limit <- 1,
    MaxChanges <- 2

batchOnly == <<b, bad>>
tokenOnly == <<alive, refresh, secret, cached, status, failed>>
clientOnly == <<controller, restapis, clients, running, starts>>
queueOnly == <<key, queued, fails, pc, seen, stored, budget>>
historyOnly == <<nodeset, nodesetSeen, revs, revsSeen, step, read, listed, update, changes>>
partsVars == <<scene, batchOnly, tokenOnly, clientOnly, queueOnly, historyOnly>>

NoToken ==
    /\ alive = FALSE /\ refresh = FALSE /\ status = 0 /\ failed = FALSE
    /\ secret = Prompt!NoSecret /\ cached = Prompt!NoSecret
NoClient == controller = FALSE /\ restapis = {} /\ clients = {} /\ running = {} /\ starts = 0
NoQueue ==
    /\ key = 0 /\ queued = 0 /\ fails = 0 /\ pc = "idle" /\ seen = FALSE
    /\ stored = {} /\ budget = 0
EmptyBatch == b = NoBatch /\ bad = 0
NoHistory ==
    /\ nodeset = Listed!NothingRead /\ nodesetSeen = nodeset /\ read = nodeset
    /\ revs = {} /\ revsSeen = {} /\ listed = <<>> /\ update = Listed!NoUpdate
    /\ step = "idle" /\ changes = 0

PartsInit ==
    \/ scene = "batch" /\ Init /\ NoToken /\ NoClient /\ NoQueue /\ NoHistory
    \/ scene = "prompt" /\ Prompt!Init /\ EmptyBatch /\ NoClient /\ NoHistory
    \/ scene = "late" /\ Late!Init /\ EmptyBatch /\ NoClient /\ NoHistory
    \/ scene = "renewed" /\ Renewed!Init /\ EmptyBatch /\ NoToken /\ NoHistory
    \/ scene = "following" /\ Following!Init /\ EmptyBatch /\ NoToken /\ NoHistory
    \/ scene = "listed" /\ Listed!Init /\ EmptyBatch /\ NoToken /\ NoClient /\ NoQueue
    \/ scene = "unlisted" /\ Unlisted!Init /\ EmptyBatch /\ NoToken /\ NoClient /\ NoQueue

\* What a step of each part leaves alone.
NotBatch == UNCHANGED <<scene, tokenOnly, clientOnly, queueOnly, historyOnly>>
NotToken == UNCHANGED <<scene, batchOnly, clientOnly, historyOnly>>
NotClient == UNCHANGED <<scene, batchOnly, tokenOnly, historyOnly>>
NotHistory == UNCHANGED <<scene, batchOnly, tokenOnly, clientOnly, queueOnly>>

BatchNext == scene = "batch" /\ Next /\ NotBatch
PromptNext == scene = "prompt" /\ Prompt!Next /\ NotToken
LateNext == scene = "late" /\ Late!Next /\ NotToken
RenewedNext == scene = "renewed" /\ Renewed!Next /\ NotClient
FollowingNext == scene = "following" /\ Following!Next /\ NotClient
ListedNext == scene = "listed" /\ Listed!Next /\ NotHistory
UnlistedNext == scene = "unlisted" /\ Unlisted!Next /\ NotHistory

PartsNext ==
    \/ BatchNext \/ PromptNext \/ LateNext \/ RenewedNext \/ FollowingNext
    \/ ListedNext \/ UnlistedNext

\* The workers, the informer, the clock and the resync go on.
PartsSpec ==
    /\ PartsInit
    /\ [][PartsNext]_partsVars
    /\ WF_partsVars((scene = "late" /\ Late!Reconcile /\ NotToken)
                    \/ (scene = "following" /\ Following!Reconcile /\ NotClient)
                    \/ (scene = "listed" /\ Listed!Reconcile /\ NotHistory)
                    \/ (scene = "unlisted" /\ Unlisted!Reconcile /\ NotHistory))
    /\ WF_partsVars((scene = "late" /\ Late!Tick /\ NotToken)
                    \/ (scene = "following" /\ Following!Tick /\ NotClient))
    /\ WF_partsVars((scene = "late" /\ Late!Deliver /\ NotToken)
                    \/ (scene \in {"listed", "unlisted"} /\ Listed!DeliverNodeSet /\ NotHistory))
    /\ WF_partsVars(scene \in {"listed", "unlisted"} /\ Listed!DeliverRevisions /\ NotHistory)
    /\ WF_partsVars(scene = "late" /\ Late!Resync /\ NotToken)

-----------------------------------------------------------------------------
\* Types of the state of whichever part runs.
PartsTypeOK ==
    CASE scene = "batch" -> TypeOK
      [] scene = "prompt" -> Prompt!TypeOK
      [] scene = "late" -> Late!TypeOK
      [] scene = "renewed" -> Renewed!TypeOK
      [] scene = "following" -> Following!TypeOK
      [] scene = "listed" -> Listed!TypeOK
      [] scene = "unlisted" -> Unlisted!TypeOK

\* With reads as fresh as the last write, a Token that asks for refresh never leaves
\* an expired JWT in its Secret.
NeverExpires == scene = "prompt" => Prompt!NeverExpires

\* With reads as fresh as the last write, refreshSecret replaces a JWT only when a
\* fifth of its lifetime, or less, is left.
NoEarlyRotation == [][scene = "prompt" => ~Prompt!EarlyRotation]_partsVars

\* With late reads, rotated keys and deleted Secrets, a refreshing Token has a valid
\* JWT again and again, if only after a resync.
Recovers == scene = "late" => Late!Recovers

\* Replacing or removing a client leaves no client running outside the client map.
RunningIsMapped ==
    scene \in {"renewed", "following"} => Renewed!RunningIsMapped

\* The JWT of the client in the map is renewed before it expires.
TokenFresh == scene = "renewed" => Renewed!TokenFresh

\* Once the Controller is gone for good so is its client, even if a reconcile that
\* had read it was about to add one.
ClientFollowsController == scene = "following" => Following!ClientFollowsController

\* With a RestApi to talk to, the map ends up with a client for one that exists, with
\* a JWT of the current key.
ClientFollowsRestApi == scene = "following" => Following!ClientFollowsRestApi

\* The revision whose label getNodeSetRevisions hands to the pods holds the template that
\* the reconcile read, even if two templates have one hash and the cache is behind.
UpdateRevisionFits == scene \in {"listed", "unlisted"} => Listed!UpdateRevisionFits

\* After the last edit the revision of the last template, new or rolled back to, is on
\* record and its label in the status; where revisions are listed, it has the highest
\* number and orphans are adopted.
RevisionSettles ==
    scene \in {"listed", "unlisted"} =>
        <>[](IF scene = "listed" THEN Listed!RevisionRecorded ELSE Unlisted!RevisionRecorded)

\* Where revisions are listed, truncateHistory gets the history down to its limit,
\* although it deletes by a list that may be stale.
HistoryWithinLimit == scene = "listed" => <>[]Listed!WithinLimit
=============================================================================
