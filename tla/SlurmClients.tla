---------------------------- MODULE SlurmClients ----------------------------
(***************************************************************************)
(* The SlurmClient controller and the client map it fills, for one         *)
(* Controller: internal/controller/slurmclient and internal/clientmap.     *)
(*                                                                         *)
(* The reconciler watches Controllers only.  That a RestApi or the signing *)
(* key has changed it learns when its JWT is due for renewal, at four      *)
(* fifths of a lifetime, or when an error is retried.  Time is counted in  *)
(* fifths of that lifetime (15 minutes) and stands still while a request   *)
(* is due or a reconcile runs.                                             *)
(***************************************************************************)
EXTENDS Requeue

CONSTANTS
    RestApis,    \* the RestApis that may refer to the Controller
    MaxBackoff,  \* bound: the longest delay of a retry
    MaxStarts,   \* bound: number of clients ever started
    Disturb,     \* which disturbances occur
    MaxDisturb   \* bound: number of disturbances and failing calls

VARIABLES
    controller,  \* whether the Controller exists
    restapis,    \* the RestApis that exist and refer to it
    key,         \* the signing key of the Controller
    clients,     \* the client map's entry: a set of at most one client
    running,     \* the clients started and not stopped
    starts,      \* number of clients started so far
    pc,          \* the step of Sync
    seen,        \* the RestApi and the key this reconcile read: a set of at most one
    stored,      \* the duration store's entry
    queued,      \* time until the request is handed to the worker
    fails,       \* consecutive failures of the request
    budget       \* disturbances left

envVars == <<controller, restapis, key>>
mapVars == <<clients, running, starts>>
opVars == <<pc, seen, stored>>
vars == <<envVars, mapVars, opVars, queued, fails, budget>>

Lifetime == 5
Refresh == 4        \* lifetime * 4 / 5
Never == (IF MaxBackoff > Lifetime THEN MaxBackoff ELSE Lifetime) + 1
Keys == {1, 2}

Clients == [id : 1 .. MaxStarts, server : RestApis, key : Keys, left : 0 .. Lifetime]

\* Types of the state.
TypeOK ==
    /\ controller \in BOOLEAN /\ restapis \subseteq RestApis /\ key \in Keys
    /\ clients \subseteq Clients /\ \A c, d \in clients : c = d
    /\ running \subseteq 1 .. MaxStarts /\ starts \in 0 .. MaxStarts
    /\ pc \in {"idle", "act"} /\ seen \subseteq [server : RestApis, key : Keys]
    /\ stored \in SUBSET (0 .. Lifetime)
    /\ queued \in 0 .. Never /\ fails \in 0 .. 2 /\ budget \in 0 .. MaxDisturb

\* A Controller that was just created, its RestApi perhaps not yet.
Init ==
    /\ controller = TRUE /\ restapis \in SUBSET RestApis /\ key = 1
    /\ clients = {} /\ running = {} /\ starts = 0
    /\ pc = "idle" /\ seen = {} /\ stored = NothingStored
    /\ queued = 0 /\ fails = 0 /\ budget = MaxDisturb

-----------------------------------------------------------------------------
(* The client map.                                                          *)

\* Faulty variant: the client is forgotten and not stopped.
RemoveRunning == clients' = {} /\ UNCHANGED <<running, starts>>

Remove ==
    /\ running' = running \ {c.id : c \in clients}
    /\ clients' = {}
    /\ UNCHANGED starts

\* Add replaces, and stops, a client that is there.
Add(r) ==
    /\ starts < MaxStarts
    /\ starts' = starts + 1
    /\ clients' = {[id |-> starts + 1, server |-> r.server, key |-> r.key, left |-> Lifetime]}
    /\ running' = (running \ {c.id : c \in clients}) \cup {starts + 1}

\* Faulty variant: the server stays.
UpdateToken(r) ==
    /\ clients' = {[c EXCEPT !.key = r.key, !.left = Lifetime] : c \in clients}
    /\ UNCHANGED <<running, starts>>

\* SetServer and SetToken on the client that is there.
UpdateClient(r) ==
    /\ clients' = {[c EXCEPT !.server = r.server, !.key = r.key, !.left = Lifetime] : c \in clients}
    /\ UNCHANGED <<running, starts>>

-----------------------------------------------------------------------------
(* The reconciler.                                                          *)

Spend(f) == IF f THEN "fault" \in Disturb /\ budget > 0 /\ budget' = budget - 1
            ELSE budget' = budget

\* pending is when an event of the Controller that came meanwhile is due.
Fail(pending) ==
    /\ fails' = IF fails < 2 THEN fails + 1 ELSE 2
    /\ IF fails < 2 THEN queued' = AddAfter(pending, 0)
       ELSE \E d \in 1 .. MaxBackoff : queued' = AddAfter(pending, d)
    /\ pc' = "idle" /\ stored' = NothingStored /\ seen' = {}

Succeed(pending, dur) ==
    /\ fails' = 0
    /\ queued' = RequeueAfter(pending, dur)
    /\ pc' = "idle" /\ stored' = NothingStored /\ seen' = {}

\* Faulty variant: the client of a Controller that is gone is kept.
SyncKept(f) ==
    /\ pc = "idle" /\ queued = 0
    /\ Spend(f)
    /\ \/ ~controller /\ ~f /\ Succeed(Never, 0) /\ UNCHANGED mapVars
       \/ controller /\ (f \/ restapis = {}) /\ Fail(Never) /\ UNCHANGED mapVars
       \/ /\ controller /\ ~f
          /\ \E s \in restapis : seen' = {[server |-> s, key |-> key]}
          /\ pc' = "act" /\ queued' = Never
          /\ UNCHANGED <<mapVars, fails, stored>>
    /\ UNCHANGED envVars

\* Faulty variant: a Controller without RestApi gets a client without server.
SyncUnfound(f) ==
    /\ pc = "idle" /\ queued = 0
    /\ Spend(f)
    /\ \/ ~controller /\ ~f /\ Remove /\ Succeed(Never, 0)
       \/ controller /\ f /\ Fail(Never) /\ UNCHANGED mapVars
       \/ /\ controller /\ ~f
          /\ \E s \in (IF restapis = {} THEN {""} ELSE restapis) :
                seen' = {[server |-> s, key |-> key]}
          /\ pc' = "act" /\ queued' = Never
          /\ UNCHANGED <<mapVars, fails, stored>>
    /\ UNCHANGED envVars

\* Sync up to the client: a Controller that is gone loses its client. The RestApi is
\* the first of a list in no particular order. When there is none, the error is not
\* the API's "not found", so the branch that removes the client is not taken: the
\* error is retried and a client that is there stays.
Sync(f) ==
    /\ pc = "idle" /\ queued = 0
    /\ Spend(f)
    /\ \/ ~controller /\ ~f /\ Remove /\ Succeed(Never, 0)
       \/ controller /\ (f \/ restapis = {}) /\ Fail(Never) /\ UNCHANGED mapVars
       \/ /\ controller /\ ~f
          /\ \E s \in restapis : seen' = {[server |-> s, key |-> key]}
          /\ pc' = "act" /\ queued' = Never
          /\ UNCHANGED <<mapVars, fails, stored>>
    /\ UNCHANGED envVars

\* Faulty variant: the renewal is asked for only when a client is made.
SyncClientOnce(f) ==
    /\ pc = "act"
    /\ Spend(f)
    /\ \E r \in seen :
        \/ clients # {} /\ ~f /\ UpdateClient(r) /\ Succeed(queued, 0)
        \/ clients = {} /\ ~f /\ Add(r) /\ Succeed(queued, Refresh)
        \/ f /\ Fail(queued) /\ UNCHANGED mapVars
    /\ UNCHANGED envVars

\* The rest of Sync: a new JWT, its renewal, and the client updated or made.
SyncClient(f) ==
    LET renewed == IF Peek(stored) = 0 THEN Push(stored, Refresh, Greater) ELSE stored
    IN
    /\ pc = "act"
    /\ Spend(f)
    /\ \E r \in seen :
        \/ clients # {} /\ ~f /\ UpdateClient(r) /\ Succeed(queued, Peek(renewed))
        \/ clients = {} /\ ~f /\ Add(r) /\ Succeed(queued, Peek(renewed))
        \/ f /\ Fail(queued) /\ UNCHANGED mapVars
    /\ UNCHANGED envVars

-----------------------------------------------------------------------------
Older(c) == IF c.left > 0 THEN [c EXCEPT !.left = @ - 1] ELSE c

Tick ==
    /\ pc = "idle" /\ queued # 0
    /\ queued # Never \/ \E c \in clients : c.left > 0
    /\ queued' = IF queued = Never THEN Never ELSE queued - 1
    /\ clients' = {Older(c) : c \in clients}
    /\ UNCHANGED <<envVars, running, starts, opVars, fails, budget>>

Disturbs(kind) == kind \in Disturb /\ budget > 0 /\ budget' = budget - 1

\* Events of the Controller enqueue it.
ControllerChanges ==
    /\ Disturbs("controller")
    /\ controller' = ~controller /\ queued' = 0
    /\ UNCHANGED <<restapis, key, mapVars, opVars, fails>>

\* RestApis and Secrets enqueue nothing.
RestApisChange ==
    /\ Disturbs("restapi")
    /\ restapis' \in SUBSET RestApis \ {restapis}
    /\ UNCHANGED <<controller, key, mapVars, opVars, queued, fails>>

KeyRotated ==
    /\ Disturbs("key")
    /\ key' \in Keys \ {key}
    /\ UNCHANGED <<controller, restapis, mapVars, opVars, queued, fails>>

\* The operator restarts with an empty map; the first listing enqueues a Controller
\* that exists.
Crash ==
    /\ Disturbs("crash")
    /\ clients' = {} /\ running' = {} /\ UNCHANGED starts
    /\ pc' = "idle" /\ seen' = {} /\ stored' = NothingStored
    /\ queued' = IF controller THEN 0 ELSE Never
    /\ fails' = 0
    /\ UNCHANGED envVars

Reconcile == \E f \in BOOLEAN : Sync(f) \/ SyncClient(f)
Environment == ControllerChanges \/ RestApisChange \/ KeyRotated \/ Crash
Next == Reconcile \/ Tick \/ Environment

Spec == Init /\ [][Next]_vars

\* The worker and the clock go on.
FairSpec == Spec /\ WF_vars(Reconcile) /\ WF_vars(Tick)

-----------------------------------------------------------------------------
\* Every client that runs is the one in the map: replacing or removing a client
\* leaves no goroutine polling Slurm behind.
RunningIsMapped == running = {c.id : c \in clients}

\* The JWT of the client in the map is renewed before it expires.
TokenFresh == \A c \in clients : c.left > 0

\* Once the Controller is gone for good so is its client, even if a reconcile that
\* had read it was about to add one.
ClientFollowsController == <>[](~controller) => <>[](clients = {})

\* With a RestApi to talk to, the map ends up with a client for one that exists, with
\* a JWT of the current key.
ClientFollowsRestApi ==
    \A S \in SUBSET RestApis \ {{}} : <>[](controller /\ restapis = S) =>
        <>[](\E c \in clients : c.server \in S /\ c.key = key)
=============================================================================
