------------------------- MODULE SlurmClientsProofs -------------------------
(***************************************************************************)
(* Proofs about the SlurmClient controller and the client map, for every   *)
(* set of RestApis, longest delay of a retry and number of clients, and    *)
(* for all disturbances unless a theorem says otherwise.                   *)
(***************************************************************************)
EXTENDS SlurmClients, TLAPS

\* The bounds are numbers.
Bounds == MaxStarts \in Nat /\ MaxBackoff \in Nat /\ MaxDisturb \in Nat

\* The map has no client, or one.
AtMostOne == clients = {} \/ \E c \in Clients : clients = {c}

\* TypeOK in a form that is inductive.
Types ==
    /\ controller \in BOOLEAN /\ restapis \subseteq RestApis /\ key \in Keys
    /\ AtMostOne
    /\ running \subseteq 1 .. MaxStarts /\ starts \in 0 .. MaxStarts
    /\ pc \in {"idle", "act"} /\ seen \subseteq [server : RestApis, key : Keys]
    /\ stored = {}
    /\ queued \in 0 .. Never /\ fails \in 0 .. 2 /\ budget \in 0 .. MaxDisturb

\* The types, and the client in the map is the one that runs.
MapInv == Types /\ RunningIsMapped

-----------------------------------------------------------------------------
(* The client map.                                                          *)

\* The client that UpdateClient leaves in place of c.
Updated(c, s, k) == [c EXCEPT !.server = s, !.key = k, !.left = Lifetime]

\* A client whose server, key and time left are set.
LEMMA UpdatedClient ==
    ASSUME Bounds, NEW c \in Clients, NEW s \in RestApis, NEW k \in Keys
    PROVE  /\ Updated(c, s, k) \in Clients
           /\ Updated(c, s, k).id = c.id /\ Updated(c, s, k).left = Lifetime
<1> DEFINE e == [c EXCEPT !.server = s, !.key = k]
<1>1. e \in Clients /\ e.id = c.id
  BY DEF Clients
<1>2. [e EXCEPT !.left = Lifetime] = Updated(c, s, k)
  BY Zenon DEF Updated
<1> HIDE DEF e
<1>3. LET d == [e EXCEPT !.left = Lifetime] IN
      d \in Clients /\ d.id = e.id /\ d.left = Lifetime
  BY <1>1 DEF Clients, Lifetime
<1> QED
  BY <1>1, <1>2, <1>3

\* A client that grows older.
LEMMA OlderClient ==
    ASSUME Bounds, NEW c \in Clients
    PROVE  /\ Older(c) \in Clients /\ Older(c).id = c.id
           /\ c.left > 0 => Older(c).left = c.left - 1
<1>1. CASE c.left > 0
  <2>1. c.left \in 1 .. Lifetime /\ c.left - 1 \in 0 .. Lifetime
    BY <1>1 DEF Clients, Lifetime
  <2>2. Older(c) = [c EXCEPT !.left = c.left - 1]
    BY <1>1 DEF Older
  <2> QED
    BY <2>1, <2>2 DEF Clients
<1>2. CASE ~(c.left > 0)
  BY <1>2 DEF Older
<1> QED
  BY <1>1, <1>2

\* A map without client, and one with the client c.
LEMMA MapCases ==
    ASSUME Types
    PROVE  /\ clients \subseteq Clients
           /\ clients = {} => {c.id : c \in clients} = {}
           /\ \A c : clients = {c} => c \in Clients /\ {d.id : d \in clients} = {c.id}
BY DEF Types, AtMostOne

\* Removing the client stops it.
LEMMA RemoveMap ==
    ASSUME MapInv, Remove
    PROVE  AtMostOne' /\ RunningIsMapped' /\ running' \subseteq running /\ starts' = starts
           /\ clients' = {}
BY DEF MapInv, RunningIsMapped, Remove, AtMostOne

\* A client that is added replaces and stops the one before.
LEMMA AddMap ==
    ASSUME Bounds, MapInv, NEW r \in [server : RestApis, key : Keys], Add(r)
    PROVE  /\ AtMostOne' /\ RunningIsMapped'
           /\ running' \subseteq 1 .. MaxStarts /\ starts' \in 0 .. MaxStarts
           /\ \A c \in clients' : c.left = Lifetime
<1> DEFINE c == [id |-> starts + 1, server |-> r.server, key |-> r.key, left |-> Lifetime]
<1>1. starts + 1 \in 1 .. MaxStarts /\ starts + 1 \in 0 .. MaxStarts
  BY DEF Bounds, MapInv, Types, Add
<1>2. c \in Clients /\ c.id = starts + 1 /\ c.left = Lifetime
  BY <1>1 DEF Clients, Lifetime
<1>3. clients' = {c} /\ starts' = starts + 1 /\ running' = {starts + 1}
  BY DEF Add, MapInv, RunningIsMapped
<1> HIDE DEF c
<1>4. {d.id : d \in clients'} = {c.id}
  BY <1>3
<1> QED
  BY <1>1, <1>2, <1>3, <1>4 DEF AtMostOne, RunningIsMapped

\* A client that is updated goes on running.
LEMMA UpdateMap ==
    ASSUME Bounds, MapInv, NEW r \in [server : RestApis, key : Keys], UpdateClient(r)
    PROVE  /\ AtMostOne' /\ RunningIsMapped' /\ running' = running /\ starts' = starts
           /\ \A c \in clients' : c.left = Lifetime
<1> DEFINE U(c) == Updated(c, r.server, r.key)
<1>1. \A c \in Clients : U(c) \in Clients /\ U(c).id = c.id /\ U(c).left = Lifetime
  <2> TAKE c \in Clients
  <2>1. r.server \in RestApis /\ r.key \in Keys
    OBVIOUS
  <2> QED
    BY <2>1, UpdatedClient
<1>2. clients' = {U(c) : c \in clients} /\ running' = running /\ starts' = starts
  BY DEF UpdateClient, Updated
<1> HIDE DEF U
<1>3. CASE clients = {}
  BY <1>2, <1>3 DEF AtMostOne, RunningIsMapped, MapInv
<1>4. ASSUME NEW c \in Clients, clients = {c}
      PROVE  /\ AtMostOne' /\ RunningIsMapped'
             /\ \A d \in clients' : d.left = Lifetime
  <2>1. clients' = {U(c)} /\ U(c) \in Clients /\ U(c).id = c.id /\ U(c).left = Lifetime
    BY <1>1, <1>2, <1>4
  <2>2. {d.id : d \in clients'} = {c.id} /\ {d.id : d \in clients} = {c.id}
    BY <1>4, <2>1
  <2> QED
    BY <1>2, <2>1, <2>2 DEF AtMostOne, RunningIsMapped, MapInv
<1> QED
  BY <1>2, <1>3, <1>4 DEF MapInv, Types, AtMostOne

-----------------------------------------------------------------------------
(* The queue.                                                               *)

\* Never is later than any time that is asked for.
LEMMA NeverLast ==
    ASSUME Bounds
    PROVE  Never \in Nat /\ Never > Lifetime /\ Never > MaxBackoff /\ Never > 0
BY DEF Bounds, Never, Lifetime

\* A failing call is taken from the budget.
LEMMA SpendType ==
    ASSUME Bounds, Types, NEW f \in BOOLEAN, Spend(f)
    PROVE  /\ budget' \in 0 .. MaxDisturb
           /\ f => budget > 0 /\ budget' = budget - 1
           /\ ~f => budget' = budget
BY DEF Bounds, Spend, Types

\* A reconcile that fails is retried, the first times at once.
LEMMA FailType ==
    ASSUME Bounds, Types, NEW q \in 0 .. Never, Fail(q)
    PROVE  /\ fails' \in 0 .. 2 /\ queued' \in 0 .. Never /\ pc' = "idle" /\ stored' = {}
           /\ seen' = {}
           /\ fails < 2 => fails' = fails + 1 /\ queued' = 0
<1>1. fails \in 0 .. 2
  BY DEF Types
<1>2. fails' \in 0 .. 2 /\ (fails < 2 => fails' = fails + 1)
  BY <1>1 DEF Fail
<1>3. ASSUME fails < 2 PROVE queued' = 0
  BY <1>3, NeverLast DEF Fail, AddAfter
<1>4. ASSUME ~(fails < 2) PROVE queued' \in 0 .. Never
  <2>1. PICK d \in 1 .. MaxBackoff : queued' = AddAfter(q, d)
    BY <1>4 DEF Fail
  <2> QED
    BY <2>1, NeverLast DEF AddAfter, Bounds
<1>5. queued' \in 0 .. Never
  BY <1>3, <1>4, NeverLast
<1> QED
  BY <1>2, <1>3, <1>5 DEF Fail, NothingStored

\* One that succeeds comes again when it asked to.
LEMMA SucceedType ==
    ASSUME Bounds, Types, NEW q \in 0 .. Never, NEW d \in Int, Succeed(q, d)
    PROVE  /\ fails' = 0 /\ queued' \in 0 .. Never /\ pc' = "idle" /\ stored' = {}
           /\ seen' = {}
           /\ d > 0 => queued' <= d
<1>1. queued' \in 0 .. Never /\ (d > 0 => queued' <= d)
  BY NeverLast DEF Succeed, RequeueAfter, AddAfter
<1> QED
  BY <1>1 DEF Succeed, NothingStored

\* The renewal that SyncClient asks for.
LEMMA RenewalStored ==
    ASSUME Types
    PROVE  Peek(IF Peek(stored) = 0 THEN Push(stored, Refresh, Greater) ELSE stored) = 4
<1>1. Peek(stored) = 0
  BY DEF Types, Peek, NothingStored
<1>2. Push(stored, Refresh, Greater) = {4}
  BY DEF Types, Push, Refresh
<1>3. Peek({4}) = 4
  BY DEF Peek, NothingStored
<1> QED
  BY <1>1, <1>2, <1>3

-----------------------------------------------------------------------------
(* Types, and the client that runs.                                         *)

\* Sync up to the client.
LEMMA SyncMap ==
    ASSUME Bounds, MapInv, NEW f \in BOOLEAN, Sync(f)
    PROVE  MapInv'
<1>1. budget' \in 0 .. MaxDisturb
  BY SpendType DEF Sync, MapInv
<1>2. Never \in 0 .. Never /\ 0 \in Int
  BY NeverLast
<1>3. CASE Remove /\ Succeed(Never, 0)
  <2>1. /\ AtMostOne' /\ RunningIsMapped' /\ running' \subseteq running /\ starts' = starts
    BY <1>3, RemoveMap
  <2>2. /\ fails' = 0 /\ queued' \in 0 .. Never /\ pc' = "idle" /\ stored' = {} /\ seen' = {}
    BY <1>2, <1>3, SucceedType DEF MapInv
  <2> QED
    BY <1>1, <2>1, <2>2 DEF Sync, MapInv, Types, envVars
<1>4. CASE Fail(Never) /\ UNCHANGED mapVars
  BY <1>1, <1>2, <1>4, FailType DEF Sync, MapInv, Types, envVars, mapVars, AtMostOne, RunningIsMapped
<1>5. ASSUME NEW s \in restapis, seen' = {[server |-> s, key |-> key]},
             pc' = "act", queued' = Never, UNCHANGED <<mapVars, fails, stored>>
      PROVE  MapInv'
  <2>1. seen' \subseteq [server : RestApis, key : Keys]
    BY <1>5 DEF MapInv, Types
  <2> QED
    BY <1>1, <1>2, <1>5, <2>1 DEF Sync, MapInv, Types, envVars, mapVars, AtMostOne, RunningIsMapped
<1> QED
  BY <1>3, <1>4, <1>5 DEF Sync

\* The rest of Sync.
LEMMA SyncClientMap ==
    ASSUME Bounds, MapInv, NEW f \in BOOLEAN, SyncClient(f)
    PROVE  MapInv'
<1>1. budget' \in 0 .. MaxDisturb
  BY SpendType DEF SyncClient, MapInv
<1>2. queued \in 0 .. Never /\ 4 \in Int
  BY DEF MapInv, Types
<1>3. PICK r \in seen :
        \/ UpdateClient(r) /\ Succeed(queued, 4)
        \/ Add(r) /\ Succeed(queued, 4)
        \/ Fail(queued) /\ UNCHANGED mapVars
  BY RenewalStored DEF SyncClient, MapInv
<1>4. r \in [server : RestApis, key : Keys]
  BY DEF MapInv, Types
<1>5. CASE UpdateClient(r) /\ Succeed(queued, 4)
  <2>1. /\ AtMostOne' /\ RunningIsMapped' /\ running' = running /\ starts' = starts
    BY <1>4, <1>5, UpdateMap
  <2>2. /\ fails' = 0 /\ queued' \in 0 .. Never /\ pc' = "idle" /\ stored' = {} /\ seen' = {}
    BY <1>2, <1>5, SucceedType DEF MapInv
  <2> QED
    BY <1>1, <2>1, <2>2 DEF SyncClient, MapInv, Types, envVars
<1>6. CASE Add(r) /\ Succeed(queued, 4)
  BY <1>1, <1>2, <1>4, <1>6, AddMap, SucceedType DEF SyncClient, MapInv, Types, envVars
<1>7. CASE Fail(queued) /\ UNCHANGED mapVars
  BY <1>1, <1>2, <1>7, FailType
  DEF SyncClient, MapInv, Types, envVars, mapVars, AtMostOne, RunningIsMapped
<1> QED
  BY <1>3, <1>5, <1>6, <1>7

\* Time passes.
LEMMA TickMap ==
    ASSUME Bounds, MapInv, Tick
    PROVE  MapInv'
<1>1. queued' \in 0 .. Never
  BY NeverLast DEF Tick, MapInv, Types
<1>2. AtMostOne' /\ RunningIsMapped'
  <2>1. clients' = {Older(c) : c \in clients} /\ running' = running
    BY DEF Tick
  <2>2. CASE clients = {}
    BY <2>1, <2>2 DEF AtMostOne, RunningIsMapped, MapInv
  <2>3. ASSUME NEW c \in Clients, clients = {c} PROVE AtMostOne' /\ RunningIsMapped'
    <3>1. clients' = {Older(c)} /\ Older(c) \in Clients /\ Older(c).id = c.id
      BY <2>1, <2>3, OlderClient
    <3>2. {d.id : d \in clients'} = {c.id} /\ {d.id : d \in clients} = {c.id}
      BY <2>3, <3>1
    <3> QED
      BY <2>1, <3>1, <3>2 DEF AtMostOne, RunningIsMapped, MapInv
  <2> QED
    BY <2>2, <2>3 DEF MapInv, Types, AtMostOne
<1> QED
  BY <1>1, <1>2 DEF Tick, MapInv, Types, envVars, opVars

\* What changes around the reconciler.
LEMMA EnvironmentMap ==
    ASSUME Bounds, MapInv, Environment
    PROVE  MapInv'
<1>1. budget' \in 0 .. MaxDisturb
  BY DEF Environment, ControllerChanges, RestApisChange, KeyRotated, Crash, Disturbs,
     Bounds, MapInv, Types
<1>2. CASE ControllerChanges
  BY <1>1, <1>2, NeverLast
  DEF ControllerChanges, MapInv, Types, mapVars, opVars, AtMostOne, RunningIsMapped
<1>3. CASE RestApisChange
  BY <1>1, <1>3
  DEF RestApisChange, MapInv, Types, mapVars, opVars, AtMostOne, RunningIsMapped
<1>4. CASE KeyRotated
  BY <1>1, <1>4 DEF KeyRotated, MapInv, Types, mapVars, opVars, AtMostOne, RunningIsMapped
<1>5. CASE Crash
  BY <1>1, <1>5, NeverLast
  DEF Crash, MapInv, Types, envVars, AtMostOne, RunningIsMapped, NothingStored
<1> QED
  BY <1>2, <1>3, <1>4, <1>5 DEF Environment

\* The types and the match between map and running clients hold at first, and every
\* step preserves them.
LEMMA MapInductive ==
    ASSUME Bounds
    PROVE  (Init => MapInv) /\ (MapInv /\ [Next]_vars => MapInv')
<1>1. Init => MapInv
  BY NeverLast DEF Init, MapInv, Types, AtMostOne, RunningIsMapped, NothingStored, Keys, Bounds
<1>2. ASSUME MapInv, [Next]_vars PROVE MapInv'
  <2>1. CASE Reconcile
    BY <1>2, <2>1, SyncMap, SyncClientMap DEF Reconcile
  <2>2. CASE Tick
    BY <1>2, <2>2, TickMap
  <2>3. CASE Environment
    BY <1>2, <2>3, EnvironmentMap
  <2>4. CASE UNCHANGED vars
    BY <1>2, <2>4
    DEF MapInv, Types, AtMostOne, RunningIsMapped, vars, envVars, mapVars, opVars
  <2> QED
    BY <1>2, <2>1, <2>2, <2>3, <2>4 DEF Next
<1> QED
  BY <1>1, <1>2

\* The inductive form of the types implies TypeOK.
LEMMA MapInvTypes ==
    ASSUME Bounds, MapInv
    PROVE  TypeOK
<1>1. clients \subseteq Clients /\ \A c, d \in clients : c = d
  BY DEF MapInv, Types, AtMostOne
<1> QED
  BY <1>1 DEF MapInv, Types, TypeOK, Lifetime

\* The state stays in its types: in particular the map never holds two clients.
THEOREM ClientsTypeCorrect ==
    ASSUME Bounds
    PROVE  Spec => []TypeOK
<1>1. Init => MapInv
  BY MapInductive
<1>2. MapInv /\ [Next]_vars => MapInv'
  BY MapInductive
<1>3. MapInv => TypeOK
  BY MapInvTypes
<1> QED
  BY <1>1, <1>2, <1>3, PTL DEF Spec

\* Add, Remove and the updates in between leave no client running that is not in the
\* map, and none in the map that was stopped.
THEOREM RunningStaysMapped ==
    ASSUME Bounds
    PROVE  Spec => []RunningIsMapped
<1>1. Init => MapInv
  BY MapInductive
<1>2. MapInv /\ [Next]_vars => MapInv'
  BY MapInductive
<1>3. MapInv => RunningIsMapped
  BY DEF MapInv
<1> QED
  BY <1>1, <1>2, <1>3, PTL DEF Spec

-----------------------------------------------------------------------------
(* Renewal in time.                                                         *)

\* RestApis stay, and too little goes wrong for a retry to be delayed.
RenewalAssumption == "restapi" \notin Disturb /\ MaxDisturb \in 0 .. 2

\* Why a JWT is renewed in time: a Controller without RestApi never gets a client; with
\* one, the failures in a row and what may still go wrong are within the budget, so
\* every retry is immediate; and the request of a client comes before its JWT expires.
Renewal ==
    /\ restapis = {} => clients = {} /\ seen = {}
    /\ restapis # {} => fails + budget <= MaxDisturb
    /\ \A c \in clients : c.left > 0 /\ (pc = "idle" => queued < c.left)

\* The types and the argument for the renewal.
RenewInv == MapInv /\ Renewal

\* After a success the budget is all that counts.
LEMMA ZeroPlus == \A m \in Nat : \A k \in 0 .. m : 0 + k <= m
OBVIOUS

\* Sync up to the client.
LEMMA SyncRenews ==
    ASSUME Bounds, RenewalAssumption, RenewInv, NEW f \in BOOLEAN, Sync(f)
    PROVE  Renewal'
<1> USE DEF RenewInv
<1>1. /\ Never \in 0 .. Never /\ 0 \in Int
      /\ restapis' = restapis /\ fails \in 0 .. 2 /\ budget \in 0 .. MaxDisturb /\ MaxDisturb \in 0 .. 2
  BY NeverLast DEF Sync, envVars, MapInv, Types, RenewalAssumption
<1>2. /\ budget' \in 0 .. MaxDisturb
      /\ f => budget > 0 /\ budget' = budget - 1
      /\ ~f => budget' = budget
  BY SpendType DEF Sync, MapInv
<1>3. CASE Remove /\ Succeed(Never, 0)
  <2>1. clients' = {} /\ seen' = {} /\ fails' = 0
    BY <1>1, <1>3, RemoveMap, SucceedType DEF MapInv
  <2>2. fails' + budget' <= MaxDisturb
    <3>1. budget' \in 0 .. MaxDisturb
      BY <1>2
    <3>2. fails' = 0 /\ MaxDisturb \in Nat
      BY <2>1 DEF Bounds
    <3> QED
      BY <3>1, <3>2, ZeroPlus
  <2> QED
    BY <1>1, <2>1, <2>2 DEF Renewal
<1>4. CASE (f \/ restapis = {}) /\ Fail(Never) /\ UNCHANGED mapVars
  <2>1. /\ seen' = {} /\ clients' = clients
        /\ fails < 2 => fails' = fails + 1 /\ queued' = 0
    BY <1>1, <1>4, FailType DEF MapInv, mapVars
  <2>2. CASE restapis = {}
    BY <1>1, <2>1, <2>2 DEF Renewal
  <2>3. CASE restapis # {}
    <3>0. budget > 0 /\ budget' = budget - 1
      BY <1>2, <1>4, <2>3
    <3>1. fails < 2 /\ fails + budget <= MaxDisturb
      BY <1>1, <2>3, <3>0 DEF Renewal
    <3>2. fails' + budget' <= MaxDisturb /\ queued' = 0
      BY <1>1, <2>1, <3>0, <3>1
    <3>3. \A c \in clients : c.left \in Int /\ c.left > 0
      BY MapCases DEF MapInv, Renewal, Clients
    <3> QED
      BY <1>1, <2>1, <2>3, <3>2, <3>3 DEF Renewal
  <2> QED
    BY <2>2, <2>3
<1>5. ASSUME NEW s \in restapis, ~f, pc' = "act", UNCHANGED <<mapVars, fails, stored>>
      PROVE  Renewal'
  BY <1>1, <1>2, <1>5 DEF Renewal, mapVars
<1> QED
  BY <1>3, <1>4, <1>5 DEF Sync

\* The rest of Sync.
LEMMA SyncClientRenews ==
    ASSUME Bounds, RenewalAssumption, RenewInv, NEW f \in BOOLEAN, SyncClient(f)
    PROVE  Renewal'
<1> USE DEF RenewInv
<1>1. /\ queued \in 0 .. Never /\ 4 \in Int
      /\ restapis' = restapis /\ fails \in 0 .. 2 /\ budget \in 0 .. MaxDisturb /\ MaxDisturb \in 0 .. 2
  BY DEF SyncClient, envVars, MapInv, Types, RenewalAssumption
<1>2. /\ budget' \in 0 .. MaxDisturb
      /\ f => budget > 0 /\ budget' = budget - 1
      /\ ~f => budget' = budget
  BY SpendType DEF SyncClient, MapInv
<1>3. PICK r \in seen :
        \/ UpdateClient(r) /\ Succeed(queued, 4)
        \/ Add(r) /\ Succeed(queued, 4)
        \/ f /\ Fail(queued) /\ UNCHANGED mapVars
  BY RenewalStored DEF SyncClient, MapInv
<1>4. r \in [server : RestApis, key : Keys] /\ restapis # {}
  BY DEF MapInv, Types, Renewal
<1>5. CASE (UpdateClient(r) \/ Add(r)) /\ Succeed(queued, 4)
  <2>1. \A c \in clients' : c.left = 5
    BY <1>4, <1>5, UpdateMap, AddMap DEF Lifetime
  <2>2. fails' = 0 /\ queued' \in 0 .. Never /\ queued' <= 4
    BY <1>1, <1>5, SucceedType DEF MapInv
  <2>3. fails' + budget' <= MaxDisturb
    <3>1. budget' \in 0 .. MaxDisturb
      BY <1>2
    <3>2. fails' = 0 /\ MaxDisturb \in Nat
      BY <2>2 DEF Bounds
    <3> QED
      BY <3>1, <3>2, ZeroPlus
  <2>4. \A c \in clients' : c.left > 0 /\ queued' < c.left
    BY <2>1, <2>2, NeverLast
  <2> QED
    BY <1>1, <1>4, <2>3, <2>4 DEF Renewal
<1>6. CASE f /\ Fail(queued) /\ UNCHANGED mapVars
  <2>1. clients' = clients /\ (fails < 2 => fails' = fails + 1 /\ queued' = 0)
    BY <1>1, <1>6, FailType DEF MapInv, mapVars
  <2>2. fails < 2 /\ fails + budget <= MaxDisturb
    BY <1>1, <1>2, <1>4, <1>6 DEF Renewal
  <2>3. fails' + budget' <= MaxDisturb /\ queued' = 0
    BY <1>1, <1>2, <1>6, <2>1, <2>2
  <2>4. \A c \in clients : c.left \in Int /\ c.left > 0
    BY MapCases DEF MapInv, Renewal, Clients
  <2> QED
    BY <1>1, <1>4, <2>1, <2>3, <2>4 DEF Renewal
<1> QED
  BY <1>3, <1>5, <1>6

\* Time passes, and it stands still before a JWT expires.
LEMMA TickRenews ==
    ASSUME Bounds, RenewalAssumption, RenewInv, Tick
    PROVE  Renewal'
<1> USE DEF RenewInv
<1>1. queued \in 0 .. Never /\ queued # 0 /\ pc = "idle" /\ pc' = pc
  BY DEF Tick, MapInv, Types, opVars
<1>2. \A c \in clients : c \in Clients /\ c.left \in 0 .. Lifetime
  BY MapCases DEF MapInv, Clients
<1>3. \A c \in clients : /\ c.left > 0 /\ queued < c.left /\ queued # Never
                        /\ Older(c).left = c.left - 1
  BY <1>1, <1>2, OlderClient, NeverLast DEF Renewal, Lifetime
<1>4. clients' = {Older(c) : c \in clients} /\ (queued # Never => queued' = queued - 1)
  BY DEF Tick
<1>5. \A d \in clients' : d.left > 0 /\ queued' < d.left
  BY <1>1, <1>2, <1>3, <1>4, NeverLast DEF Lifetime
<1>6. restapis' = restapis /\ seen' = seen /\ fails' = fails /\ budget' = budget
  BY DEF Tick, envVars, opVars
<1> QED
  BY <1>4, <1>5, <1>6 DEF Renewal

\* What changes around the reconciler.
LEMMA EnvironmentRenews ==
    ASSUME Bounds, RenewalAssumption, RenewInv, Environment
    PROVE  Renewal'
<1> USE DEF RenewInv
<1>1. /\ budget > 0 /\ budget' = budget - 1
      /\ fails \in 0 .. 2 /\ budget \in 0 .. MaxDisturb /\ MaxDisturb \in 0 .. 2
  BY DEF Environment, ControllerChanges, RestApisChange, KeyRotated, Crash, Disturbs,
     MapInv, Types, RenewalAssumption
<1>2. \A c \in clients : c.left \in Int /\ c.left > 0
  BY MapCases DEF MapInv, Renewal, Clients
<1>3. CASE ControllerChanges
  BY <1>1, <1>2, <1>3 DEF ControllerChanges, Renewal, mapVars, opVars
<1>4. CASE RestApisChange
  BY <1>4 DEF RestApisChange, Disturbs, RenewalAssumption
<1>5. CASE KeyRotated
  BY <1>1, <1>2, <1>5 DEF KeyRotated, Renewal, mapVars, opVars
<1>6. CASE Crash
  BY <1>1, <1>6 DEF Crash, Renewal, envVars
<1> QED
  BY <1>3, <1>4, <1>5, <1>6 DEF Environment

\* The argument holds at first, and every step preserves it.
LEMMA RenewInductive ==
    ASSUME Bounds, RenewalAssumption
    PROVE  (Init => RenewInv) /\ (RenewInv /\ [Next]_vars => RenewInv')
<1>1. Init => RenewInv
  <2>1. Init => MapInv
    BY MapInductive
  <2>2. Init => Renewal
    BY DEF Init, Renewal, Bounds
  <2> QED
    BY <2>1, <2>2 DEF RenewInv
<1>2. ASSUME RenewInv, [Next]_vars PROVE RenewInv'
  <2>1. MapInv'
    BY <1>2, MapInductive DEF RenewInv
  <2>2. CASE Reconcile
    BY <1>2, <2>1, <2>2, SyncRenews, SyncClientRenews DEF Reconcile, RenewInv
  <2>3. CASE Tick
    BY <1>2, <2>1, <2>3, TickRenews DEF RenewInv
  <2>4. CASE Environment
    BY <1>2, <2>1, <2>4, EnvironmentRenews DEF RenewInv
  <2>5. CASE UNCHANGED vars
    BY <1>2, <2>1, <2>5 DEF RenewInv, Renewal, vars, envVars, mapVars, opVars
  <2> QED
    BY <1>2, <2>2, <2>3, <2>4, <2>5 DEF Next
<1> QED
  BY <1>1, <1>2

\* With RestApis that stay and at most two disturbances, the client in the map never
\* has a JWT that expired.
THEOREM ClientTokenFresh ==
    ASSUME Bounds, RenewalAssumption
    PROVE  Spec => []TokenFresh
<1>1. Init => RenewInv
  BY RenewInductive
<1>2. RenewInv /\ [Next]_vars => RenewInv'
  BY RenewInductive
<1>3. RenewInv => TokenFresh
  BY DEF RenewInv, Renewal, TokenFresh
<1> QED
  BY <1>1, <1>2, <1>3, PTL DEF Spec
=============================================================================
