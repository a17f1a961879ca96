------------------------- MODULE TokenRefreshProofs -------------------------
(***************************************************************************)
(* Proofs about the Token controller, for every set of disturbances and    *)
(* any number of them, unless a theorem says otherwise.                    *)
(***************************************************************************)
EXTENDS TokenRefresh, TLAPS

\* What the duration store holds for the Token.
Durations == -Lifetime .. Lifetime

-----------------------------------------------------------------------------
(* The duration store and the work queue.                                   *)

\* Push keeps one of the durations, the smaller one under Less; an entry that was pushed
\* is not empty.
LEMMA PushLess ==
    ASSUME NEW S \in SUBSET Int, NEW stock \in SUBSET S, NEW d \in S
    PROVE  /\ Push(stock, d, Less) \in SUBSET S
           /\ Push(stock, d, Less) # {}
           /\ \A x \in Push(stock, d, Less) : x = d \/ x \in stock
<1>1. Push(stock, d, Less) = {d} \/ (Push(stock, d, Less) = stock /\ stock # {})
  BY DEF Push
<1> QED
  BY <1>1

\* Peek returns what is stored.
LEMMA PeekStored ==
    ASSUME NEW stock, stock # {}
    PROVE  Peek(stock) \in stock
BY DEF Peek, NothingStored

\* The earlier of two times stands, and a duration that is not positive is no requeue.
LEMMA QueueTypes ==
    ASSUME NEW q \in 0 .. Never, NEW d \in Int
    PROVE  /\ d >= 0 => AddAfter(q, d) \in 0 .. Never /\ AddAfter(q, d) <= q /\ AddAfter(q, d) <= d
           /\ RequeueAfter(q, d) \in 0 .. Never /\ RequeueAfter(q, d) <= q
           /\ d > 0 => RequeueAfter(q, d) <= d
BY DEF AddAfter, RequeueAfter, Never, Lifetime

-----------------------------------------------------------------------------
(* JWTs.                                                                    *)

\* There is a time of issue that differs from any three others.
LEMMA NewIssueTime ==
    ASSUME NEW a, NEW b, NEW c
    PROVE  \E i \in IssueTimes : i \notin {a, b, c}
<1>1. 1 \in IssueTimes /\ 2 \in IssueTimes /\ 3 \in IssueTimes /\ 4 \in IssueTimes
  BY DEF IssueTimes
<1>2. \E i \in {1, 2, 3, 4} : i \notin {a, b, c}
  OBVIOUS
<1> QED
  BY <1>1, <1>2

\* A JWT that is built is new, signed with the current key, and has its whole lifetime.
LEMMA BuiltSecret ==
    ASSUME TypeOK, NEW immutable \in BOOLEAN
    PROVE  LET s == BuildTokenSecret(immutable) IN
           /\ s \in Secrets /\ s # NoSecret
           /\ s.iat \notin {secret.iat, cached.iat, status}
           /\ s.left = Lifetime /\ s.key = key /\ s.immutable = immutable
<1> DEFINE i == CHOOSE i \in IssueTimes : i \notin {secret.iat, cached.iat, status}
<1>1. i \in IssueTimes /\ i \notin {secret.iat, cached.iat, status}
  BY NewIssueTime
<1>2. BuildTokenSecret(immutable) =
          [iat |-> i, left |-> Lifetime, key |-> key, immutable |-> immutable]
  BY DEF BuildTokenSecret
<1>3. key \in Keys /\ Lifetime \in 0 .. Lifetime /\ Lifetime # 0
  BY DEF TypeOK, Lifetime
<1> HIDE DEF i
<1> QED
  BY <1>1, <1>2, <1>3 DEF Secrets, NoSecret

\* A Secret is one with a JWT or none.
LEMMA SecretFields ==
    ASSUME NEW s \in Secrets \cup {NoSecret}
    PROVE  /\ s.left \in 0 .. Lifetime /\ s.immutable \in BOOLEAN
           /\ s # NoSecret => s \in Secrets /\ s.iat \in IssueTimes
           /\ UntilRefresh(s) \in Durations /\ UntilRefresh(s) = s.left - 1
<1>1. s.immutable \in BOOLEAN
  <2>1. CASE s = NoSecret
    BY <2>1, NoSecret.immutable = FALSE DEF NoSecret
  <2>2. CASE s \in Secrets
    BY <2>2 DEF Secrets
  <2> QED
    BY <2>1, <2>2
<1>2. s.left \in 0 .. Lifetime /\ (s # NoSecret => s \in Secrets /\ s.iat \in IssueTimes)
  BY DEF Secrets, NoSecret, Lifetime
<1>3. UntilRefresh(s) \in Durations /\ UntilRefresh(s) = s.left - 1
  BY <1>2 DEF UntilRefresh, Durations, Lifetime, Margin
<1> QED
  BY <1>1, <1>2, <1>3

\* A JWT grows older and stays the same otherwise.
LEMMA OlderSecret ==
    ASSUME NEW s \in Secrets \cup {NoSecret}
    PROVE  /\ Older(s) \in Secrets \cup {NoSecret}
           /\ Older(s) = NoSecret <=> s = NoSecret
           /\ Older(s).iat = s.iat /\ Older(s).key = s.key /\ Older(s).immutable = s.immutable
           /\ s.left > 0 => Older(s).left = s.left - 1
<1>1. CASE s.left > 0
  <2>1. s \in Secrets
    BY <1>1 DEF NoSecret
  <2>2. Older(s) = [iat |-> s.iat, left |-> s.left - 1, key |-> s.key, immutable |-> s.immutable]
    BY <1>1, <2>1 DEF Older, Secrets
  <2>3. s.left - 1 \in 0 .. Lifetime
    BY <1>1, <2>1 DEF Secrets, Lifetime
  <2>4. Older(s) \in Secrets /\ Older(s) # NoSecret /\ s # NoSecret
    BY <2>1, <2>2, <2>3 DEF Secrets, NoSecret, IssueTimes
  <2> QED
    BY <2>2, <2>4
<1>2. CASE ~(s.left > 0)
  BY <1>2 DEF Older
<1> QED
  BY <1>1, <1>2

-----------------------------------------------------------------------------
(* Types.                                                                   *)

\* Sync asks to be run again, after the time to the next refresh or half a minute.
LEMMA SyncType == TypeOK /\ Sync => TypeOK'
<1> SUFFICES ASSUME TypeOK, Sync PROVE TypeOK'
  OBVIOUS
<1>1. queued' \in 0 .. Never
  BY DEF Sync, Never, Lifetime
<1>2. CASE ~alive /\ UNCHANGED opVars
  BY <1>1, <1>2 DEF Sync, TypeOK, opVars, objVars, secVars
<1>3. CASE alive /\ pc' = "secret"
  <2> DEFINE d == IF GetExpTime(cached) = "ok" THEN UntilRefresh(cached) ELSE HalfMinute
  <2>1. d \in Durations
    BY SecretFields DEF TypeOK, Durations, HalfMinute, Lifetime
  <2>2. stored' \in SUBSET Durations
    <3>1. stored' = Push(stored, d, Less)
      BY <1>3 DEF Sync
    <3>2. stored \in SUBSET Durations /\ Durations \in SUBSET Int
      BY DEF TypeOK, Durations, Lifetime
    <3> HIDE DEF d
    <3> QED
      BY <2>1, <3>1, <3>2, PushLess
  <2>3. seen' \in BOOLEAN /\ failed' \in BOOLEAN
    BY <1>3 DEF Sync, TypeOK
  <2> QED
    BY <1>1, <1>3, <2>2, <2>3 DEF Sync, TypeOK, Durations, objVars, secVars
<1> QED
  BY <1>2, <1>3 DEF Sync

\* A failing call and a disturbance are taken from the budget.
LEMMA SpendType ==
    ASSUME MaxDisturb \in Nat, TypeOK, NEW f \in BOOLEAN, Spend(f)
    PROVE  /\ budget' \in 0 .. MaxDisturb
           /\ f => budget' = budget - 1
           /\ ~f => budget' = budget
BY DEF Spend, TypeOK

\* A Secret that is built reaches the API server, and the cache unless it lags.
LEMMA WriteType ==
    ASSUME TypeOK, NEW immutable \in BOOLEAN, Write(BuildTokenSecret(immutable))
    PROVE  /\ secret' \in Secrets \cup {NoSecret} /\ cached' \in Secrets \cup {NoSecret}
           /\ secret' # NoSecret /\ secret'.iat \notin {secret.iat, cached.iat, status}
           /\ secret'.left = Lifetime /\ secret'.key = key /\ secret'.immutable = immutable
<1>1. secret' = BuildTokenSecret(immutable) /\ (cached' = cached \/ cached' = secret')
  BY DEF Write
<1>2. cached \in Secrets \cup {NoSecret}
  BY DEF TypeOK
<1> QED
  BY <1>1, <1>2, BuiltSecret

\* The Secret step creates the Secret or leaves it.
LEMMA SecretStepType ==
    ASSUME MaxDisturb \in Nat, TypeOK, NEW f \in BOOLEAN, SecretStep(f)
    PROVE  TypeOK'
<1>1. budget' \in 0 .. MaxDisturb
  BY SpendType DEF SecretStep
<1>2. secret' \in Secrets \cup {NoSecret} /\ cached' \in Secrets \cup {NoSecret}
  <2>1. (~seen) \in BOOLEAN
    BY DEF TypeOK
  <2>2. UNCHANGED secVars \/ Write(BuildTokenSecret(~seen))
    BY DEF SecretStep
  <2> QED
    BY <2>1, <2>2, WriteType DEF secVars, TypeOK
<1>3. failed' \in BOOLEAN
  BY DEF SecretStep, TypeOK
<1> QED
  BY <1>1, <1>2, <1>3 DEF SecretStep, TypeOK, objVars

\* The Refresh step replaces the Secret or leaves it.
LEMMA RefreshStepType ==
    ASSUME MaxDisturb \in Nat, TypeOK, NEW f \in BOOLEAN, RefreshStep(f)
    PROVE  TypeOK'
<1>1. budget' \in 0 .. MaxDisturb
  BY SpendType DEF RefreshStep
<1>2. secret' \in Secrets \cup {NoSecret} /\ cached' \in Secrets \cup {NoSecret}
  <2>1. secret.immutable \in BOOLEAN
    BY SecretFields DEF TypeOK
  <2>2. UNCHANGED secVars \/ Write(BuildTokenSecret(secret.immutable))
    BY DEF RefreshStep, UpdateSecret
  <2> QED
    BY <2>1, <2>2, WriteType DEF secVars, TypeOK
<1>3. failed' \in BOOLEAN
  BY DEF RefreshStep, UpdateSecret, TypeOK
<1>4. stored' \in SUBSET Durations
  <2>1. stored' = stored \/ stored' = Push(stored, UntilRefresh(cached), Less)
    BY DEF RefreshStep
  <2>2. stored \in SUBSET Durations /\ Durations \in SUBSET Int
    BY DEF TypeOK, Durations, Lifetime
  <2>3. UntilRefresh(cached) \in Durations
    BY SecretFields DEF TypeOK
  <2>4. Push(stored, UntilRefresh(cached), Less) \in SUBSET Durations
    BY <2>2, <2>3, PushLess
  <2> QED
    BY <2>1, <2>2, <2>4
<1> QED
  BY <1>1, <1>2, <1>3, <1>4 DEF RefreshStep, TypeOK, objVars, Durations

\* The end of a reconcile puts its request back, for now, later or never.
LEMMA StatusStepType ==
    ASSUME MaxDisturb \in Nat, TypeOK, NEW f \in BOOLEAN, StatusStep(f)
    PROVE  TypeOK'
<1>1. budget' \in 0 .. MaxDisturb
  BY SpendType DEF StatusStep
<1>2. status' \in IssueTimes \cup {0}
  <2>1. GetExpTime(cached) = "ok" => cached # NoSecret
    BY DEF GetExpTime
  <2> QED
    BY <2>1, SecretFields DEF StatusStep, TypeOK
<1>3. fails' \in 0 .. 2
  BY DEF StatusStep, TypeOK
<1>4. queued' \in 0 .. Never
  <2>1. queued \in 0 .. Never /\ 0 \in Int /\ 1 \in Int /\ Never \in Int /\ Never >= 0
    BY DEF TypeOK, Never, Lifetime
  <2>2. Peek(stored) \in Int
    <3>1. CASE stored = {}
      BY <3>1 DEF Peek, NothingStored
    <3>2. CASE stored # {}
      <4>1. Peek(stored) \in stored
        BY <3>2, PeekStored
      <4>2. stored \subseteq Int
        BY DEF TypeOK, Lifetime
      <4> QED
        BY <4>1, <4>2
    <3> QED
      BY <3>1, <3>2
  <2>3. \/ queued' = AddAfter(queued, 0) \/ queued' = AddAfter(queued, 1)
        \/ queued' = RequeueAfter(AddAfter(queued, 0), Peek(stored))
        \/ queued' = RequeueAfter(AddAfter(queued, Never), Peek(stored))
    BY DEF StatusStep
  <2>4. /\ AddAfter(queued, 0) \in 0 .. Never /\ AddAfter(queued, 1) \in 0 .. Never
        /\ AddAfter(queued, Never) \in 0 .. Never
    BY <2>1 DEF AddAfter
  <2>5. /\ RequeueAfter(AddAfter(queued, 0), Peek(stored)) \in 0 .. Never
        /\ RequeueAfter(AddAfter(queued, Never), Peek(stored)) \in 0 .. Never
    BY <2>2, <2>4, QueueTypes
  <2> QED
    BY <2>3, <2>4, <2>5
<1>5. stored' \in SUBSET Durations
  BY DEF StatusStep, NothingStored
<1> QED
  BY <1>1, <1>2, <1>3, <1>4, <1>5 DEF StatusStep, TypeOK, objVars, secVars, Durations

\* The informer, the clock and the resync.
LEMMA ClusterType == TypeOK /\ (Deliver \/ Tick \/ Resync) => TypeOK'
<1> SUFFICES ASSUME TypeOK, Deliver \/ Tick \/ Resync PROVE TypeOK'
  OBVIOUS
<1>1. CASE Deliver
  BY <1>1 DEF Deliver, TypeOK, objVars, opVars
<1>2. CASE Tick
  <2>1. secret' \in Secrets \cup {NoSecret} /\ cached' \in Secrets \cup {NoSecret}
    BY <1>2, OlderSecret DEF Tick, TypeOK
  <2>2. queued' \in 0 .. Never
    BY <1>2 DEF Tick, TypeOK, Never, Lifetime
  <2> QED
    BY <1>2, <2>1, <2>2 DEF Tick, TypeOK, objVars, opVars
<1>3. CASE Resync
  <2>1. 0 \in 0 .. Never
    BY DEF Never, Lifetime
  <2> QED
    BY <1>3, <2>1 DEF Resync, TypeOK, objVars, opVars, secVars
<1> QED
  BY <1>1, <1>2, <1>3

\* The people around the Token.
LEMMA EnvironmentType ==
    ASSUME MaxDisturb \in Nat, TypeOK, Environment
    PROVE  TypeOK'
<1>1. 0 \in 0 .. Never
  BY DEF Never, Lifetime
<1>2. budget' \in 0 .. MaxDisturb
  BY DEF Environment, UserTogglesRefresh, KeyRotated, UserDeletesSecret, UserDeletesToken,
         Disturbs, TypeOK
<1>3. CASE UserTogglesRefresh
  BY <1>1, <1>2, <1>3 DEF UserTogglesRefresh, TypeOK, secVars, opVars
<1>4. CASE KeyRotated
  BY <1>2, <1>4 DEF KeyRotated, TypeOK, secVars, opVars
<1>5. CASE UserDeletesSecret
  BY <1>2, <1>5 DEF UserDeletesSecret, Write, TypeOK, objVars, opVars
<1>6. CASE UserDeletesToken
  BY <1>1, <1>2, <1>6 DEF UserDeletesToken, TypeOK, secVars, opVars
<1> QED
  BY <1>3, <1>4, <1>5, <1>6 DEF Environment

\* The type invariant is inductive.
LEMMA TypeInductive ==
    ASSUME MaxDisturb \in Nat
    PROVE  (Init => TypeOK) /\ (TypeOK /\ [Next]_vars => TypeOK')
<1>1. Init => TypeOK
  <2>1. 0 \in 0 .. Never /\ 0 \in 0 .. 2 /\ 1 \in Keys /\ MaxDisturb \in 0 .. MaxDisturb
    BY DEF Never, Lifetime, Keys
  <2> QED
    BY <2>1 DEF Init, TypeOK, NothingStored
<1>2. ASSUME TypeOK, [Next]_vars PROVE TypeOK'
  <2>1. CASE Reconcile
    BY <1>2, <2>1, SyncType, SecretStepType, RefreshStepType, StatusStepType DEF Reconcile
  <2>2. CASE Deliver \/ Tick \/ Resync
    BY <1>2, <2>2, ClusterType
  <2>3. CASE Environment
    BY <1>2, <2>3, EnvironmentType
  <2>4. CASE UNCHANGED vars
    BY <1>2, <2>4 DEF TypeOK, vars, objVars, secVars, opVars
  <2> QED
    BY <1>2, <2>1, <2>2, <2>3, <2>4 DEF Next
<1> QED
  BY <1>1, <1>2

-----------------------------------------------------------------------------
(* A JWT is not replaced before its time.                                   *)

\* The cache shows the Secret.
Fresh == cached = secret

\* Without lag the cache always shows the Secret.
LEMMA NoLagInductive ==
    ASSUME ~Lag
    PROVE  /\ Init => Fresh
           /\ Fresh /\ [Next]_vars => Fresh'
<1>1. Init => Fresh
  BY DEF Init, Fresh
<1>2. ASSUME Fresh, [Next]_vars PROVE Fresh'
  <2>1. CASE Sync \/ \E f \in BOOLEAN : StatusStep(f)
    BY <1>2, <2>1 DEF Sync, StatusStep, secVars, Fresh
  <2>2. CASE \E f \in BOOLEAN : SecretStep(f) \/ RefreshStep(f)
    BY <1>2, <2>2 DEF SecretStep, RefreshStep, UpdateSecret, Write, secVars, Fresh
  <2>3. CASE Deliver \/ Tick \/ Resync
    BY <1>2, <2>3 DEF Deliver, Tick, Resync, secVars, Fresh
  <2>4. CASE Environment
    BY <1>2, <2>4 DEF Environment, UserTogglesRefresh, KeyRotated, UserDeletesSecret,
                      UserDeletesToken, Write, secVars, Fresh
  <2>5. CASE UNCHANGED vars
    BY <1>2, <2>5 DEF vars, secVars, Fresh
  <2> QED
    BY <1>2, <2>1, <2>2, <2>3, <2>4, <2>5 DEF Next, Reconcile
<1> QED
  BY <1>1, <1>2

\* A step that replaces a JWT is one of refreshSecret, for a JWT whose time has come.
LEMMA StepRotatesInTime ==
    ASSUME TypeOK, Fresh, [Next]_vars
    PROVE  ~EarlyRotation
<1> SUFFICES ASSUME secret # NoSecret, secret' # NoSecret, secret' # secret,
                    secret'.iat # secret.iat
             PROVE  ~(secret.left > Margin)
  BY DEF EarlyRotation
<1> USE DEF Fresh
<1>1. CASE \E f \in BOOLEAN : RefreshStep(f)
  <2>1. PICK f \in BOOLEAN : RefreshStep(f)
    BY <1>1
  <2>2. ~(GetExpTime(cached) = "ok" /\ UntilRefresh(cached) > 0)
        /\ GetExpTime(cached) \in {"ok", "expired"}
    BY <2>1 DEF RefreshStep, secVars
  <2>3. secret.left \in 0 .. Lifetime
    BY SecretFields DEF TypeOK
  <2>4. CASE GetExpTime(cached) = "ok"
    BY <2>2, <2>3, <2>4 DEF UntilRefresh, Margin, Lifetime
  <2>5. CASE GetExpTime(cached) = "expired"
    BY <2>5 DEF GetExpTime, Margin
  <2> QED
    BY <2>2, <2>4, <2>5
<1>2. CASE Sync \/ Deliver \/ Resync \/ \E f \in BOOLEAN : SecretStep(f) \/ StatusStep(f)
  BY <1>2 DEF Sync, Deliver, Resync, SecretStep, StatusStep, secVars
<1>3. CASE Tick
  <2>1. secret \in Secrets \cup {NoSecret} /\ secret' = Older(secret)
    BY <1>3 DEF Tick, TypeOK
  <2> QED
    BY <2>1, OlderSecret
<1>4. CASE Environment
  BY <1>4 DEF Environment, UserTogglesRefresh, KeyRotated, UserDeletesSecret,
              UserDeletesToken, Write, secVars
<1>5. CASE UNCHANGED vars
  BY <1>5 DEF vars, secVars
<1> QED
  BY <1>1, <1>2, <1>3, <1>4, <1>5 DEF Next, Reconcile

-----------------------------------------------------------------------------
(* A JWT does not expire.                                                   *)

\* What the chain of durations rests on: reads are fresh, nobody turns the refresh off
\* and on or rotates the signing key, and at most two calls fail or Secrets are deleted.
\* A third failure in a row is retried after a delay in which a JWT can expire.
RefreshAssumption ==
    /\ ~Lag
    /\ "refresh" \notin Disturb /\ "key" \notin Disturb
    /\ MaxDisturb \in 0 .. 2

\* This reconcile is going to fail: a step of it has, or the Secret is gone again.
Doomed == pc # "idle" /\ (failed \/ (pc \in {"refresh", "status"} /\ secret = NoSecret))

\* The end of this reconcile brings one in time: by a duration in the store, or by the
\* event of a status that changes.
Covered ==
    \/ \A d \in stored : 0 < d /\ d < secret.left
    \/ status # secret.iat

\* The inductive invariant. Each failure in a row was paid for. A JWT has time left as
\* long as the Token exists, and between reconciles the next one comes before it expires.
Chain ==
    /\ cached = secret
    /\ refresh /\ (pc # "idle" => seen /\ stored # {})
    /\ secret # NoSecret => secret.key = key /\ ~secret.immutable
    /\ fails + budget + (IF Doomed THEN 1 ELSE 0) <= MaxDisturb
    /\ pc = "idle" => stored = {}
    /\ secret # NoSecret /\ (alive \/ pc # "idle") => secret.left > 0
    /\ secret # NoSecret /\ alive /\ pc = "idle" => queued < secret.left
    /\ secret # NoSecret /\ pc \in {"secret", "refresh"} => Covered \/ secret.left <= Margin
    /\ secret # NoSecret /\ pc = "status" /\ ~failed => Covered

\* A JWT that is there, with time left, is valid.
LEMMA ValidJwt ==
    ASSUME TypeOK, Chain, cached # NoSecret, cached.left > 0
    PROVE  GetExpTime(cached) = "ok"
BY DEF Chain, GetExpTime

\* Sync asks for a run before the JWT expires, or finds one whose time has come.
LEMMA SyncChain ==
    ASSUME RefreshAssumption, TypeOK, Chain, Sync
    PROVE  Chain'
<1> DEFINE d == IF GetExpTime(cached) = "ok" THEN UntilRefresh(cached) ELSE HalfMinute
<1>1. UNCHANGED <<objVars, secVars, status, fails, budget>> /\ pc = "idle" /\ stored = {}
  BY DEF Sync, Chain
<1>2. CASE ~alive
  <2>1. UNCHANGED opVars
    BY <1>2 DEF Sync
  <2> QED
    BY <1>1, <1>2, <2>1 DEF Chain, Doomed, Covered, objVars, secVars, opVars
<1>3. CASE alive
  <2>1. pc' = "secret" /\ seen' = refresh /\ failed' = FALSE /\ stored' = Push(stored, d, Less)
    BY <1>3 DEF Sync
  <2>2. stored' = {d}
    BY <1>1, <2>1 DEF Push
  <2>3. ~Doomed' /\ ~Doomed
    BY <1>1, <2>1 DEF Doomed
  <2>4. secret # NoSecret => secret.left > 0 /\ d = secret.left - 1
    <3> SUFFICES ASSUME secret # NoSecret PROVE secret.left > 0 /\ d = secret.left - 1
      OBVIOUS
    <3>1. secret.left > 0 /\ cached = secret
      BY <1>3 DEF Chain
    <3>2. GetExpTime(cached) = "ok"
      BY <3>1, ValidJwt
    <3> QED
      BY <3>1, <3>2, SecretFields DEF TypeOK
  <2>5. secret # NoSecret => Covered' \/ secret'.left <= Margin
    <3> SUFFICES ASSUME secret # NoSecret PROVE Covered' \/ secret'.left <= Margin
      OBVIOUS
    <3>1. secret.left \in 0 .. Lifetime /\ secret' = secret
      BY <1>1, SecretFields DEF TypeOK, secVars
    <3> HIDE DEF d
    <3> QED
      BY <2>2, <2>4, <3>1 DEF Covered, Margin, Lifetime
  <2> QED
    BY <1>1, <1>3, <2>1, <2>2, <2>3, <2>4, <2>5 DEF Chain, objVars, secVars
<1> QED
  BY <1>2, <1>3

\* The numbers that Chain adds up.
LEMMA ChainNumbers ==
    ASSUME RefreshAssumption, TypeOK
    PROVE  fails \in Nat /\ budget \in Nat /\ MaxDisturb \in Nat /\ MaxDisturb <= 2
BY DEF RefreshAssumption, TypeOK

\* The Secret that the Secret step creates changes the status later on.
LEMMA SecretStepChain ==
    ASSUME RefreshAssumption, TypeOK, Chain, NEW f \in BOOLEAN, SecretStep(f)
    PROVE  Chain'
<1> USE ChainNumbers
<1>1. /\ UNCHANGED <<objVars, status, queued, fails, seen, stored>>
      /\ pc = "secret" /\ pc' = "refresh" /\ seen /\ stored # {}
      /\ cached = secret
  BY DEF SecretStep, Chain
<1>2. Doomed <=> failed
  BY <1>1 DEF Doomed
<1>3. Doomed' <=> failed' \/ secret' = NoSecret
  BY <1>1 DEF Doomed
<1>4. CASE cached # NoSecret /\ ~f /\ UNCHANGED <<secVars, failed>>
  <2>1. budget' = budget
    BY <1>4, SpendType DEF SecretStep, RefreshAssumption
  <2>2. Covered' <=> Covered
    BY <1>1, <1>4 DEF Covered, secVars
  <2>3. Doomed' <=> Doomed
    BY <1>1, <1>2, <1>3, <1>4 DEF secVars
  <2> QED
    BY <1>1, <1>4, <2>1, <2>2, <2>3 DEF Chain, objVars, secVars
<1>5. CASE cached = NoSecret /\ f /\ failed' = TRUE /\ UNCHANGED secVars
  <2>1. budget' = budget - 1
    BY <1>5, SpendType DEF SecretStep, RefreshAssumption
  <2>2. Doomed'
    BY <1>3, <1>5
  <2>3. fails' + budget' + 1 <= MaxDisturb
    BY <1>1, <2>1 DEF Chain
  <2> QED
    BY <1>1, <1>5, <2>2, <2>3 DEF Chain, objVars, secVars
<1>6. CASE /\ cached = NoSecret /\ ~f /\ secret = NoSecret
           /\ Write(BuildTokenSecret(~seen)) /\ UNCHANGED failed
  <2>1. budget' = budget
    BY <1>6, SpendType DEF SecretStep, RefreshAssumption
  <2>2. /\ secret' # NoSecret /\ secret'.iat # status
        /\ secret'.left = Lifetime /\ secret'.key = key /\ secret'.immutable = ~seen
    BY <1>6, WriteType, (~seen) \in BOOLEAN DEF TypeOK
  <2>3. cached' = secret'
    BY <1>6 DEF Write, RefreshAssumption
  <2>4. Covered'
    BY <1>1, <2>2 DEF Covered
  <2>5. Doomed' <=> Doomed
    BY <1>2, <1>3, <1>6, <2>2
  <2> QED
    BY <1>1, <1>6, <2>1, <2>2, <2>3, <2>4, <2>5 DEF Chain, objVars, Lifetime
<1> QED
  BY <1>1, <1>4, <1>5, <1>6 DEF SecretStep

\* What the Refresh step pushes is in time, too.
LEMMA RefreshStepCovers ==
    ASSUME RefreshAssumption, TypeOK, Chain, NEW f \in BOOLEAN, RefreshStep(f)
    PROVE  /\ stored' # {}
           /\ secret # NoSecret =>
                \A d \in stored' : d \in stored \/ (d = secret.left - 1 /\ d \in Int)
<1>1. stored # {} /\ cached = secret
  BY DEF RefreshStep, Chain
<1>2. CASE stored' = stored
  BY <1>1, <1>2
<1>3. CASE stored' = Push(stored, UntilRefresh(cached), Less)
  <2>1. UntilRefresh(cached) = secret.left - 1 /\ UntilRefresh(cached) \in Durations
    BY <1>1, SecretFields DEF TypeOK
  <2>2. Durations \in SUBSET Int /\ stored \in SUBSET Durations
    BY DEF Durations, TypeOK, Lifetime
  <2>3. stored' # {} /\ \A d \in stored' : d = UntilRefresh(cached) \/ d \in stored
    BY <1>3, <2>1, <2>2, PushLess
  <2> QED
    BY <2>1, <2>2, <2>3
<1> QED
  BY <1>2, <1>3 DEF RefreshStep

\* A JWT whose time has come is replaced, or the reconcile fails.
LEMMA RefreshStepChain ==
    ASSUME RefreshAssumption, TypeOK, Chain, NEW f \in BOOLEAN, RefreshStep(f)
    PROVE  Chain'
<1> USE ChainNumbers
<1>1. /\ UNCHANGED <<objVars, status, queued, fails, seen>>
      /\ pc = "refresh" /\ pc' = "status" /\ seen
      /\ cached = secret /\ stored' # {}
  BY RefreshStepCovers DEF RefreshStep, Chain
<1>2. Doomed <=> failed \/ secret = NoSecret
  BY <1>1 DEF Doomed
<1>3. Doomed' <=> failed' \/ secret' = NoSecret
  BY <1>1 DEF Doomed
<1>4. CASE secret = NoSecret
  <2>1. GetExpTime(cached) = "notfound"
    BY <1>1, <1>4 DEF GetExpTime
  <2>2. ~f /\ failed' = TRUE /\ UNCHANGED secVars
    BY <1>1, <2>1 DEF RefreshStep
  <2>3. budget' = budget
    BY <2>2, SpendType DEF RefreshStep, RefreshAssumption
  <2> QED
    BY <1>1, <1>2, <1>3, <1>4, <2>2, <2>3 DEF Chain, objVars, secVars
<1>5. CASE secret # NoSecret
  <2>1. secret.left \in 1 .. Lifetime /\ GetExpTime(cached) = "ok"
    BY <1>1, <1>5, SecretFields, ValidJwt DEF Chain, TypeOK
  <2>2. UntilRefresh(cached) = secret.left - 1
    BY <1>1, SecretFields DEF TypeOK
  <2>3. CASE secret.left > Margin
    <3>1. ~f /\ UNCHANGED <<secVars, failed>>
      BY <1>1, <2>1, <2>2, <2>3 DEF RefreshStep, Margin, Lifetime
    <3>2. budget' = budget
      BY <3>1, SpendType DEF RefreshStep, RefreshAssumption
    <3>3. Covered'
      <4>1. Covered
        BY <1>1, <1>5, <2>1, <2>3 DEF Chain, Margin, Lifetime
      <4>2. \A d \in stored' : d \in stored \/ d = secret.left - 1
        BY <1>5, RefreshStepCovers
      <4>3. secret' = secret /\ status' = status
        BY <1>1, <3>1 DEF secVars
      <4> QED
        BY <2>1, <2>3, <4>1, <4>2, <4>3 DEF Covered, Margin, Lifetime
    <3>4. Doomed' <=> Doomed
      BY <1>2, <1>3, <3>1 DEF secVars
    <3> QED
      BY <1>1, <3>1, <3>2, <3>3, <3>4 DEF Chain, objVars, secVars
  <2>4. CASE ~(secret.left > Margin)
    <3>1. UpdateSecret(f)
      BY <1>1, <2>1, <2>2, <2>4 DEF RefreshStep, Margin, Lifetime
    <3>2. ~cached.immutable
      BY <1>1, <1>5 DEF Chain
    <3>3. CASE f
      <4>1. failed' = TRUE /\ UNCHANGED secVars
        BY <3>1, <3>2, <3>3 DEF UpdateSecret
      <4>2. budget' = budget - 1
        BY <3>3, SpendType DEF RefreshStep, RefreshAssumption
      <4>3. fails' + budget' + 1 <= MaxDisturb /\ Doomed'
        BY <1>1, <1>3, <4>1, <4>2 DEF Chain
      <4> QED
        BY <1>1, <4>1, <4>3 DEF Chain, objVars, secVars
    <3>4. CASE ~f
      <4>1. Write(BuildTokenSecret(secret.immutable)) /\ UNCHANGED failed
        BY <1>5, <3>1, <3>2, <3>4 DEF UpdateSecret
      <4>2. budget' = budget
        BY <3>4, SpendType DEF RefreshStep, RefreshAssumption
      <4>3. /\ secret' # NoSecret /\ secret'.iat # status
            /\ secret'.left = Lifetime /\ secret'.key = key
            /\ secret'.immutable = secret.immutable
        BY <4>1, WriteType, SecretFields DEF TypeOK
      <4>4. cached' = secret'
        BY <4>1 DEF Write, RefreshAssumption
      <4>5. Covered'
        BY <1>1, <4>3 DEF Covered
      <4>6. Doomed' <=> Doomed
        BY <1>2, <1>3, <1>5, <4>1, <4>3
      <4> QED
        BY <1>1, <1>5, <3>2, <4>2, <4>3, <4>4, <4>5, <4>6 DEF Chain, objVars, Lifetime
    <3> QED
      BY <3>3, <3>4
  <2> QED
    BY <2>3, <2>4
<1> QED
  BY <1>4, <1>5

\* A reconcile that fails is retried at once; one that does not comes again in time.
LEMMA StatusStepChain ==
    ASSUME RefreshAssumption, TypeOK, Chain, NEW f \in BOOLEAN, StatusStep(f)
    PROVE  Chain'
<1> USE ChainNumbers
<1>1. /\ UNCHANGED <<objVars, secVars, seen, failed>>
      /\ pc = "status" /\ pc' = "idle" /\ stored' = {} /\ stored # {}
      /\ cached = secret
  BY DEF StatusStep, Chain, NothingStored
<1>2. Doomed <=> failed \/ secret = NoSecret
  BY <1>1 DEF Doomed
<1>3. ~Doomed'
  BY <1>1 DEF Doomed
<1>4. secret # NoSecret => GetExpTime(cached) = "ok"
  BY <1>1, ValidJwt DEF Chain
<1>5. queued \in 0 .. Never /\ (secret # NoSecret => secret.left \in 1 .. Lifetime)
  BY <1>1, SecretFields DEF TypeOK, Chain
<1>6. /\ f => budget' = budget - 1
      /\ ~f => budget' = budget
      /\ budget' \in Nat
  BY SpendType DEF StatusStep, RefreshAssumption
<1>7. /\ fails' + budget' <= MaxDisturb
      /\ secret # NoSecret /\ alive => queued' < secret.left
  <2>1. CASE failed \/ secret = NoSecret \/ f
    <3>1. fails < 2 /\ fails + 1 + budget' <= MaxDisturb
      <4>1. CASE Doomed
        BY <1>6, <4>1 DEF Chain
      <4>2. CASE ~Doomed
        BY <1>2, <1>6, <2>1, <4>2 DEF Chain
      <4> QED
        BY <4>1, <4>2
    <3>2. secret = NoSecret => GetExpTime(cached) # "ok"
      BY <1>1 DEF GetExpTime
    <3>3. fails' = fails + 1 /\ queued' = AddAfter(queued, 0)
      BY <2>1, <3>1, <3>2 DEF StatusStep
    <3>4. queued' = 0
      BY <1>5, <3>3 DEF AddAfter, Never, Lifetime
    <3> QED
      BY <1>5, <3>1, <3>3, <3>4
  <2>2. CASE ~failed /\ secret # NoSecret /\ ~f
    <3>1. /\ fails' = 0
          /\ queued' = RequeueAfter(AddAfter(queued, IF alive THEN IF status # cached.iat
                                                    THEN 0 ELSE Never ELSE Never), Peek(stored))
      BY <1>4, <2>2 DEF StatusStep
    <3>2. fails' + budget' <= MaxDisturb
      BY <1>6, <2>2, <3>1 DEF Chain
    <3>3. Peek(stored) \in stored /\ Peek(stored) \in Int
      <4>1. Peek(stored) \in stored
        BY <1>1, PeekStored
      <4>2. stored \subseteq Int
        BY DEF TypeOK, Lifetime
      <4> QED
        BY <4>1, <4>2
    <3>4. Covered
      BY <1>1, <2>2 DEF Chain
    <3>5. CASE alive /\ status # secret.iat
      <4>1. queued' = RequeueAfter(AddAfter(queued, 0), Peek(stored))
        BY <1>1, <3>1, <3>5
      <4>2. queued' = 0
        BY <1>5, <3>3, <4>1 DEF RequeueAfter, AddAfter, Never, Lifetime
      <4> QED
        BY <1>5, <3>2, <4>2
    <3>6. CASE alive /\ status = secret.iat
      <4>1. queued' = RequeueAfter(AddAfter(queued, Never), Peek(stored))
        BY <1>1, <3>1, <3>6
      <4>2. 0 < Peek(stored) /\ Peek(stored) < secret.left
        BY <3>3, <3>4, <3>6 DEF Covered
      <4>3. queued' <= Peek(stored) /\ queued' \in Int
        BY <1>5, <3>3, <4>1, <4>2 DEF RequeueAfter, AddAfter, Never, Lifetime
      <4> QED
        BY <1>5, <3>2, <3>3, <4>2, <4>3
    <3> QED
      BY <3>2, <3>5, <3>6
  <2> QED
    BY <2>1, <2>2
<1>8. fails' \in Nat /\ budget' \in Nat
  BY <1>6, StatusStepType DEF RefreshAssumption, TypeOK
<1>9. fails' + budget' + (IF Doomed' THEN 1 ELSE 0) <= MaxDisturb
  BY <1>3, <1>7, <1>8
<1> QED
  BY <1>1, <1>7, <1>9 DEF Chain, objVars, secVars

\* Time passes only up to the next reconcile.
LEMMA ClusterChain ==
    ASSUME RefreshAssumption, TypeOK, Chain, Deliver \/ Tick \/ Resync
    PROVE  Chain'
<1> USE ChainNumbers
<1>1. ~Deliver
  BY DEF Deliver, Chain
<1>2. CASE Tick
  <2>1. /\ UNCHANGED <<objVars, status, fails, opVars, budget>>
        /\ pc = "idle" /\ cached' = secret' /\ secret' = Older(secret)
        /\ queued' = IF queued = Never THEN Never ELSE queued - 1
    BY <1>2 DEF Tick, Chain
  <2>2. ~Doomed /\ ~Doomed'
    BY <2>1 DEF Doomed, opVars
  <2>3. /\ secret' = NoSecret <=> secret = NoSecret
        /\ secret'.key = secret.key /\ secret'.immutable = secret.immutable
        /\ secret.left > 0 => secret'.left = secret.left - 1
    BY <2>1, OlderSecret DEF TypeOK
  <2>4. secret # NoSecret /\ alive => queued' < secret'.left /\ secret'.left > 0
    <3> SUFFICES ASSUME secret # NoSecret, alive
                 PROVE  queued' < secret'.left /\ secret'.left > 0
      OBVIOUS
    <3>1. queued \in 0 .. Never /\ queued # 0 /\ queued < secret.left
          /\ secret.left \in 1 .. Lifetime
      BY <1>2, <2>1, SecretFields DEF TypeOK, Chain, Tick
    <3> QED
      BY <2>1, <2>3, <3>1 DEF Never, Lifetime
  <2> QED
    BY <2>1, <2>2, <2>3, <2>4 DEF Chain, objVars, opVars
<1>3. CASE Resync
  <2>1. /\ UNCHANGED <<objVars, secVars, status, fails, opVars, budget>>
        /\ pc = "idle" /\ secret = NoSecret
    BY <1>3 DEF Resync, Chain
  <2>2. ~Doomed /\ ~Doomed'
    BY <2>1 DEF Doomed, opVars
  <2> QED
    BY <2>1, <2>2 DEF Chain, objVars, secVars, opVars
<1> QED
  BY <1>1, <1>2, <1>3

\* Users delete the Secret, at the expense of the budget, or the Token.
LEMMA EnvironmentChain ==
    ASSUME RefreshAssumption, TypeOK, Chain, Environment
    PROVE  Chain'
<1> USE ChainNumbers
<1>1. budget' = budget - 1
  BY DEF Environment, UserTogglesRefresh, KeyRotated, UserDeletesSecret, UserDeletesToken,
         Disturbs
<1>2. CASE UserDeletesSecret
  <2>1. /\ UNCHANGED <<objVars, status, queued, fails, opVars>>
        /\ secret' = NoSecret /\ cached' = NoSecret
    BY <1>2 DEF UserDeletesSecret, Write, RefreshAssumption
  <2>2. fails' + budget' + (IF Doomed' THEN 1 ELSE 0) <= MaxDisturb
    BY <1>1, <2>1 DEF Chain
  <2> QED
    BY <2>1, <2>2 DEF Chain, objVars, opVars
<1>3. CASE UserDeletesToken
  <2>1. UNCHANGED <<refresh, key, secVars, status, fails, opVars>> /\ alive' = FALSE
    BY <1>3 DEF UserDeletesToken
  <2>2. /\ Doomed' <=> Doomed
        /\ Covered' <=> Covered
    BY <2>1 DEF Doomed, Covered, secVars, opVars
  <2>3. fails' + budget' + (IF Doomed' THEN 1 ELSE 0) <= MaxDisturb
    BY <1>1, <2>1, <2>2 DEF Chain
  <2> QED
    BY <2>1, <2>2, <2>3 DEF Chain, secVars, opVars
<1>4. ~UserTogglesRefresh /\ ~KeyRotated
  BY DEF UserTogglesRefresh, KeyRotated, Disturbs, RefreshAssumption
<1> QED
  BY <1>2, <1>3, <1>4 DEF Environment

\* The chain of durations does not break.
LEMMA ChainInductive ==
    ASSUME RefreshAssumption
    PROVE  (Init => Chain) /\ (TypeOK /\ Chain /\ [Next]_vars => Chain')
<1>1. ASSUME Init PROVE Chain
  <2>1. refresh /\ ~Doomed /\ MaxDisturb \in Nat
    BY <1>1 DEF Init, RefreshAssumption, Doomed
  <2>2. fails + budget + (IF Doomed THEN 1 ELSE 0) <= MaxDisturb
    BY <1>1, <2>1 DEF Init
  <2> QED
    BY <1>1, <2>1, <2>2 DEF Init, Chain, NothingStored
<1>2. ASSUME TypeOK, Chain, [Next]_vars PROVE Chain'
  <2>1. CASE Reconcile
    BY <1>2, <2>1, SyncChain, SecretStepChain, RefreshStepChain, StatusStepChain DEF Reconcile
  <2>2. CASE Deliver \/ Tick \/ Resync
    BY <1>2, <2>2, ClusterChain
  <2>3. CASE Environment
    BY <1>2, <2>3, EnvironmentChain
  <2>4. CASE UNCHANGED vars
    BY <1>2, <2>4 DEF Chain, Doomed, Covered, vars, objVars, secVars, opVars
  <2> QED
    BY <1>2, <2>1, <2>2, <2>3, <2>4 DEF Next
<1>3. (Init => Chain) /\ (TypeOK /\ Chain /\ [Next]_vars => Chain')
  BY <1>1, <1>2
<1> QED
  BY <1>3

-----------------------------------------------------------------------------
\* Every reachable state of the Token controller is well typed, whatever interferes.
THEOREM TokenTypeCorrect ==
    ASSUME MaxDisturb \in Nat
    PROVE  Spec => []TypeOK
BY TypeInductive, PTL DEF Spec

\* With reads as fresh as the last write, refreshSecret replaces a JWT only when a fifth
\* of its lifetime, or less, is left: whatever fails, is deleted, rotated or toggled, and
\* however often.
THEOREM RotationInTime ==
    ASSUME MaxDisturb \in Nat, ~Lag
    PROVE  Spec => [][~EarlyRotation]_vars
<1>1. TypeOK /\ Fresh /\ [Next]_vars => [~EarlyRotation]_vars
  BY StepRotatesInTime
<1> QED
  BY <1>1, TypeInductive, NoLagInductive, PTL DEF Spec

\* A Token that asks for refresh never leaves an expired JWT in its Secret, if at most two
\* calls fail or Secrets are deleted: the durations that Sync pushes, the events of a
\* changed status and the retries bring the next reconcile in time.
THEOREM JwtNeverExpires ==
    ASSUME RefreshAssumption
    PROVE  Spec => []NeverExpires
<1>1. MaxDisturb \in Nat
  BY DEF RefreshAssumption
<1>2. Chain => NeverExpires
  BY DEF Chain, NeverExpires
<1> QED
  BY <1>1, <1>2, TypeInductive, ChainInductive, PTL DEF Spec
=============================================================================
