---------------------------- MODULE TokenRefresh ----------------------------
(***************************************************************************)
(* The Token controller: internal/controller/token.  It keeps a Secret     *)
(* with a JWT for one Token and, if the Token asks for it, replaces the    *)
(* JWT when a fifth of its lifetime is left.                               *)
(*                                                                         *)
(* Nothing wakes the reconciler but the Token itself (its Secret has       *)
(* another owner), a duration it asked for, the retry of an error and the  *)
(* resync of the informers.  Time is counted in fifths of the lifetime; a  *)
(* reconcile and the delay of the informer are shorter than one of them,   *)
(* so time stands still while a request is due, a reconcile runs or the    *)
(* cached Secret is behind.  Reads go to the cache: "cached" may lag       *)
(* behind "secret" within a reconcile when Lag is TRUE.                    *)
(***************************************************************************)
EXTENDS Requeue

CONSTANTS
    Lag,         \* whether a read may return a Secret older than the last write
    Disturb,     \* which disturbances occur
    MaxDisturb   \* bound: number of disturbances and failing calls

VARIABLES
    alive,    \* whether the Token exists
    refresh,  \* spec.refresh, defaulted
    key,      \* the signing key in the referenced Secret
    secret,   \* the Token's Secret in the API server
    cached,   \* the same in the operator's cache
    status,   \* status.issuedAt
    queued,   \* time until the request is handed to the worker
    fails,    \* consecutive failures of the request
    pc,       \* the step of Sync
    seen,     \* spec.refresh as this reconcile read it
    stored,   \* the duration store's entry for the Token
    failed,   \* whether a step of this reconcile failed
    budget    \* disturbances left

objVars == <<alive, refresh, key>>
secVars == <<secret, cached>>
opVars == <<pc, seen, stored, failed>>
vars == <<objVars, secVars, status, queued, fails, opVars, budget>>

Lifetime == 5
Margin == 1            \* token.Lifetime() * 1 / 5
HalfMinute == 1        \* 30 * time.Second, rounded up
Never == Lifetime + 1
Keys == {1, 2}
IssueTimes == 1 .. 4   \* told apart by equality only

NoSecret == [iat |-> 0, left |-> 0, key |-> 0, immutable |-> FALSE]
Secrets == [iat : IssueTimes, left : 0 .. Lifetime, key : Keys, immutable : BOOLEAN]

\* Types of the state.
TypeOK ==
    /\ alive \in BOOLEAN /\ refresh \in BOOLEAN /\ key \in Keys
    /\ secret \in Secrets \cup {NoSecret} /\ cached \in Secrets \cup {NoSecret}
    /\ status \in IssueTimes \cup {0}
    /\ queued \in 0 .. Never /\ fails \in 0 .. 2
    /\ pc \in {"idle", "secret", "refresh", "status"}
    /\ seen \in BOOLEAN /\ failed \in BOOLEAN
    /\ stored \in SUBSET (-Lifetime .. Lifetime)
    /\ budget \in 0 .. MaxDisturb

\* A Token that was just created.
Init ==
    /\ alive = TRUE /\ refresh \in BOOLEAN /\ key = 1
    /\ refresh \/ "refresh" \in Disturb
    /\ secret = NoSecret /\ cached = NoSecret /\ status = 0
    /\ queued = 0 /\ fails = 0
    /\ pc = "idle" /\ seen = TRUE /\ stored = NothingStored /\ failed = FALSE
    /\ budget = MaxDisturb

-----------------------------------------------------------------------------
\* ParseTokenClaims checks the signature before the claims.
GetExpTime(s) ==
    IF s = NoSecret THEN "notfound"
    ELSE IF s.key # key THEN "invalid"
    ELSE IF s.left = 0 THEN "expired"
    ELSE "ok"

\* Faulty variant: the margin is forgotten.
UntilRefreshLate(s) == s.left

UntilRefresh(s) == s.left - Margin

\* BuildTokenSecret: a new JWT, signed with the current key.
BuildTokenSecret(immutable) ==
    [iat |-> CHOOSE i \in IssueTimes : i \notin {secret.iat, cached.iat, status},
     left |-> Lifetime, key |-> key, immutable |-> immutable]

Write(s) == secret' = s /\ cached' = IF Lag THEN cached ELSE s

Spend(f) == IF f THEN "fault" \in Disturb /\ budget > 0 /\ budget' = budget - 1
            ELSE budget' = budget

\* Sync up to its steps. A Token that is gone or being deleted is left alone.
Sync ==
    /\ pc = "idle" /\ queued = 0
    /\ queued' = Never
    /\ \/ ~alive /\ UNCHANGED opVars
       \/ /\ alive
          /\ pc' = "secret" /\ seen' = refresh /\ failed' = FALSE
          /\ stored' = Push(stored, IF GetExpTime(cached) = "ok" THEN UntilRefresh(cached)
                                    ELSE HalfMinute, Less)
    /\ UNCHANGED <<objVars, secVars, status, fails, budget>>

\* The Secret step: SyncObject that creates and never updates. A create that finds
\* the Secret in place reads the cache once more, which still has none.
SecretStep(f) ==
    /\ pc = "secret"
    /\ pc' = "refresh"
    /\ Spend(f)
    /\ \/ /\ cached # NoSecret /\ ~f
          /\ UNCHANGED <<secVars, failed>>
       \/ /\ cached = NoSecret /\ (f \/ secret # NoSecret)
          /\ failed' = TRUE
          /\ UNCHANGED secVars
       \/ /\ cached = NoSecret /\ ~f /\ secret = NoSecret
          /\ Write(BuildTokenSecret(~seen))
          /\ UNCHANGED failed
    /\ UNCHANGED <<objVars, status, queued, fails, seen, stored>>

\* SyncObject with an update: an immutable Secret is skipped without an error.
UpdateSecret(f) ==
    \/ cached.immutable /\ ~f /\ UNCHANGED <<secVars, failed>>
    \/ ~cached.immutable /\ (f \/ secret = NoSecret) /\ failed' = TRUE /\ UNCHANGED secVars
    \/ /\ ~cached.immutable /\ ~f /\ secret # NoSecret
       /\ Write(BuildTokenSecret(secret.immutable))
       /\ UNCHANGED failed

\* Faulty variant: an expired JWT is an error like any other.
RefreshStepUnlessExpired(f) ==
    LET exp == GetExpTime(cached)
    IN
    /\ pc = "refresh"
    /\ pc' = "status"
    /\ Spend(f)
    /\ stored' = IF seen /\ exp = "ok" THEN Push(stored, UntilRefresh(cached), Less) ELSE stored
    /\ \/ (~seen \/ (exp = "ok" /\ UntilRefresh(cached) > 0)) /\ ~f /\ UNCHANGED <<secVars, failed>>
       \/ seen /\ exp # "ok" /\ ~f /\ failed' = TRUE /\ UNCHANGED secVars
       \/ seen /\ exp = "ok" /\ UntilRefresh(cached) <= 0 /\ UpdateSecret(f)
    /\ UNCHANGED <<objVars, status, queued, fails, seen>>

\* Faulty variant: whether the JWT is near its expiration time is not asked.
RefreshStepAlways(f) ==
    LET exp == GetExpTime(cached)
    IN
    /\ pc = "refresh"
    /\ pc' = "status"
    /\ Spend(f)
    /\ stored' = IF seen /\ exp = "ok" THEN Push(stored, UntilRefresh(cached), Less) ELSE stored
    /\ \/ ~seen /\ ~f /\ UNCHANGED <<secVars, failed>>
       \/ seen /\ exp \in {"notfound", "invalid"} /\ ~f /\ failed' = TRUE /\ UNCHANGED secVars
       \/ seen /\ exp \in {"ok", "expired"} /\ UpdateSecret(f)
    /\ UNCHANGED <<objVars, status, queued, fails, seen>>

\* The Refresh step.
RefreshStep(f) ==
    LET exp == GetExpTime(cached)
        early == exp = "ok" /\ UntilRefresh(cached) > 0
    IN
    /\ pc = "refresh"
    /\ pc' = "status"
    /\ Spend(f)
    /\ stored' = IF seen /\ exp = "ok" THEN Push(stored, UntilRefresh(cached), Less) ELSE stored
    /\ \/ (~seen \/ early) /\ ~f /\ UNCHANGED <<secVars, failed>>
       \/ seen /\ exp \in {"notfound", "invalid"} /\ ~f /\ failed' = TRUE /\ UNCHANGED secVars
       \/ seen /\ exp \in {"ok", "expired"} /\ ~early /\ UpdateSecret(f)
    /\ UNCHANGED <<objVars, status, queued, fails, seen>>

\* syncStatus and the end of Reconcile. The status update sends an event only if
\* it changes the Token. An error is retried, soon at first and later with a delay;
\* the duration stored then goes unused.
StatusStep(f) ==
    LET known == GetExpTime(cached) = "ok"
        updates == known /\ ~f
        event == IF updates /\ status # cached.iat THEN 0 ELSE Never
    IN
    /\ pc = "status"
    /\ pc' = "idle"
    /\ Spend(f)
    /\ status' = IF updates /\ alive THEN cached.iat ELSE status
    /\ stored' = NothingStored
    /\ \/ /\ failed \/ ~updates
          /\ fails' = IF fails < 2 THEN fails + 1 ELSE 2
          /\ queued' = AddAfter(queued, IF fails < 2 THEN 0 ELSE 1)
       \/ /\ ~failed /\ updates
          /\ fails' = 0
          /\ queued' = RequeueAfter(AddAfter(queued, IF alive THEN event ELSE Never), Peek(stored))
    /\ UNCHANGED <<objVars, secVars, seen, failed>>

-----------------------------------------------------------------------------
(* The informer, the clock and the people around the Token.                 *)

Deliver ==
    /\ cached # secret
    /\ cached' = secret
    /\ UNCHANGED <<objVars, secret, status, queued, fails, opVars, budget>>

Older(s) == IF s.left > 0 THEN [s EXCEPT !.left = @ - 1] ELSE s

Tick ==
    /\ pc = "idle" /\ queued # 0 /\ cached = secret
    /\ secret.left > 0 \/ queued # Never
    /\ secret' = Older(secret) /\ cached' = Older(cached)
    /\ queued' = IF queued = Never THEN Never ELSE queued - 1
    /\ UNCHANGED <<objVars, status, fails, opVars, budget>>

\* The informers' resync, ten hours apart.
Resync ==
    /\ alive /\ pc = "idle" /\ queued = Never
    /\ secret.left = 0
    /\ queued' = 0
    /\ UNCHANGED <<objVars, secVars, status, fails, opVars, budget>>

Disturbs(kind) == kind \in Disturb /\ budget > 0 /\ budget' = budget - 1

UserTogglesRefresh ==
    /\ Disturbs("refresh") /\ alive
    /\ refresh' = ~refresh /\ queued' = 0
    /\ UNCHANGED <<alive, key, secVars, status, fails, opVars>>

\* Nothing watches the Secret with the signing key either.
KeyRotated ==
    /\ Disturbs("key")
    /\ key' \in Keys \ {key}
    /\ UNCHANGED <<alive, refresh, secVars, status, queued, fails, opVars>>

UserDeletesSecret ==
    /\ Disturbs("secret") /\ secret # NoSecret
    /\ Write(NoSecret)
    /\ UNCHANGED <<objVars, status, queued, fails, opVars>>

\* The Secret stays: its owner is the Secret with the signing key.
UserDeletesToken ==
    /\ Disturbs("token") /\ alive
    /\ alive' = FALSE /\ queued' = 0
    /\ UNCHANGED <<refresh, key, secVars, status, fails, opVars>>

Reconcile == \/ Sync
             \/ \E f \in BOOLEAN : SecretStep(f) \/ RefreshStep(f) \/ StatusStep(f)

Environment ==
    \/ UserTogglesRefresh \/ KeyRotated \/ UserDeletesSecret \/ UserDeletesToken

Next == Reconcile \/ Deliver \/ Tick \/ Resync \/ Environment

Spec == Init /\ [][Next]_vars

\* The worker, the informer and the clock go on; the resync comes.
FairSpec == Spec /\ WF_vars(Reconcile) /\ WF_vars(Deliver) /\ WF_vars(Tick) /\ WF_vars(Resync)

-----------------------------------------------------------------------------
\* A Token that asks for refresh never leaves an expired JWT in its Secret: the
\* chain of durations that Sync pushes always reaches the next refresh.
NeverExpires == alive /\ refresh /\ secret # NoSecret => secret.left > 0

\* The step replaces a JWT that has more than a fifth of its lifetime left.
EarlyRotation ==
    /\ secret # NoSecret /\ secret' # NoSecret /\ secret'.iat # secret.iat
    /\ secret.left > Margin

Rotatable == alive /\ refresh /\ secret # NoSecret /\ ~secret.immutable /\ secret.key = key
Valid == secret # NoSecret /\ secret.left > 0 /\ secret.key = key

\* Whatever a stale read cost, a refreshing Token has a valid JWT again, if only
\* after a resync.
Recovers == []<>(Valid \/ ~Rotatable)
=============================================================================
