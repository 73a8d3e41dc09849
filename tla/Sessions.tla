------------------------------ MODULE Sessions ------------------------------
(***************************************************************************)
(* The life of a login session: pkg/services/auth_service.go over the      *)
(* statements of pkg/repository/auth_repository.go, and the cleaner of     *)
(* cmd/server/main.go.                                                     *)
(*                                                                         *)
(* Each request is a goroutine of its own, so a handler that runs several  *)
(* SQL statements is several actions here: a request p moves through       *)
(* req[p].pc, and other requests run between two of its statements.  One   *)
(* statement is one atomic step.  A statement may fail (Fault); a failure  *)
(* after the statement took effect leaves the tables as success does.      *)
(*                                                                         *)
(* Abstractions.  A token and its SHA-256 are one number, drawn in         *)
(* increasing order; the serial id of a row is the token it was inserted   *)
(* with, so that ids order rows as created_at does.  Time is the flag      *)
(* "expired" of a row.  Of a password there is when it was last set.       *)
(* Accounts exist and are verified.  A request that is turned away by its  *)
(* first read changes nothing and has no action.  The cache of user        *)
(* profiles (setUser, deleteUserCache) is UserCache's.                     *)
(***************************************************************************)
EXTENDS Naturals, FiniteSets

CONSTANTS Users,        \* accounts
          Procs,        \* request goroutines that may be in flight at once
          NoUser,       \* the user of an idle request
          MaxSessions,  \* const maxSessions, 10 in the code
          MaxTokens,    \* bound on the random tokens ever drawn
          MaxFaults     \* bound on failed statements and restarts

ASSUME MaxSessionsAssumption == MaxSessions \in Nat \ {0}
ASSUME BoundsAssumption == MaxTokens \in Nat /\ MaxFaults \in Nat
ASSUME ProcsAssumption == IsFiniteSet(Procs)
ASSUME NoUserAssumption == NoUser \notin Users

VARIABLES sessions,   \* table sessions
          resets,     \* table password_reset_tokens
          req,        \* the requests in flight
          cleaner,    \* the statement cleanExpiredSessions runs next
          issued,     \* tokens drawn so far
          faults,     \* statements that failed and restarts so far
          changedAt   \* table users: tokens drawn when the password was last set

vars == <<sessions, resets, req, cleaner, issued, faults, changedAt>>

-----------------------------------------------------------------------------
(* Tables and requests *)

Token == 1 .. MaxTokens

SessionRow == [id : Token, user : Users, token : Token, expired : BOOLEAN]

ResetRow == [user : Users, token : Token, expired : BOOLEAN]

Pcs == {"idle", "limit", "insert", "refresh", "session", "expire",
        "setpw", "consume", "revoke", "drop"}

\* key is the row id, or the reset token, that the handler keeps in a local.
Request == [pc : Pcs, user : Users \cup {NoUser}, key : 0 .. MaxTokens]

Local(pc, u, key) == [pc |-> pc, user |-> u, key |-> key]

Idle == Local("idle", NoUser, 0)

SessionsOf(u) == {s \in sessions : s.user = u}

\* The requests that passed the limit and have not inserted their session yet.
Opening(u) == {p \in Procs : req[p].pc = "insert" /\ req[p].user = u}

-----------------------------------------------------------------------------
(* Steps shared by the handlers *)

Start(p, r) == req[p] = Idle /\ req' = [req EXCEPT ![p] = r]

Goto(p, pc) == req' = [req EXCEPT ![p].pc = pc]

Return(p) == req' = [req EXCEPT ![p] = Idle]

Draw == issued < MaxTokens /\ issued' = issued + 1

Fault == faults < MaxFaults /\ faults' = faults + 1

Init == /\ sessions = {} /\ resets = {}
        /\ req = [p \in Procs |-> Idle]
        /\ cleaner = "sessions"
        /\ issued = 0 /\ faults = 0
        /\ changedAt = [u \in Users |-> 0]

-----------------------------------------------------------------------------
(* The statements of auth_repository.go *)

\* keep is what ORDER BY created_at DESC OFFSET n spares of rows.
IsNewest(keep, rows, n) ==
    /\ keep \subseteq rows
    /\ Cardinality(keep) <= n
    /\ keep # rows => Cardinality(keep) = n
    /\ \A k \in keep, d \in rows \ keep : d.id < k.id

EnforceSessionLimit(u, n) ==
    \E keep \in SUBSET SessionsOf(u) :
        /\ IsNewest(keep, SessionsOf(u), n)
        /\ sessions' = (sessions \ SessionsOf(u)) \cup keep

CreateSession(u, t) ==
    sessions' = sessions \cup
        {[id |-> t, user |-> u, token |-> t, expired |-> FALSE]}

\* Mutated form: an upsert, which brings back a row deleted since it was read.
UpsertSession(id, t) ==
    sessions' = {s \in sessions : s.id # id} \cup
        {[id |-> id, user |-> CHOOSE u \in Users : TRUE, token |-> t,
          expired |-> FALSE]}

\* WHERE id = $3: no handler looks at the number of rows changed.
UpdateSession(id, t) ==
    sessions' = {IF s.id = id THEN [s EXCEPT !.token = t, !.expired = FALSE] ELSE s
                    : s \in sessions}

DeleteSessionByID(id) == sessions' = {s \in sessions : s.id # id}

DeleteSessionByToken(t) == sessions' = {s \in sessions : s.token # t}

\* Mutated form: only the expired sessions of the account are deleted.
DeleteExpiredSessionsByUserID(u) ==
    sessions' = {s \in sessions : s.user # u \/ ~ s.expired}

DeleteAllSessionsByUserID(u) == sessions' = sessions \ SessionsOf(u)

\* One token per account: the new one replaces the one the account had.
CreatePasswordResetToken(u, t) ==
    resets' = {r \in resets : r.user # u} \cup
        {[user |-> u, token |-> t, expired |-> FALSE]}

DeletePasswordResetToken(t) == resets' = {r \in resets : r.token # t}

SetPassword(u) == changedAt' = [changedAt EXCEPT ![u] = issued]

-----------------------------------------------------------------------------
(* Login, and the callback of Google *)

\* Login read the row of u, and the password it was given matched it.
Login(p, u) ==
    /\ Start(p, Local("limit", u, 0))
    /\ UNCHANGED <<sessions, resets, cleaner, issued, faults, changedAt>>

\* Mutated form: the account that Google's profile names was never loaded.
GoogleCallbackNobody(p, u) ==
    /\ Start(p, Local("limit", NoUser, 0))
    /\ UNCHANGED <<sessions, resets, cleaner, issued, faults, changedAt>>

\* GoogleCallback found the account u of the profile that Google returned.
GoogleCallback(p, u) ==
    /\ Start(p, Local("limit", u, 0))
    /\ UNCHANGED <<sessions, resets, cleaner, issued, faults, changedAt>>

\* Mutated form: no room is made for the session about to be inserted.
LimitToMax(p) ==
    /\ req[p].pc = "limit"
    /\ EnforceSessionLimit(req[p].user, MaxSessions)
    /\ Goto(p, "insert")
    /\ UNCHANGED <<resets, cleaner, issued, faults, changedAt>>

\* EnforceSessionLimit(user.ID, maxSessions-1), whose error is ignored.
LimitSessions(p) ==
    /\ req[p].pc = "limit"
    /\ \/ EnforceSessionLimit(req[p].user, MaxSessions - 1) /\ UNCHANGED faults
       \/ Fault /\ UNCHANGED sessions
    /\ Goto(p, "insert")
    /\ UNCHANGED <<resets, cleaner, issued, changedAt>>

\* The session is inserted under a new token, or the request ends with Internal.
InsertSession(p) ==
    /\ req[p].pc = "insert"
    /\ Draw
    /\ \/ CreateSession(req[p].user, issued') /\ UNCHANGED faults
       \/ Fault /\ UNCHANGED sessions
    /\ Return(p)
    /\ UNCHANGED <<resets, cleaner, changedAt>>

CreateSessionAndRespond(p) == LimitSessions(p) \/ InsertSession(p)

-----------------------------------------------------------------------------
(* Refresh, and Session without an access token *)

\* The row of the token that was presented was found; it will be rotated or, if it
\* has expired, deleted.
GetSessionByToken(p, s, kind) ==
    Start(p, Local(IF s.expired THEN "expire" ELSE kind, s.user, s.id))

Refresh(p) ==
    /\ \E s \in sessions : GetSessionByToken(p, s, "refresh")
    /\ UNCHANGED <<sessions, resets, cleaner, issued, faults, changedAt>>

Session(p) ==
    /\ \E s \in sessions : GetSessionByToken(p, s, "session")
    /\ UNCHANGED <<sessions, resets, cleaner, issued, faults, changedAt>>

\* Mutated form: on an error the row gets back the token it was opened with.
RotateTokenOrRestore(p) ==
    /\ req[p].pc \in {"refresh", "session"}
    /\ Draw
    /\ \/ UpdateSession(req[p].key, issued') /\ UNCHANGED faults
       \/ Fault /\ UpdateSession(req[p].key, req[p].key)
    /\ Return(p)
    /\ UNCHANGED <<resets, cleaner, changedAt>>

\* The row gets a new token and a new expiry.  On an error Refresh answers Internal,
\* and Session answers as if it had worked.
RotateToken(p) ==
    /\ req[p].pc \in {"refresh", "session"}
    /\ Draw
    /\ \/ UpdateSession(req[p].key, issued') /\ UNCHANGED faults
       \/ Fault /\ UNCHANGED sessions
    /\ Return(p)
    /\ UNCHANGED <<resets, cleaner, changedAt>>

\* The expired row is deleted by its id; the error is ignored.
DropExpired(p) ==
    /\ req[p].pc = "expire"
    /\ \/ DeleteSessionByID(req[p].key) /\ UNCHANGED faults
       \/ Fault /\ UNCHANGED sessions
    /\ Return(p)
    /\ UNCHANGED <<resets, cleaner, issued, changedAt>>

-----------------------------------------------------------------------------
(* Logout of one session and of all, one statement each *)

\* A failed DELETE changes nothing, and neither handler reports it.
Logout(t) ==
    /\ DeleteSessionByToken(t)
    /\ UNCHANGED <<resets, req, cleaner, issued, faults, changedAt>>

LogoutAll(u) ==
    /\ DeleteAllSessionsByUserID(u)
    /\ UNCHANGED <<resets, req, cleaner, issued, faults, changedAt>>

-----------------------------------------------------------------------------
(* Forgotten passwords *)

\* The mail that carries the new token may be lost, and the account never know it.
ForgotPassword(u) ==
    /\ Draw
    /\ CreatePasswordResetToken(u, issued')
    /\ UNCHANGED <<sessions, req, cleaner, faults, changedAt>>

\* ResetPassword read its token.  The comparison at lines 258-261 yields "1" = "1"
\* exactly when the expiry has passed and takes the token for expired when it does
\* not: a token still in time goes to "drop" and one past its time is accepted.
ResetPassword(p) ==
    /\ \E r \in resets :
          Start(p, Local(IF r.expired THEN "setpw" ELSE "drop", r.user, r.token))
    /\ UNCHANGED <<sessions, resets, cleaner, issued, faults, changedAt>>

\* The token taken for expired is deleted; the error is ignored.
DropReset(p) ==
    /\ req[p].pc = "drop"
    /\ \/ DeletePasswordResetToken(req[p].key) /\ UNCHANGED faults
       \/ Fault /\ UNCHANGED resets
    /\ Return(p)
    /\ UNCHANGED <<sessions, cleaner, issued, changedAt>>

\* An error here ends the request before anything else is done.
ChangePassword(p) ==
    /\ req[p].pc = "setpw"
    /\ \/ SetPassword(req[p].user) /\ Goto(p, "consume") /\ UNCHANGED faults
       \/ Fault /\ Return(p) /\ UNCHANGED changedAt
    /\ UNCHANGED <<sessions, resets, cleaner, issued>>

\* The errors of the last two statements are ignored.
ConsumeReset(p) ==
    /\ req[p].pc = "consume"
    /\ \/ DeletePasswordResetToken(req[p].key) /\ UNCHANGED faults
       \/ Fault /\ UNCHANGED resets
    /\ Goto(p, "revoke")
    /\ UNCHANGED <<sessions, cleaner, issued, changedAt>>

RevokeSessions(p) ==
    /\ req[p].pc = "revoke"
    /\ \/ DeleteAllSessionsByUserID(req[p].user) /\ UNCHANGED faults
       \/ Fault /\ UNCHANGED sessions
    /\ Return(p)
    /\ UNCHANGED <<resets, cleaner, issued, changedAt>>

-----------------------------------------------------------------------------
(* The cleaner, the passage of time and restarts *)

\* Mutated form: the ticker only purges reset tokens.
CleanNoSession ==
    /\ cleaner = "sessions" /\ cleaner' = "resets"
    /\ UNCHANGED <<sessions, resets, req, issued, faults, changedAt>>

CleanSessions ==
    /\ cleaner = "sessions" /\ cleaner' = "resets"
    /\ \/ sessions' = {s \in sessions : ~ s.expired} /\ UNCHANGED faults
       \/ Fault /\ UNCHANGED sessions
    /\ UNCHANGED <<resets, req, issued, changedAt>>

CleanResets ==
    /\ cleaner = "resets" /\ cleaner' = "sessions"
    /\ \/ resets' = {r \in resets : ~ r.expired} /\ UNCHANGED faults
       \/ Fault /\ UNCHANGED resets
    /\ UNCHANGED <<sessions, req, issued, changedAt>>

\* refreshTokenTTL passes for a session, resetTokenTTL for a reset token.
SessionExpires ==
    /\ \E id \in 1 .. issued :
          sessions' = {IF s.id = id THEN [s EXCEPT !.expired = TRUE] ELSE s : s \in sessions}
    /\ UNCHANGED <<resets, req, cleaner, issued, faults, changedAt>>

ResetExpires ==
    /\ \E t \in 1 .. issued :
          resets' = {IF r.token = t THEN [r EXCEPT !.expired = TRUE] ELSE r : r \in resets}
    /\ UNCHANGED <<sessions, req, cleaner, issued, faults, changedAt>>

\* The server stops and starts again: the requests in flight are lost.
Restart ==
    /\ Fault
    /\ req' = [p \in Procs |-> Idle]
    /\ cleaner' = "sessions"
    /\ UNCHANGED <<sessions, resets, issued, changedAt>>

-----------------------------------------------------------------------------
\* The statements of a request that has started.
Continue(p) ==
    \/ CreateSessionAndRespond(p) \/ RotateToken(p) \/ DropExpired(p)
    \/ DropReset(p) \/ ChangePassword(p) \/ ConsumeReset(p) \/ RevokeSessions(p)

CleanExpiredSessions == CleanSessions \/ CleanResets

Next ==
    \/ \E p \in Procs : \/ Continue(p)
                        \/ Refresh(p) \/ Session(p) \/ ResetPassword(p)
                        \/ \E u \in Users : Login(p, u) \/ GoogleCallback(p, u)
    \/ \E t \in 1 .. issued : Logout(t)
    \/ \E u \in Users : LogoutAll(u) \/ ForgotPassword(u)
    \/ CleanExpiredSessions \/ SessionExpires \/ ResetExpires \/ Restart

Spec == Init /\ [][Next]_vars

\* A goroutine that is running goes on, and the ticker of the cleaner fires for
\* ever; clients and clocks owe nothing.
Fairness == WF_vars(CleanExpiredSessions) /\ \A p \in Procs : WF_vars(Continue(p))

FairSpec == Spec /\ Fairness

-----------------------------------------------------------------------------
(* Properties *)

\* Every variable holds what its table, or the Go type of its local, can hold.
TypeOK ==
    /\ sessions \subseteq SessionRow
    /\ resets \subseteq ResetRow
    /\ req \in [Procs -> Request]
    /\ \A p \in Procs : req[p].pc # "idle" => req[p].user \in Users
    /\ cleaner \in {"sessions", "resets"}
    /\ issued \in 0 .. MaxTokens
    /\ faults \in 0 .. MaxFaults
    /\ changedAt \in [Users -> 0 .. MaxTokens]

\* The limit and the insert are two statements, so logins that overlap exceed
\* maxSessions; what the code does guarantee is that an account never has more
\* sessions than the limit leaves, plus one for each request that may be between
\* the two statements, plus one for each failure of the limit.
SessionsBounded ==
    \A u \in Users :
        Cardinality(SessionsOf(u)) + Cardinality(Opening(u))
            <= (MaxSessions - 1) + Cardinality(Procs) + faults

\* A session that was opened before the password was reset is gone once the
\* request that reset it has revoked the sessions, unless a statement failed or the
\* server restarted between: while such a session is there, some request still has
\* the revocation ahead of it (ResetPassword, lines 272-279).
ResetRevokes ==
    \A s \in sessions :
        \/ s.id > changedAt[s.user]
        \/ faults > 0
        \/ \E p \in Procs : req[p].pc \in {"consume", "revoke"} /\ req[p].user = s.user

\* What the abstract registry knows of a row.
Entry(s) == [id |-> s.id, user |-> s.user, token |-> s.token]

Entries == {Entry(s) : s \in sessions}

Registry == INSTANCE SessionRegistry WITH open <- Entries

\* The handlers implement the abstract registry: whatever refreshes, logouts,
\* revocations and purges overlap, each statement opens one session, moves one to a
\* new token, or closes some (UpdateSession WHERE id, line 364).
ImplementsRegistry == Registry!Spec

\* A session that was logged out, revoked, evicted or purged is never open again,
\* whatever request had read its row before (Refresh and Session, lines 347-364).
NeverReopened == Registry!NeverReopened

\* A refresh token that opens nothing any more, because it was rotated or its session
\* closed, never opens anything again.
NeverReissued == Registry!NeverReissued

\* The ticker of cleanExpiredSessions purges every expired session that no request
\* renews meanwhile.
ExpiredPurged ==
    \A i \in 1 .. MaxTokens :
        (\E s \in sessions : s.id = i /\ s.expired)
            ~> ~ \E s \in sessions : s.id = i /\ s.expired

\* "Constant-time expiry check", line 257; the mail says "expira em 15 minutos": a
\* reset token past its time is not accepted and one in time is.
ResetHonoursExpiry ==
    [][\A p \in Procs, r \in resets :
          (req[p] = Idle /\ req'[p].key = r.token /\ req'[p].pc \in {"setpw", "drop"})
             => (req'[p].pc = "drop" <=> r.expired)]_vars

\* "Consume token", line 276: a reset token changes the password at most once.
ResetTokenUsedOnce ==
    [][\A p, q \in Procs :
          (p # q /\ req[p].pc = "setpw" /\ req'[p].pc = "consume")
             => ~ (req[q].pc \in {"consume", "revoke"} /\ req[q].key = req[p].key)]_vars
=============================================================================
