--------------------------- MODULE SessionsProofs ---------------------------
(***************************************************************************)
(* Theorems about Sessions.tla, for every set of accounts, every finite    *)
(* set of requests and every value of the bounds.                          *)
(***************************************************************************)
EXTENDS Sessions, FiniteSetTheorems, FunctionTheorems, TLAPS

-----------------------------------------------------------------------------
(* Typing *)

ReqOK(r) == /\ r \in [Procs -> Request]
            /\ \A p \in Procs : r[p].pc # "idle" => r[p].user \in Users

\* The requests that the handlers start are well typed.
LEMMA RequestTypes ==
    ASSUME NEW pc \in Pcs, NEW u \in Users, NEW k \in 0 .. MaxTokens
    PROVE  Local(pc, u, k) \in Request /\ Local(pc, u, k).user = u
BY DEF Request, Local

\* What the three ways of moving a request on do to the requests.
LEMMA ReqMoves ==
    ASSUME ReqOK(req), NEW p \in Procs
    PROVE  /\ Return(p) => ReqOK(req')
           /\ \A pc \in Pcs : Goto(p, pc) /\ req[p].pc # "idle" => ReqOK(req')
           /\ \A r \in Request : Start(p, r) /\ r.user \in Users => ReqOK(req')
<1>1. Idle \in Request
  BY BoundsAssumption DEF Idle, Local, Request, Pcs
<1>2. Return(p) => ReqOK(req')
  BY <1>1 DEF Return, ReqOK, Idle, Local
<1>3. ASSUME NEW pc \in Pcs, Goto(p, pc), req[p].pc # "idle"
      PROVE  ReqOK(req')
  BY <1>3 DEF Goto, ReqOK, Request
<1>4. ASSUME NEW r \in Request, Start(p, r), r.user \in Users
      PROVE  ReqOK(req')
  BY <1>4 DEF Start, ReqOK
<1>5. QED BY <1>2, <1>3, <1>4

\* The statements on the table of sessions keep its rows well typed.
LEMMA StatementTypes ==
    ASSUME TypeOK
    PROVE  /\ \A u, n : EnforceSessionLimit(u, n) => sessions' \subseteq SessionRow
           /\ \A u \in Users, t \in Token : CreateSession(u, t) => sessions' \subseteq SessionRow
           /\ \A id : \A t \in Token : UpdateSession(id, t) => sessions' \subseteq SessionRow
           /\ \A id : DeleteSessionByID(id) => sessions' \subseteq SessionRow
           /\ \A t : DeleteSessionByToken(t) => sessions' \subseteq SessionRow
           /\ \A u : DeleteAllSessionsByUserID(u) => sessions' \subseteq SessionRow
           /\ \A u \in Users, t \in Token :
                 CreatePasswordResetToken(u, t) => resets' \subseteq ResetRow
           /\ \A t : DeletePasswordResetToken(t) => resets' \subseteq ResetRow
<1>0. sessions \subseteq SessionRow /\ resets \subseteq ResetRow
  BY DEF TypeOK
<1>1. \A u, n : EnforceSessionLimit(u, n) => sessions' \subseteq SessionRow
  BY <1>0 DEF EnforceSessionLimit, IsNewest, SessionsOf
<1>2. ASSUME NEW u \in Users, NEW t \in Token, CreateSession(u, t)
      PROVE  sessions' \subseteq SessionRow
  <2>1. [id |-> t, user |-> u, token |-> t, expired |-> FALSE] \in SessionRow
    BY DEF SessionRow
  <2>2. QED BY <1>0, <1>2, <2>1 DEF CreateSession
<1>3. ASSUME NEW id, NEW t \in Token, UpdateSession(id, t)
      PROVE  sessions' \subseteq SessionRow
  BY <1>0, <1>3 DEF UpdateSession, SessionRow
<1>4. ASSUME NEW u \in Users, NEW t \in Token, CreatePasswordResetToken(u, t)
      PROVE  resets' \subseteq ResetRow
  <2>1. [user |-> u, token |-> t, expired |-> FALSE] \in ResetRow
    BY DEF ResetRow
  <2>2. QED BY <1>0, <1>4, <2>1 DEF CreatePasswordResetToken
<1>5. /\ \A id : DeleteSessionByID(id) => sessions' \subseteq SessionRow
      /\ \A t : DeleteSessionByToken(t) => sessions' \subseteq SessionRow
      /\ \A u : DeleteAllSessionsByUserID(u) => sessions' \subseteq SessionRow
      /\ \A t : DeletePasswordResetToken(t) => resets' \subseteq ResetRow
  BY <1>0 DEF DeleteSessionByID, DeleteSessionByToken, DeleteAllSessionsByUserID,
              DeletePasswordResetToken
<1>6. QED BY <1>1, <1>2, <1>3, <1>4, <1>5

LEMMA DrawTypes ==
    ASSUME TypeOK
    PROVE  /\ Draw => issued' \in Token /\ issued' \in 0 .. MaxTokens
           /\ Fault => faults' \in 0 .. MaxFaults
BY BoundsAssumption DEF TypeOK, Draw, Fault, Token

\* Every step keeps every variable in its type.
LEMMA TypeStep == TypeOK /\ [Next]_vars => TypeOK'
<1> SUFFICES ASSUME TypeOK, [Next]_vars PROVE TypeOK'
  OBVIOUS
<1> USE DEF TypeOK
<1>r. ReqOK(req) BY DEF ReqOK
<1>s. sessions \subseteq SessionRow /\ \A s \in sessions : s.user \in Users /\ s.id \in Token
  BY DEF SessionRow
<1>e. resets \subseteq ResetRow /\ \A r \in resets : r.user \in Users /\ r.token \in Token
  BY DEF ResetRow
<1>q. \A p \in Procs : req[p] \in Request /\ req[p].key \in 0 .. MaxTokens
  BY DEF Request
<1>k. Token \subseteq 0 .. MaxTokens BY BoundsAssumption DEF Token
<1>1. ASSUME NEW p \in Procs, NEW u \in Users, Login(p, u) \/ GoogleCallback(p, u)
      PROVE  TypeOK'
  <2>1. "limit" \in Pcs /\ 0 \in 0 .. MaxTokens
    BY BoundsAssumption DEF Pcs
  <2>2. ReqOK(req')
    BY <1>1, <1>r, <2>1, RequestTypes, ReqMoves DEF Login, GoogleCallback
  <2>3. QED BY <1>1, <2>2 DEF Login, GoogleCallback, ReqOK
<1>2. ASSUME NEW p \in Procs, Refresh(p) \/ Session(p)
      PROVE  TypeOK'
  <2>1. PICK s \in sessions, kind \in {"refresh", "session"} : GetSessionByToken(p, s, kind)
    BY <1>2 DEF Refresh, Session
  <2>2. (IF s.expired THEN "expire" ELSE kind) \in Pcs /\ s.id \in 0 .. MaxTokens
    BY <1>s, <1>k DEF Pcs
  <2>3. ReqOK(req')
    BY <2>1, <2>2, <1>r, <1>s, RequestTypes, ReqMoves DEF GetSessionByToken
  <2>4. QED BY <1>2, <2>3 DEF Refresh, Session, ReqOK
<1>3. ASSUME NEW p \in Procs, ResetPassword(p)
      PROVE  TypeOK'
  <2>1. PICK r \in resets :
           Start(p, Local(IF r.expired THEN "setpw" ELSE "drop", r.user, r.token))
    BY <1>3 DEF ResetPassword
  <2>2. (IF r.expired THEN "setpw" ELSE "drop") \in Pcs /\ r.token \in 0 .. MaxTokens
    BY <1>e, <1>k DEF Pcs
  <2>3. ReqOK(req')
    BY <2>1, <2>2, <1>r, <1>e, RequestTypes, ReqMoves
  <2>4. QED BY <1>3, <2>3 DEF ResetPassword, ReqOK
<1>4. ASSUME NEW p \in Procs, LimitSessions(p)
      PROVE  TypeOK'
  <2>1. ReqOK(req')
    BY <1>4, <1>r, ReqMoves DEF LimitSessions, Pcs
  <2>2. sessions' \subseteq SessionRow /\ faults' \in 0 .. MaxFaults
    BY <1>4, StatementTypes, DrawTypes DEF LimitSessions
  <2>3. QED BY <1>4, <2>1, <2>2 DEF LimitSessions, ReqOK
<1>5. ASSUME NEW p \in Procs, InsertSession(p)
      PROVE  TypeOK'
  <2>1. ReqOK(req') BY <1>5, <1>r, ReqMoves DEF InsertSession
  <2>2. issued' \in Token /\ issued' \in 0 .. MaxTokens
    BY <1>5, DrawTypes DEF InsertSession
  <2>3. sessions' \subseteq SessionRow /\ faults' \in 0 .. MaxFaults
    BY <1>5, <1>q, <2>2, StatementTypes, DrawTypes DEF InsertSession
  <2>4. QED BY <1>5, <2>1, <2>2, <2>3 DEF InsertSession, ReqOK
<1>6. ASSUME NEW p \in Procs, RotateToken(p)
      PROVE  TypeOK'
  <2>1. ReqOK(req') BY <1>6, <1>r, ReqMoves DEF RotateToken
  <2>2. issued' \in Token /\ issued' \in 0 .. MaxTokens
    BY <1>6, DrawTypes DEF RotateToken
  <2>3. sessions' \subseteq SessionRow /\ faults' \in 0 .. MaxFaults
    BY <1>6, <2>2, StatementTypes, DrawTypes DEF RotateToken
  <2>4. QED BY <1>6, <2>1, <2>2, <2>3 DEF RotateToken, ReqOK
<1>7. ASSUME NEW p \in Procs, DropExpired(p) \/ RevokeSessions(p)
      PROVE  TypeOK'
  <2>1. ReqOK(req') BY <1>7, <1>r, ReqMoves DEF DropExpired, RevokeSessions
  <2>2. sessions' \subseteq SessionRow /\ faults' \in 0 .. MaxFaults
    BY <1>7, StatementTypes, DrawTypes DEF DropExpired, RevokeSessions
  <2>3. QED BY <1>7, <2>1, <2>2 DEF DropExpired, RevokeSessions, ReqOK
<1>8. ASSUME NEW p \in Procs, DropReset(p) \/ ConsumeReset(p)
      PROVE  TypeOK'
  <2>1. ReqOK(req') BY <1>8, <1>r, ReqMoves DEF DropReset, ConsumeReset, Pcs
  <2>2. resets' \subseteq ResetRow /\ faults' \in 0 .. MaxFaults
    BY <1>8, StatementTypes, DrawTypes DEF DropReset, ConsumeReset
  <2>3. QED BY <1>8, <2>1, <2>2 DEF DropReset, ConsumeReset, ReqOK
<1>9. ASSUME NEW p \in Procs, ChangePassword(p)
      PROVE  TypeOK'
  <2>1. ReqOK(req') BY <1>9, <1>r, ReqMoves DEF ChangePassword, Pcs
  <2>2. faults' \in 0 .. MaxFaults BY <1>9, DrawTypes DEF ChangePassword
  <2>3. changedAt' \in [Users -> 0 .. MaxTokens]
    BY <1>9 DEF ChangePassword, SetPassword
  <2>4. QED BY <1>9, <2>1, <2>2, <2>3 DEF ChangePassword, ReqOK
<1>10. ASSUME NEW t \in 1 .. issued, Logout(t)
       PROVE  TypeOK'
  BY <1>10, StatementTypes DEF Logout
<1>11. ASSUME NEW u \in Users, LogoutAll(u)
       PROVE  TypeOK'
  BY <1>11, StatementTypes DEF LogoutAll
<1>12. ASSUME NEW u \in Users, ForgotPassword(u)
       PROVE  TypeOK'
  BY <1>12, StatementTypes, DrawTypes DEF ForgotPassword
<1>13. ASSUME CleanExpiredSessions
       PROVE  TypeOK'
  BY <1>13, DrawTypes DEF CleanExpiredSessions, CleanSessions, CleanResets
<1>14. ASSUME SessionExpires
       PROVE  TypeOK'
  <2>1. sessions' \subseteq SessionRow BY <1>14, <1>s DEF SessionExpires, SessionRow
  <2>2. QED BY <1>14, <2>1 DEF SessionExpires
<1>15. ASSUME ResetExpires
       PROVE  TypeOK'
  <2>1. resets' \subseteq ResetRow BY <1>15, <1>e DEF ResetExpires, ResetRow
  <2>2. QED BY <1>15, <2>1 DEF ResetExpires
<1>16. ASSUME Restart
       PROVE  TypeOK'
  <2>1. Idle \in Request /\ Idle.pc = "idle" BY BoundsAssumption DEF Idle, Local, Request, Pcs
  <2>2. ReqOK(req') BY <1>16, <2>1 DEF Restart, ReqOK
  <2>3. QED BY <1>16, <2>2, DrawTypes DEF Restart, ReqOK
<1>17. CASE UNCHANGED vars
  BY <1>17 DEF vars
<1>18. QED
  BY <1>1, <1>2, <1>3, <1>4, <1>5, <1>6, <1>7, <1>8, <1>9, <1>10, <1>11, <1>12,
     <1>13, <1>14, <1>15, <1>16, <1>17
     DEF Next, Continue, CreateSessionAndRespond

\* Spec keeps every variable in its type (all handlers of auth_service.go on
\* sessions and password resets).
THEOREM TypeCorrect == Spec => []TypeOK
<1>1. Init => TypeOK
  BY BoundsAssumption DEF Init, TypeOK, Idle, Local, Request, Pcs
<1>2. QED BY <1>1, TypeStep, PTL DEF Spec

-----------------------------------------------------------------------------
(* The bound on sessions *)

SessionsFinite == IsFiniteSet(sessions)

\* Rows are told apart by id and by token, and both were drawn.
RowsDistinct ==
    /\ \A s \in sessions : s.id <= issued /\ s.token <= issued
    /\ \A s, t \in sessions : (s.id = t.id \/ s.token = t.token) => s = t

\* Deleting rows shrinks every account's set of sessions.
LEMMA Shrink ==
    ASSUME SessionsFinite, sessions' \subseteq sessions
    PROVE  /\ SessionsFinite'
           /\ \A u : Cardinality(SessionsOf(u)') <= Cardinality(SessionsOf(u))
<1>1. SessionsFinite' BY FS_Subset DEF SessionsFinite
<1>2. ASSUME NEW u
      PROVE  Cardinality(SessionsOf(u)') <= Cardinality(SessionsOf(u))
  <2>1. SessionsOf(u)' \subseteq SessionsOf(u) /\ SessionsOf(u) \subseteq sessions
    BY DEF SessionsOf
  <2>2. IsFiniteSet(SessionsOf(u)) BY <2>1, FS_Subset DEF SessionsFinite
  <2>3. QED BY <2>1, <2>2, FS_Subset
<1>3. QED BY <1>1, <1>2

\* So does changing rows one by one without changing their account.
LEMMA Remap ==
    ASSUME SessionsFinite, NEW f, f = [s \in sessions |-> f[s]],
           sessions' = {f[s] : s \in sessions}, \A s \in sessions : f[s].user = s.user
    PROVE  /\ SessionsFinite'
           /\ \A u : Cardinality(SessionsOf(u)') <= Cardinality(SessionsOf(u))
<1>1. SessionsFinite'
  <2>1. f \in Surjection(sessions, sessions')
    BY DEF Surjection
  <2>2. QED BY <2>1, FS_Surjection DEF SessionsFinite
<1>2. ASSUME NEW u
      PROVE  Cardinality(SessionsOf(u)') <= Cardinality(SessionsOf(u))
  <2> DEFINE g == [s \in SessionsOf(u) |-> f[s]]
  <2>1. SessionsOf(u) \subseteq sessions BY DEF SessionsOf
  <2>2. SessionsOf(u)' = {f[s] : s \in SessionsOf(u)}
    BY DEF SessionsOf
  <2>3. g \in Surjection(SessionsOf(u), SessionsOf(u)')
    BY <2>2 DEF Surjection
  <2>4. IsFiniteSet(SessionsOf(u)) BY <2>1, FS_Subset DEF SessionsFinite
  <2>5. QED BY <2>3, <2>4, FS_Surjection
<1>3. QED BY <1>1, <1>2

\* When neither side of the bound grows but faults, the bound stays.
LEMMA BoundKept ==
    ASSUME TypeOK, TypeOK', SessionsFinite, SessionsFinite', SessionsBounded,
           \A u : Cardinality(SessionsOf(u)') <= Cardinality(SessionsOf(u)),
           \A u : Opening(u)' \subseteq Opening(u),
           faults' >= faults
    PROVE  SessionsBounded'
<1> SUFFICES ASSUME NEW u \in Users
             PROVE  Cardinality(SessionsOf(u)') + Cardinality(Opening(u)')
                       <= (MaxSessions - 1) + Cardinality(Procs) + faults'
  BY DEF SessionsBounded
<1>1. /\ IsFiniteSet(Opening(u)) /\ IsFiniteSet(Opening(u)')
      /\ Cardinality(Opening(u)') <= Cardinality(Opening(u))
  BY ProcsAssumption, FS_Subset DEF Opening
<1>2. IsFiniteSet(SessionsOf(u)) /\ IsFiniteSet(SessionsOf(u)')
  BY FS_Subset DEF SessionsOf, SessionsFinite
<1>3. /\ Cardinality(SessionsOf(u)) \in Nat /\ Cardinality(SessionsOf(u)') \in Nat
      /\ Cardinality(Opening(u)) \in Nat /\ Cardinality(Opening(u)') \in Nat
      /\ Cardinality(Procs) \in Nat /\ faults \in Nat /\ faults' \in Nat
      /\ MaxSessions \in Nat
  BY <1>1, <1>2, ProcsAssumption, FS_CardinalityType, BoundsAssumption,
     MaxSessionsAssumption DEF TypeOK
<1>4. Cardinality(SessionsOf(u)) + Cardinality(Opening(u))
         <= (MaxSessions - 1) + Cardinality(Procs) + faults
  BY DEF SessionsBounded
<1>5. Cardinality(SessionsOf(u)') <= Cardinality(SessionsOf(u))
  OBVIOUS
<1>6. QED BY <1>1, <1>3, <1>4, <1>5

\* Every step but the two of CreateSessionAndRespond keeps both sides of the bound
\* in check: no account gains a session or a request about to insert one.
Quiet == /\ SessionsFinite'
         /\ \A u : Cardinality(SessionsOf(u)') <= Cardinality(SessionsOf(u))
         /\ \A u : Opening(u)' \subseteq Opening(u)
         /\ faults' >= faults

LEMMA QuietSteps ==
    ASSUME TypeOK, SessionsFinite, [Next]_vars,
           ~ \E p \in Procs : CreateSessionAndRespond(p)
    PROVE  Quiet
<1>g. faults \in Nat /\ (faults' = faults => faults' >= faults) /\ (Fault => faults' >= faults)
  BY DEF TypeOK, Fault
<1>c. UNCHANGED sessions => \A u : Cardinality(SessionsOf(u)') <= Cardinality(SessionsOf(u))
  BY Shrink
<1>u. UNCHANGED sessions => SessionsFinite'
  BY DEF SessionsFinite
<1>r. \A p \in Procs : Return(p) => \A u : Opening(u)' \subseteq Opening(u)
  BY DEF Return, Opening, Idle, Local, TypeOK
<1>o. UNCHANGED req => \A u : Opening(u)' \subseteq Opening(u)
  BY DEF Opening
<1>s. ASSUME NEW p \in Procs, NEW pc \in Pcs \ {"insert"}, NEW u, NEW k,
             Start(p, Local(pc, u, k)) \/ Goto(p, pc)
      PROVE  \A v : Opening(v)' \subseteq Opening(v)
  BY <1>s DEF Start, Goto, Local, Opening, TypeOK, Request
<1>1. ASSUME NEW p \in Procs, NEW u \in Users, Login(p, u) \/ GoogleCallback(p, u)
      PROVE  Quiet
  <2>1. "limit" \in Pcs \ {"insert"} BY DEF Pcs
  <2>2. QED BY <1>1, <1>c, <1>u, <1>g, <1>s, <2>1 DEF Login, GoogleCallback, Quiet
<1>2. ASSUME NEW p \in Procs, Refresh(p) \/ Session(p)
      PROVE  Quiet
  <2>1. PICK s \in sessions, kind \in {"refresh", "session"} : GetSessionByToken(p, s, kind)
    BY <1>2 DEF Refresh, Session
  <2>2. (IF s.expired THEN "expire" ELSE kind) \in Pcs \ {"insert"} BY DEF Pcs
  <2>3. \A v : Opening(v)' \subseteq Opening(v)
    BY <2>1, <2>2, <1>s DEF GetSessionByToken
  <2>4. QED BY <1>2, <2>3, <1>c, <1>u, <1>g DEF Refresh, Session, Quiet
<1>3. ASSUME NEW p \in Procs, ResetPassword(p)
      PROVE  Quiet
  <2>1. PICK r \in resets :
           Start(p, Local(IF r.expired THEN "setpw" ELSE "drop", r.user, r.token))
    BY <1>3 DEF ResetPassword
  <2>2. (IF r.expired THEN "setpw" ELSE "drop") \in Pcs \ {"insert"} BY DEF Pcs
  <2>3. \A v : Opening(v)' \subseteq Opening(v)
    BY <2>1, <2>2, <1>s
  <2>4. QED BY <1>3, <2>3, <1>c, <1>u, <1>g DEF ResetPassword, Quiet
<1>4. ASSUME NEW p \in Procs, RotateToken(p)
      PROVE  Quiet
  <2>1. /\ \A u : Opening(u)' \subseteq Opening(u)
        /\ faults' >= faults
    BY <1>4, <1>r, <1>g DEF RotateToken
  <2>2. CASE UpdateSession(req[p].key, issued')
    <3> DEFINE f == [s \in sessions |-> IF s.id = req[p].key
                       THEN [s EXCEPT !.token = issued', !.expired = FALSE] ELSE s]
    <3>1. sessions' = {f[s] : s \in sessions}
      BY <2>2 DEF UpdateSession
    <3>2. \A s \in sessions : f[s].user = s.user
      BY DEF TypeOK, SessionRow
    <3>3. QED BY <3>1, <3>2, <2>1, Remap DEF Quiet
  <2>3. CASE UNCHANGED sessions
    BY <2>1, <2>3, <1>c, <1>u DEF Quiet
  <2>4. QED BY <1>4, <2>2, <2>3 DEF RotateToken
<1>5. ASSUME NEW p \in Procs, DropExpired(p) \/ RevokeSessions(p)
      PROVE  Quiet
  <2>1. /\ sessions' \subseteq sessions
        /\ faults' >= faults
    BY <1>5, <1>g DEF DropExpired, RevokeSessions, DeleteSessionByID,
                      DeleteAllSessionsByUserID
  <2>2. QED BY <1>5, <2>1, <1>r, Shrink DEF DropExpired, RevokeSessions, Quiet
<1>6. ASSUME NEW p \in Procs, DropReset(p) \/ ConsumeReset(p) \/ ChangePassword(p)
      PROVE  Quiet
  <2>1. "consume" \in Pcs \ {"insert"} /\ "revoke" \in Pcs \ {"insert"} BY DEF Pcs
  <2>2. \A v : Opening(v)' \subseteq Opening(v)
    BY <1>6, <2>1, <1>r, <1>s DEF DropReset, ConsumeReset, ChangePassword
  <2>3. UNCHANGED sessions /\ faults' >= faults
    BY <1>6, <1>g DEF DropReset, ConsumeReset, ChangePassword
  <2>4. QED BY <2>2, <2>3, <1>c, <1>u DEF Quiet
<1>7. ASSUME NEW t \in 1 .. issued, Logout(t)
      PROVE  Quiet
  BY <1>7, <1>g, <1>o, Shrink DEF Logout, DeleteSessionByToken, Quiet
<1>8. ASSUME NEW u \in Users, LogoutAll(u) \/ ForgotPassword(u)
      PROVE  Quiet
  BY <1>8, <1>g, <1>o, Shrink DEF LogoutAll, ForgotPassword, DeleteAllSessionsByUserID, Quiet
<1>9. ASSUME CleanExpiredSessions \/ ResetExpires
      PROVE  Quiet
  BY <1>9, <1>g, <1>o, Shrink
     DEF CleanExpiredSessions, CleanSessions, CleanResets, ResetExpires, Quiet
<1>10. ASSUME SessionExpires
       PROVE  Quiet
  <2>1. PICK id \in 1 .. issued :
           sessions' = {IF s.id = id THEN [s EXCEPT !.expired = TRUE] ELSE s : s \in sessions}
    BY <1>10 DEF SessionExpires
  <2> DEFINE f == [s \in sessions |-> IF s.id = id THEN [s EXCEPT !.expired = TRUE] ELSE s]
  <2>2. sessions' = {f[s] : s \in sessions}
    BY <2>1
  <2>3. \A s \in sessions : f[s].user = s.user
    BY DEF TypeOK, SessionRow
  <2>4. QED BY <1>10, <2>2, <2>3, <1>g, <1>o, Remap DEF SessionExpires, Quiet
<1>11. ASSUME Restart
       PROVE  Quiet
  BY <1>11, <1>g, <1>c, <1>u DEF Restart, Opening, Idle, Local, Quiet
<1>12. CASE UNCHANGED vars
  BY <1>12, <1>g, <1>o, <1>c, <1>u DEF vars, Quiet
<1>13. QED
  BY <1>1, <1>2, <1>3, <1>4, <1>5, <1>6, <1>7, <1>8, <1>9, <1>10, <1>11, <1>12
     DEF Next, Continue

\* One more element makes a finite set larger by one at most.
LEMMA AddOne ==
    ASSUME NEW S, NEW x, IsFiniteSet(S)
    PROVE  Cardinality(S \cup {x}) <= Cardinality(S) + 1
<1>1. Cardinality(S) \in Nat BY FS_CardinalityType
<1>2. CASE x \in S
  <2>1. S \cup {x} = S BY <1>2
  <2>2. QED BY <1>1, <2>1
<1>3. CASE x \notin S
  <2>1. Cardinality(S \cup {x}) = Cardinality(S) + 1 BY <1>3, FS_AddElement
  <2>2. QED BY <1>1, <2>1
<1>4. QED BY <1>2, <1>3

\* The numbers that the bound adds up.
LEMMA BoundNumbers ==
    ASSUME TypeOK, SessionsFinite, NEW u
    PROVE  /\ IsFiniteSet(SessionsOf(u)) /\ IsFiniteSet(Opening(u))
           /\ Cardinality(SessionsOf(u)) \in Nat /\ Cardinality(Opening(u)) \in Nat
           /\ Cardinality(Opening(u)) <= Cardinality(Procs)
           /\ Cardinality(Procs) \in Nat /\ faults \in Nat
           /\ MaxSessions \in Nat /\ MaxSessions >= 1
<1>1. IsFiniteSet(SessionsOf(u)) BY FS_Subset DEF SessionsOf, SessionsFinite
<1>2. IsFiniteSet(Opening(u)) /\ Cardinality(Opening(u)) <= Cardinality(Procs)
  BY ProcsAssumption, FS_Subset DEF Opening
<1>3. faults \in Nat BY BoundsAssumption DEF TypeOK
<1>4. QED
  BY <1>1, <1>2, <1>3, ProcsAssumption, FS_CardinalityType, MaxSessionsAssumption

\* An insert moves one request from one side of the sum to the other.
LEMMA InsertBound ==
    ASSUME TypeOK, TypeOK', SessionsFinite, SessionsBounded,
           NEW p \in Procs, InsertSession(p)
    PROVE  SessionsFinite' /\ SessionsBounded'
<1>1. CASE UNCHANGED sessions
  <2>1. /\ SessionsFinite'
        /\ \A u : Cardinality(SessionsOf(u)') <= Cardinality(SessionsOf(u))
    BY <1>1, Shrink
  <2>2. \A u : Opening(u)' \subseteq Opening(u)
    BY DEF InsertSession, Return, Idle, Local, Opening, TypeOK
  <2>3. faults' >= faults BY DEF InsertSession, Fault, TypeOK
  <2>4. QED BY <2>1, <2>2, <2>3, BoundKept
<1>2. CASE CreateSession(req[p].user, issued') /\ UNCHANGED faults
  <2> DEFINE new == [id |-> issued', user |-> req[p].user, token |-> issued',
                     expired |-> FALSE]
  <2>1. sessions' = sessions \cup {new}
    BY <1>2 DEF CreateSession
  <2>2. SessionsFinite' BY <2>1, FS_AddElement DEF SessionsFinite
  <2>3. SUFFICES ASSUME NEW u \in Users
                 PROVE  Cardinality(SessionsOf(u)') + Cardinality(Opening(u)')
                           <= (MaxSessions - 1) + Cardinality(Procs) + faults'
    BY <2>2 DEF SessionsBounded
  <2>4. Cardinality(SessionsOf(u)) + Cardinality(Opening(u))
           <= (MaxSessions - 1) + Cardinality(Procs) + faults
    BY DEF SessionsBounded
  <2>5. CASE req[p].user = u
    <3>1. SessionsOf(u)' = SessionsOf(u) \cup {new}
      BY <2>1, <2>5 DEF SessionsOf
    <3>2. p \in Opening(u) /\ Opening(u)' = Opening(u) \ {p}
      BY <2>5 DEF InsertSession, Return, Idle, Local, Opening, TypeOK
    <3>3. /\ Cardinality(SessionsOf(u)') <= Cardinality(SessionsOf(u)) + 1
          /\ Cardinality(Opening(u)') = Cardinality(Opening(u)) - 1
      <4>1. /\ IsFiniteSet(SessionsOf(u)) /\ Cardinality(SessionsOf(u)) \in Nat
            /\ IsFiniteSet(Opening(u))
        BY BoundNumbers
      <4>2. Cardinality(SessionsOf(u) \cup {new}) <= Cardinality(SessionsOf(u)) + 1
        BY <4>1, AddOne
      <4>3. Cardinality(Opening(u) \ {p}) = Cardinality(Opening(u)) - 1
        BY <3>2, <4>1, FS_RemoveElement
      <4>4. QED BY <3>1, <3>2, <4>2, <4>3
    <3>4. Cardinality(SessionsOf(u)') \in Nat
      BY <3>1, BoundNumbers, FS_AddElement, FS_CardinalityType
    <3>5. QED BY <1>2, <2>4, <3>3, <3>4, BoundNumbers
  <2>6. CASE req[p].user # u
    <3>1. SessionsOf(u)' = SessionsOf(u)
      BY <2>1, <2>6 DEF SessionsOf
    <3>2. Opening(u)' = Opening(u)
      BY <2>6, NoUserAssumption DEF InsertSession, Return, Idle, Local, Opening, TypeOK
    <3>3. QED BY <1>2, <2>4, <3>1, <3>2
  <2>7. QED BY <2>5, <2>6
<1>3. QED BY <1>1, <1>2 DEF InsertSession

\* A successful limit leaves room whatever the other requests are about to insert; a
\* failed one is counted by faults.
LEMMA LimitBound ==
    ASSUME TypeOK, TypeOK', SessionsFinite, SessionsBounded,
           NEW p \in Procs, LimitSessions(p)
    PROVE  SessionsFinite' /\ SessionsBounded'
<1>u. req[p].user \in Users BY DEF LimitSessions, TypeOK
<1>1. sessions' \subseteq sessions
  BY DEF LimitSessions, EnforceSessionLimit, IsNewest, SessionsOf
<1>2. /\ SessionsFinite'
      /\ \A u : Cardinality(SessionsOf(u)') <= Cardinality(SessionsOf(u))
  BY <1>1, Shrink
<1>3. SUFFICES ASSUME NEW u \in Users
               PROVE  Cardinality(SessionsOf(u)') + Cardinality(Opening(u)')
                         <= (MaxSessions - 1) + Cardinality(Procs) + faults'
  BY <1>2 DEF SessionsBounded
<1>4. Cardinality(SessionsOf(u)) + Cardinality(Opening(u))
         <= (MaxSessions - 1) + Cardinality(Procs) + faults
  BY DEF SessionsBounded
<1>5. /\ IsFiniteSet(Opening(u)) /\ IsFiniteSet(Opening(u)')
      /\ Cardinality(Opening(u)') <= Cardinality(Procs)
  BY ProcsAssumption, FS_Subset DEF Opening
<1>6. IsFiniteSet(SessionsOf(u)') /\ Cardinality(SessionsOf(u)') \in Nat
  BY <1>2, FS_Subset, FS_CardinalityType DEF SessionsOf, SessionsFinite
<1>7. Cardinality(Opening(u)') \in Nat /\ faults' \in Nat
  BY <1>5, FS_CardinalityType, BoundsAssumption DEF TypeOK
<1>8. CASE req[p].user # u
  <2>1. Opening(u)' \subseteq Opening(u)
    BY <1>8 DEF LimitSessions, Goto, Opening, TypeOK, Request
  <2>2. Cardinality(Opening(u)') <= Cardinality(Opening(u))
    BY <1>5, <2>1, FS_Subset
  <2>3. faults' >= faults BY DEF LimitSessions, Fault, TypeOK
  <2>4. Cardinality(SessionsOf(u)') <= Cardinality(SessionsOf(u)) BY <1>2
  <2>5. QED BY <1>4, <1>6, <1>7, <2>2, <2>3, <2>4, BoundNumbers
<1>9. CASE req[p].user = u /\ Fault /\ UNCHANGED sessions
  <2>1. Opening(u)' = Opening(u) \cup {p}
    BY <1>9 DEF LimitSessions, Goto, Opening, TypeOK, Request
  <2>2. Cardinality(Opening(u)') <= Cardinality(Opening(u)) + 1
    <3>1. IsFiniteSet(Opening(u)) /\ Cardinality(Opening(u)) \in Nat
      BY BoundNumbers
    <3>2. Cardinality(Opening(u) \cup {p}) <= Cardinality(Opening(u)) + 1
      BY <3>1, AddOne
    <3>3. QED BY <2>1, <3>2
  <2>3. faults' = faults + 1 BY <1>9 DEF Fault
  <2>4. Cardinality(SessionsOf(u)') <= Cardinality(SessionsOf(u)) BY <1>2
  <2>5. QED BY <1>4, <1>6, <1>7, <2>2, <2>3, <2>4, BoundNumbers
<1>10. CASE req[p].user = u /\ EnforceSessionLimit(u, MaxSessions - 1) /\ UNCHANGED faults
  <2>1. PICK keep \in SUBSET SessionsOf(u) :
           /\ IsNewest(keep, SessionsOf(u), MaxSessions - 1)
           /\ sessions' = (sessions \ SessionsOf(u)) \cup keep
    BY <1>10 DEF EnforceSessionLimit
  <2>2. SessionsOf(u)' = keep
    BY <2>1 DEF SessionsOf
  <2>3. Cardinality(SessionsOf(u)') <= MaxSessions - 1
    BY <2>1, <2>2 DEF IsNewest
  <2>4. QED BY <1>5, <1>6, <1>7, <1>10, <2>3, BoundNumbers
<1>11. QED BY <1>8, <1>9, <1>10 DEF LimitSessions

LEMMA BoundStep ==
    ASSUME TypeOK, SessionsFinite, SessionsBounded, [Next]_vars
    PROVE  SessionsFinite' /\ SessionsBounded'
<1>1. TypeOK' BY TypeStep
<1>2. CASE \E p \in Procs : LimitSessions(p)
  BY <1>1, <1>2, LimitBound
<1>3. CASE \E p \in Procs : InsertSession(p)
  BY <1>1, <1>3, InsertBound
<1>4. CASE ~ \E p \in Procs : CreateSessionAndRespond(p)
  BY <1>1, <1>4, QuietSteps, BoundKept DEF Quiet
<1>5. QED BY <1>2, <1>3, <1>4 DEF CreateSessionAndRespond

\* However logins overlap, an account has at most MaxSessions - 1 sessions, plus one
\* for each request in flight, plus one for each statement that failed: what
\* EnforceSessionLimit followed by CreateSession really guarantees.
THEOREM SessionsAreBounded == Spec => []SessionsBounded
<1> DEFINE IInv == TypeOK /\ SessionsFinite /\ SessionsBounded
<1>1. Init => IInv
  <2> SUFFICES ASSUME Init PROVE IInv
    OBVIOUS
  <2>1. TypeOK
    BY BoundsAssumption DEF Init, TypeOK, Idle, Local, Request, Pcs
  <2>2. SessionsFinite BY FS_EmptySet DEF Init, SessionsFinite
  <2>3. ASSUME NEW u \in Users
        PROVE  Cardinality(SessionsOf(u)) = 0 /\ Cardinality(Opening(u)) = 0
    <3>1. SessionsOf(u) = {} /\ Opening(u) = {}
      BY DEF Init, SessionsOf, Opening, Idle, Local
    <3>2. QED BY <3>1, FS_EmptySet
  <2>4. SessionsBounded
    BY <2>1, <2>2, <2>3, BoundNumbers DEF SessionsBounded
  <2>5. QED BY <2>1, <2>2, <2>4
<1>2. IInv /\ [Next]_vars => IInv'
  BY TypeStep, BoundStep
<1>3. QED BY <1>1, <1>2, PTL DEF Spec

-----------------------------------------------------------------------------
(* What a step does to the table of sessions, and the registry it implements *)

Closes  == sessions' \subseteq sessions /\ UNCHANGED issued
Spends  == UNCHANGED sessions /\ Draw
Ages    == /\ \E id : sessions' = {IF s.id = id THEN [s EXCEPT !.expired = TRUE] ELSE s
                                      : s \in sessions}
           /\ UNCHANGED issued
Opens   == \E u \in Users : CreateSession(u, issued') /\ Draw
Rotates == \E id : UpdateSession(id, issued') /\ Draw

LEMMA Shapes ==
    ASSUME TypeOK, [Next]_vars
    PROVE  Closes \/ Spends \/ Ages \/ Opens \/ Rotates
<1>1. ASSUME NEW p \in Procs, Continue(p)
      PROVE  Closes \/ Spends \/ Opens \/ Rotates
  <2>1. CASE LimitSessions(p)
    BY <2>1 DEF LimitSessions, EnforceSessionLimit, IsNewest, SessionsOf, Closes
  <2>2. CASE InsertSession(p)
    <3>1. req[p].user \in Users
      BY <2>2 DEF InsertSession, TypeOK, Request
    <3>2. QED BY <2>2, <3>1 DEF InsertSession, Opens, Spends
  <2>3. CASE RotateToken(p)
    BY <2>3 DEF RotateToken, Rotates, Spends
  <2>4. CASE DropExpired(p) \/ RevokeSessions(p)
    BY <2>4 DEF DropExpired, RevokeSessions, DeleteSessionByID,
                DeleteAllSessionsByUserID, Closes
  <2>5. CASE DropReset(p) \/ ChangePassword(p) \/ ConsumeReset(p)
    BY <2>5 DEF DropReset, ChangePassword, ConsumeReset, Closes
  <2>6. QED
    BY <1>1, <2>1, <2>2, <2>3, <2>4, <2>5 DEF Continue, CreateSessionAndRespond
<1>2. ASSUME NEW p \in Procs, NEW u \in Users,
             \/ Refresh(p) \/ Session(p) \/ ResetPassword(p)
             \/ Login(p, u) \/ GoogleCallback(p, u)
      PROVE  Closes
  BY <1>2 DEF Refresh, Session, ResetPassword, Login, GoogleCallback, Closes
<1>3. ASSUME NEW p \in Procs, Refresh(p) \/ Session(p) \/ ResetPassword(p)
      PROVE  Closes
  BY <1>3 DEF Refresh, Session, ResetPassword, Closes
<1>4. ASSUME NEW t \in 1 .. issued, Logout(t)
      PROVE  Closes
  BY <1>4 DEF Logout, DeleteSessionByToken, Closes
<1>5. ASSUME NEW u \in Users, LogoutAll(u) \/ ForgotPassword(u)
      PROVE  Closes \/ Spends
  BY <1>5 DEF LogoutAll, DeleteAllSessionsByUserID, ForgotPassword, Closes, Spends
<1>6. ASSUME CleanExpiredSessions \/ ResetExpires \/ Restart \/ UNCHANGED vars
      PROVE  Closes
  BY <1>6 DEF CleanExpiredSessions, CleanSessions, CleanResets, ResetExpires, Restart,
              vars, Closes
<1>7. ASSUME SessionExpires
      PROVE  Ages
  BY <1>7 DEF SessionExpires, Ages
<1>8. QED BY <1>1, <1>2, <1>3, <1>4, <1>5, <1>6, <1>7 DEF Next

LEMMA RowsStep ==
    ASSUME TypeOK, RowsDistinct, [Next]_vars
    PROVE  RowsDistinct'
<1>i. /\ issued \in Nat /\ issued' >= issued
      /\ Draw => issued' = issued + 1
  BY Shapes DEF TypeOK, Draw, Closes, Spends, Ages, Opens, Rotates
<1>t. \A s \in sessions : s \in SessionRow /\ s.id \in Nat /\ s.token \in Nat
  BY DEF TypeOK, SessionRow, Token
<1>1. CASE Closes BY <1>1 DEF Closes, RowsDistinct
<1>2. CASE Spends BY <1>2, <1>i, <1>t DEF Spends, RowsDistinct
<1>3. CASE Ages
  <2>1. PICK id : sessions' =
           {IF s.id = id THEN [s EXCEPT !.expired = TRUE] ELSE s : s \in sessions}
    BY <1>3 DEF Ages
  <2>2. \A r \in sessions' : \E s \in sessions :
           /\ r = IF s.id = id THEN [s EXCEPT !.expired = TRUE] ELSE s
           /\ r.id = s.id /\ r.token = s.token
    BY <2>1, <1>t DEF SessionRow
  <2>3. \A r \in sessions' : r.id <= issued' /\ r.token <= issued'
    BY <1>3, <2>2 DEF Ages, RowsDistinct
  <2>4. ASSUME NEW r \in sessions', NEW q \in sessions', r.id = q.id \/ r.token = q.token
        PROVE  r = q
    <3>1. PICK s \in sessions :
             /\ r = IF s.id = id THEN [s EXCEPT !.expired = TRUE] ELSE s
             /\ r.id = s.id /\ r.token = s.token
      BY <2>2
    <3>2. PICK t \in sessions :
             /\ q = IF t.id = id THEN [t EXCEPT !.expired = TRUE] ELSE t
             /\ q.id = t.id /\ q.token = t.token
      BY <2>2
    <3>3. s = t BY <2>4, <3>1, <3>2 DEF RowsDistinct
    <3>4. QED BY <3>1, <3>2, <3>3
  <2>5. QED BY <2>3, <2>4 DEF RowsDistinct
<1>4. CASE Opens
  <2>1. PICK u \in Users : CreateSession(u, issued') /\ Draw
    BY <1>4 DEF Opens
  <2> DEFINE new == [id |-> issued', user |-> u, token |-> issued',
                     expired |-> FALSE]
  <2>2. sessions' = sessions \cup {new} /\ new.id = issued' /\ new.token = issued'
    BY <2>1 DEF CreateSession
  <2> HIDE DEF new
  <2>3. \A s \in sessions : s.id < issued' /\ s.token < issued'
    BY <2>1, <1>i, <1>t DEF RowsDistinct
  <2>n. issued' \in Nat BY <1>i, <2>1
  <2>4. \A s \in sessions' : s.id <= issued' /\ s.token <= issued'
    BY <2>2, <2>3, <2>n, <1>t
  <2>5. ASSUME NEW s \in sessions', NEW t \in sessions', s.id = t.id \/ s.token = t.token
        PROVE  s = t
    <3>1. CASE s = new \/ t = new
      BY <2>2, <2>3, <2>5, <2>n, <1>t, <3>1
    <3>2. CASE s # new /\ t # new
      BY <2>2, <2>5, <3>2 DEF RowsDistinct
    <3>3. QED BY <3>1, <3>2
  <2>6. QED BY <2>4, <2>5 DEF RowsDistinct
<1>5. CASE Rotates
  <2>1. PICK id : UpdateSession(id, issued') /\ Draw
    BY <1>5 DEF Rotates
  <2>2. \A r \in sessions' : \E s \in sessions :
           /\ r = IF s.id = id THEN [s EXCEPT !.token = issued', !.expired = FALSE] ELSE s
           /\ r.id = s.id
           /\ r.token = IF s.id = id THEN issued' ELSE s.token
    BY <2>1, <1>t DEF UpdateSession, SessionRow
  <2>3. \A s \in sessions : s.id < issued' /\ s.token < issued'
    BY <2>1, <1>i, <1>t DEF RowsDistinct
  <2>4. \A r \in sessions' : r.id <= issued' /\ r.token <= issued'
    <3>1. issued' \in Nat BY <1>i, <2>1
    <3>2. SUFFICES ASSUME NEW r \in sessions'
                   PROVE  r.id <= issued' /\ r.token <= issued'
      OBVIOUS
    <3>3. PICK s \in sessions : r.id = s.id /\ (r.token = issued' \/ r.token = s.token)
      BY <2>2
    <3>4. QED BY <2>3, <3>1, <3>3, <1>t
  <2>5. ASSUME NEW r \in sessions', NEW q \in sessions', r.id = q.id \/ r.token = q.token
        PROVE  r = q
    <3>1. PICK s \in sessions :
             /\ r = IF s.id = id THEN [s EXCEPT !.token = issued', !.expired = FALSE] ELSE s
             /\ r.id = s.id
             /\ r.token = IF s.id = id THEN issued' ELSE s.token
      BY <2>2
    <3>2. PICK t \in sessions :
             /\ q = IF t.id = id THEN [t EXCEPT !.token = issued', !.expired = FALSE] ELSE t
             /\ q.id = t.id
             /\ q.token = IF t.id = id THEN issued' ELSE t.token
      BY <2>2
    <3>3. s.id = t.id \/ s.token = t.token
      BY <2>3, <2>5, <3>1, <3>2, <1>i, <1>t
    <3>4. s = t BY <3>3 DEF RowsDistinct
    <3>5. QED BY <3>1, <3>2, <3>4
  <2>6. QED BY <2>4, <2>5 DEF RowsDistinct
<1>6. QED BY <1>1, <1>2, <1>3, <1>4, <1>5, Shapes

LEMMA RegistryStep ==
    ASSUME TypeOK, RowsDistinct, [Next]_vars
    PROVE  [Registry!Next]_(Registry!vars)
<1>t. \A s \in sessions : s \in SessionRow /\ s.user \in Users
  BY DEF TypeOK, SessionRow
<1>e. \A s \in sessions : Entry(s) \in Entries
  BY DEF Entries
<1>1. CASE Closes
  <2>1. Entries' = Entries \ (Entries \ Entries')
    BY <1>1 DEF Closes, Entries
  <2>2. QED
    BY <1>1, <2>1 DEF Closes, Registry!Next, Registry!Close
<1>2. CASE Spends
  BY <1>2 DEF Spends, Draw, Entries, Registry!Next, Registry!Spend, Registry!Draw
<1>3. CASE Ages
  <2>1. PICK id : sessions' =
           {IF s.id = id THEN [s EXCEPT !.expired = TRUE] ELSE s : s \in sessions}
    BY <1>3 DEF Ages
  <2>2. \A s \in sessions : Entry(IF s.id = id THEN [s EXCEPT !.expired = TRUE] ELSE s) = Entry(s)
    BY <1>t DEF Entry, SessionRow
  <2>3. Entries' = {Entry(IF s.id = id THEN [s EXCEPT !.expired = TRUE] ELSE s) : s \in sessions}
    BY <2>1 DEF Entries
  <2>4. Entries' = Entries
    BY <2>2, <2>3 DEF Entries
  <2>5. QED BY <1>3, <2>4 DEF Ages, Registry!vars
<1>4. CASE Opens
  <2>1. PICK u \in Users : CreateSession(u, issued') /\ Draw
    BY <1>4 DEF Opens
  <2>2. Entries' = Entries \cup {[id |-> issued', user |-> u, token |-> issued']}
    <3> DEFINE new == [id |-> issued', user |-> u, token |-> issued',
                       expired |-> FALSE]
    <3>1. sessions' = sessions \cup {new} BY <2>1 DEF CreateSession
    <3>2. Entry(new) = [id |-> issued', user |-> u, token |-> issued'] BY DEF Entry
    <3> HIDE DEF new
    <3>3. Entries' = Entries \cup {Entry(new)} BY <3>1 DEF Entries
    <3>4. QED BY <3>2, <3>3
  <2>3. QED BY <2>1, <2>2 DEF Draw, Registry!Next, Registry!Open, Registry!Draw
<1>5. CASE Rotates
  <2>1. PICK id : UpdateSession(id, issued') /\ Draw
    BY <1>5 DEF Rotates
  <2> DEFINE f(s) == IF s.id = id THEN [s EXCEPT !.token = issued', !.expired = FALSE] ELSE s
  <2>2. Entries' = {Entry(f(s)) : s \in sessions}
    BY <2>1 DEF UpdateSession, Entries
  <2>3. \A s \in sessions : s.id # id => Entry(f(s)) = Entry(s)
    OBVIOUS
  <2>4. \A s \in sessions :
           s.id = id => Entry(f(s)) = [Entry(s) EXCEPT !.token = issued']
    BY <1>t DEF Entry, SessionRow
  <2> HIDE DEF f
  <2>5. CASE \E s \in sessions : s.id = id
    <3>1. PICK s \in sessions : s.id = id BY <2>5
    <3>2. \A t \in sessions : t # s => t.id # id /\ Entry(t) # Entry(s)
      BY <3>1 DEF RowsDistinct, Entry
    <3>3. Entries' = (Entries \ {Entry(s)}) \cup {[Entry(s) EXCEPT !.token = issued']}
      BY <2>2, <2>3, <2>4, <3>1, <3>2 DEF Entries
    <3>4. QED BY <2>1, <3>3, <1>e DEF Draw, Registry!Next, Registry!Rotate, Registry!Draw
  <2>6. CASE ~ \E s \in sessions : s.id = id
    <3>1. Entries' = Entries
      BY <2>2, <2>3, <2>6 DEF Entries
    <3>2. QED BY <2>1, <3>1 DEF Draw, Registry!Next, Registry!Spend, Registry!Draw
  <2>7. QED BY <2>5, <2>6
<1>6. QED BY <1>1, <1>2, <1>3, <1>4, <1>5, Shapes

\* The handlers implement the registry of sessions: a session that was logged out,
\* revoked, evicted or purged is never open again, and a token that was replaced
\* never opens anything, whatever requests overlap.
THEOREM RegistryImplemented == Spec => ImplementsRegistry
<1>1. Init => TypeOK /\ RowsDistinct
  BY BoundsAssumption DEF Init, TypeOK, RowsDistinct, Idle, Local, Request, Pcs
<1>2. TypeOK /\ RowsDistinct /\ [Next]_vars => (TypeOK /\ RowsDistinct)'
  BY TypeStep, RowsStep
<1>3. Init => Registry!Init
  BY DEF Init, Entries, Registry!Init
<1>4. TypeOK /\ RowsDistinct /\ [Next]_vars => [Registry!Next]_(Registry!vars)
  BY RegistryStep
<1>5. QED
  BY <1>1, <1>2, <1>3, <1>4, PTL DEF Spec, ImplementsRegistry, Registry!Spec

\* What the registry forgets it does not give out again.
LEMMA RegistryForgets ==
    ASSUME issued \in Nat, [Registry!Next]_(Registry!vars)
    PROVE  /\ \A i \in 1 .. issued :
                 (~ \E s \in Entries : s.id = i) => ~ \E s \in Entries' : s.id = i
           /\ \A k \in 1 .. issued :
                 (~ \E s \in Entries : s.token = k) => ~ \E s \in Entries' : s.token = k
<1>1. ASSUME NEW u \in Users, Registry!Open(u)
      PROVE  \A s \in Entries' : s \in Entries \/ (s.id = issued + 1 /\ s.token = issued + 1)
  BY <1>1 DEF Registry!Open, Registry!Draw
<1>2. ASSUME NEW r \in Entries, Registry!Rotate(r)
      PROVE  \A s \in Entries' : s \in Entries \/ (s.id = r.id /\ s.token = issued + 1)
  <2>1. r.id = [r EXCEPT !.token = issued'].id
        /\ [r EXCEPT !.token = issued'].token = issued'
    <3>1. PICK x \in sessions : r = [id |-> x.id, user |-> x.user, token |-> x.token]
      BY DEF Entries, Entry
    <3>2. QED BY <3>1
  <2>2. QED BY <1>2, <2>1 DEF Registry!Rotate, Registry!Draw
<1>3. ASSUME Registry!Spend \/ (\E S \in SUBSET Entries : Registry!Close(S))
             \/ UNCHANGED Registry!vars
      PROVE  Entries' \subseteq Entries
  BY <1>3 DEF Registry!Spend, Registry!Close, Registry!vars
<1>4. \A i \in 1 .. issued : i # issued + 1
  OBVIOUS
<1>5. CASE Entries' \subseteq Entries
  BY <1>5
<1>6. QED BY <1>1, <1>2, <1>3, <1>4, <1>5 DEF Registry!Next

LEMMA RegistryKeeps ==
    Spec => [][TypeOK /\ [Registry!Next]_(Registry!vars)]_(Registry!vars)
<1>1. Init => TypeOK /\ RowsDistinct
  BY BoundsAssumption DEF Init, TypeOK, RowsDistinct, Idle, Local, Request, Pcs
<1>2. TypeOK /\ RowsDistinct /\ [Next]_vars => (TypeOK /\ RowsDistinct)'
  BY TypeStep, RowsStep
<1>3. QED BY <1>1, <1>2, RegistryStep, PTL DEF Spec

\* No session that was logged out, revoked, evicted or purged is ever open again
\* (Refresh and Session, which update by id a row they read before).
THEOREM ClosedStayClosed == Spec => NeverReopened
<1>1. TypeOK /\ [Registry!Next]_(Registry!vars) =>
         \A i \in 1 .. issued :
             (~ \E s \in Entries : s.id = i) => ~ \E s \in Entries' : s.id = i
  BY RegistryForgets DEF TypeOK
<1>2. QED BY <1>1, RegistryKeeps, PTL DEF NeverReopened, Registry!NeverReopened

\* No refresh token that was replaced, or whose session was closed, works again.
THEOREM SpentTokensStaySpent == Spec => NeverReissued
<1>1. TypeOK /\ [Registry!Next]_(Registry!vars) =>
         \A k \in 1 .. issued :
             (~ \E s \in Entries : s.token = k) => ~ \E s \in Entries' : s.token = k
  BY RegistryForgets DEF TypeOK
<1>2. QED BY <1>1, RegistryKeeps, PTL DEF NeverReissued, Registry!NeverReissued

-----------------------------------------------------------------------------
(* Resetting a password revokes the sessions *)

\* The last reset of an account was not in the future.
ChangesPast == \A u \in Users : changedAt[u] <= issued

\* A row after a step is a row from before it, or newer than every reset.
LEMMA ResetRows ==
    ASSUME TypeOK, RowsDistinct, ChangesPast, [Next]_vars
    PROVE  \A r \in sessions' :
              \/ r.user \in Users /\ r.id > changedAt[r.user]
              \/ \E s \in sessions : s.id = r.id /\ s.user = r.user
<1>t. /\ issued \in Nat
      /\ \A s \in sessions : s \in SessionRow
      /\ \A u \in Users : changedAt[u] \in Nat
  BY BoundsAssumption DEF TypeOK
<1>1. CASE Closes \/ Spends BY <1>1 DEF Closes, Spends
<1>2. CASE Ages BY <1>2, <1>t DEF Ages, SessionRow
<1>3. CASE Rotates BY <1>3, <1>t DEF Rotates, UpdateSession, SessionRow
<1>4. CASE Opens
  <2>1. PICK u \in Users : CreateSession(u, issued') /\ Draw
    BY <1>4 DEF Opens
  <2>2. issued' > changedAt[u] BY <2>1, <1>t DEF Draw, ChangesPast
  <2>3. QED BY <2>1, <2>2 DEF CreateSession
<1>5. QED BY <1>1, <1>2, <1>3, <1>4, Shapes

\* A reset that has changed the password goes on until its sessions are gone.
LEMMA ResetGoesOn ==
    ASSUME TypeOK, [Next]_vars, ~ \E p \in Procs : ChangePassword(p),
           NEW q \in Procs, req[q].pc \in {"consume", "revoke"}
    PROVE  \/ req'[q].pc \in {"consume", "revoke"} /\ req'[q].user = req[q].user
           \/ faults' > 0
           \/ \A r \in sessions' : r.user # req[q].user
<1>t. faults \in Nat /\ (Fault => faults' > 0)
  BY BoundsAssumption DEF TypeOK, Fault
<1>1. ASSUME NEW p \in Procs, p # q, Continue(p)
      PROVE  req'[q] = req[q]
  BY <1>1 DEF Continue, CreateSessionAndRespond, LimitSessions, InsertSession,
     RotateToken, DropExpired, DropReset, ChangePassword, ConsumeReset, RevokeSessions,
     Return, Goto, TypeOK
<1>2. ASSUME Continue(q)
      PROVE  \/ req'[q].pc = "revoke" /\ req'[q].user = req[q].user
             \/ faults' > 0
             \/ \A r \in sessions' : r.user # req[q].user
  <2>1. CASE ConsumeReset(q) BY <2>1 DEF ConsumeReset, Goto, TypeOK, Request
  <2>2. CASE RevokeSessions(q)
    BY <2>2, <1>t DEF RevokeSessions, DeleteAllSessionsByUserID, SessionsOf
  <2>3. QED
    BY <1>2, <2>1, <2>2 DEF Continue, CreateSessionAndRespond, LimitSessions, InsertSession,
       RotateToken, DropExpired, DropReset, ChangePassword
<1>3. ASSUME NEW p \in Procs, NEW pc, NEW u, NEW k, Start(p, Local(pc, u, k))
      PROVE  req'[q] = req[q]
  BY <1>3 DEF Start, Idle, Local, TypeOK
<1>4. ASSUME NEW p \in Procs,
             \/ Refresh(p) \/ Session(p) \/ ResetPassword(p)
             \/ \E u \in Users : Login(p, u) \/ GoogleCallback(p, u)
      PROVE  req'[q] = req[q]
  BY <1>3, <1>4 DEF Refresh, Session, GetSessionByToken, ResetPassword, Login, GoogleCallback
<1>5. ASSUME \/ \E t \in 1 .. issued : Logout(t)
             \/ \E u \in Users : LogoutAll(u) \/ ForgotPassword(u)
             \/ CleanExpiredSessions \/ SessionExpires \/ ResetExpires \/ UNCHANGED vars
      PROVE  req'[q] = req[q]
  BY <1>5 DEF Logout, LogoutAll, ForgotPassword, CleanExpiredSessions, CleanSessions,
     CleanResets, SessionExpires, ResetExpires, vars
<1>6. CASE Restart BY <1>6, <1>t DEF Restart
<1>7. QED BY <1>1, <1>2, <1>4, <1>5, <1>6 DEF Next

LEMMA ResetStep ==
    ASSUME TypeOK, RowsDistinct, ChangesPast, ResetRevokes, [Next]_vars
    PROVE  ChangesPast' /\ ResetRevokes'
<1> DEFINE Revoking(u) == \E p \in Procs : req[p].pc \in {"consume", "revoke"} /\ req[p].user = u
<1>t. /\ issued \in Nat /\ faults \in Nat
      /\ \A s \in sessions : s \in SessionRow /\ s.id \in Nat /\ s.user \in Users
      /\ \A u \in Users : changedAt[u] \in Nat
  BY BoundsAssumption DEF TypeOK, SessionRow, Token
<1>i. /\ issued' \in Nat /\ issued' >= issued
      /\ Draw => issued' = issued + 1
      /\ Fault => faults' > 0
  BY Shapes, <1>t DEF Draw, Fault, Closes, Spends, Ages, Opens, Rotates
<1>g. faults > 0 => faults' > 0
  BY <1>t DEF Next, Continue, CreateSessionAndRespond, LimitSessions, InsertSession,
     RotateToken, DropExpired, DropReset, ChangePassword, ConsumeReset, RevokeSessions,
     Refresh, Session, ResetPassword, Login, GoogleCallback, Logout, LogoutAll,
     ForgotPassword, CleanExpiredSessions, CleanSessions, CleanResets, SessionExpires,
     ResetExpires, Restart, Fault, vars
<1>c. CASE \E p \in Procs : ChangePassword(p)
  <2>1. PICK p \in Procs : ChangePassword(p) BY <1>c
  <2>2. CASE Fault /\ UNCHANGED changedAt
    <3>1. ChangesPast' BY <2>1, <2>2 DEF ChangePassword, ChangesPast
    <3>2. ResetRevokes' BY <2>2, <1>i DEF ResetRevokes
    <3>3. QED BY <3>1, <3>2
  <2>3. CASE SetPassword(req[p].user) /\ Goto(p, "consume")
    <3>0. PICK u \in Users : u = req[p].user
      BY <2>1 DEF ChangePassword, TypeOK
    <3>1. /\ req' = [req EXCEPT ![p].pc = "consume"]
          /\ changedAt' = [changedAt EXCEPT ![u] = issued]
          /\ UNCHANGED <<sessions, issued>>
      BY <2>1, <2>3, <3>0 DEF ChangePassword, SetPassword, Goto, TypeOK
    <3>2. ChangesPast' BY <3>1, <1>t DEF ChangesPast, TypeOK
    <3>3. Revoking(u)'
      BY <3>0, <3>1 DEF TypeOK, Request
    <3>4. \A v \in Users : Revoking(v) => Revoking(v)'
      BY <3>1 DEF TypeOK, Request
    <3>5. ASSUME NEW s \in sessions'
          PROVE  s.id > changedAt'[s.user] \/ faults' > 0 \/ Revoking(s.user)'
      <4>1. CASE s.user = u BY <4>1, <3>3
      <4>2. CASE s.user # u
        BY <4>2, <3>1, <3>4, <1>g, <1>t DEF ResetRevokes, TypeOK
      <4>3. QED BY <4>1, <4>2
    <3>6. QED BY <3>2, <3>5 DEF ResetRevokes
  <2>4. QED BY <2>1, <2>2, <2>3 DEF ChangePassword
<1>d. CASE ~ \E p \in Procs : ChangePassword(p)
  <2>1. UNCHANGED changedAt
    BY <1>d DEF Next, Continue, CreateSessionAndRespond, LimitSessions, InsertSession,
       RotateToken, DropExpired, DropReset, ConsumeReset, RevokeSessions, Refresh,
       Session, ResetPassword, Login, GoogleCallback, Logout, LogoutAll,
       ForgotPassword, CleanExpiredSessions, CleanSessions, CleanResets,
       SessionExpires, ResetExpires, Restart, vars
  <2>2. ChangesPast' BY <2>1, <1>i, <1>t DEF ChangesPast
  <2>3. \A r \in sessions' :
           \/ r.id > changedAt'[r.user]
           \/ \E s \in sessions : s.id = r.id /\ s.user = r.user
    BY ResetRows, <2>1
  <2>4. \A u \in Users :
           Revoking(u) => \/ Revoking(u)'
                          \/ faults' > 0
                          \/ \A r \in sessions' : r.user # u
    BY ResetGoesOn, <1>d
  <2>5. ASSUME NEW r \in sessions'
        PROVE  r.id > changedAt'[r.user] \/ faults' > 0 \/ Revoking(r.user)'
    <3>1. CASE r.id > changedAt'[r.user] BY <3>1
    <3>2. CASE \E s \in sessions : s.id = r.id /\ s.user = r.user
      BY <3>2, <2>1, <2>4, <1>g, <1>t DEF ResetRevokes
    <3>3. QED BY <3>1, <3>2, <2>3
  <2>6. QED BY <2>2, <2>5 DEF ResetRevokes
<1>9. QED BY <1>c, <1>d

\* A password reset that nothing disturbs ends with no session that was open when the
\* password changed (ResetPassword, lines 272-279).
THEOREM ResetRevokesSessions == Spec => []ResetRevokes
<1> DEFINE IInv == TypeOK /\ RowsDistinct /\ ChangesPast /\ ResetRevokes
<1>1. Init => IInv
  BY BoundsAssumption
     DEF Init, TypeOK, RowsDistinct, ChangesPast, ResetRevokes, Idle, Local, Request, Pcs
<1>2. IInv /\ [Next]_vars => IInv'
  BY TypeStep, RowsStep, ResetStep
<1>3. QED BY <1>1, <1>2, PTL DEF Spec
=============================================================================
