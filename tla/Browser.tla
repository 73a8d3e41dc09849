-------------------------------- MODULE Browser --------------------------------
(***************************************************************************)
(* A browser and the handlers of pkg/handlers/auth.go: the refresh token is *)
(* a cookie that all tabs share, and it is rotated by every refresh and     *)
(* every restored session, so that what the cookie says and which session   *)
(* is open can drift apart.                                                 *)
(*                                                                         *)
(* A request carries the cookie as it was when it was sent, and an answer   *)
(* sets or clears the cookie when it arrives; in between, other tabs send   *)
(* and receive.  The statements of a handler that rotates are two steps, as *)
(* in Sessions, which has the whole life of the rows; here they are those   *)
(* of one account, and whatever other devices, the limit or the time do to  *)
(* them is CloseElsewhere.  The frontend is not in this repository: a tab   *)
(* has one request in flight, keeps the access token it was given until it  *)
(* logs out, and sends the refresh token as a cookie only.                  *)
(***************************************************************************)
EXTENDS Naturals

CONSTANTS Tabs,
          MaxTokens    \* bound on the refresh tokens ever drawn

VARIABLES jar,      \* the cookie refresh_token, 0 if there is none
          access,   \* the tabs whose access token is valid
          rows,     \* table sessions: those of the account that are open
          call,     \* the request that each tab has in flight
          issued,   \* refresh tokens drawn so far
          mine,     \* history: the session that this browser was given last
          causes    \* history: what has parted cookie and session since the last login

cookies == <<jar, access, mine>>
vars == <<cookies, rows, call, issued, causes>>

-----------------------------------------------------------------------------
Token == 1 .. MaxTokens

Row == [id : Token, token : Token]

Kinds == {"login", "refresh", "session", "logout", "logoutAll"}

\* An answer may set the cookie, with 0 to clear it, and may carry an access token.
Answer == [jar : SUBSET (0 .. MaxTokens), access : BOOLEAN, id : 0 .. MaxTokens]

\* token is the cookie that was sent, bearer that a valid access token was; id is the
\* row that the handler has read.
Call == [pc : {"idle", "sent", "rotate", "answered"}, kind : Kinds \cup {"none"},
         token : 0 .. MaxTokens, bearer : BOOLEAN, id : 0 .. MaxTokens,
         answer : Answer]

Plain == [jar |-> {}, access |-> FALSE, id |-> 0]

Idle == [pc |-> "idle", kind |-> "none", token |-> 0, bearer |-> FALSE, id |-> 0,
         answer |-> Plain]

InFlight == {t \in Tabs : call[t] # Idle}

Init == /\ jar = 0 /\ access = {} /\ rows = {}
        /\ call = [t \in Tabs |-> Idle]
        /\ issued = 0 /\ mine = 0 /\ causes = {}

Draw == issued < MaxTokens /\ issued' = issued + 1

\* overlap: requests of two tabs overlapped; fault: a statement failed, or an answer
\* was lost; closed: a session was closed elsewhere, or expired.
Causes == {"overlap", "fault", "closed"}

Because(c, P) == causes' = IF P THEN causes \cup {c} ELSE causes

Fault == Because("fault", TRUE)

\* setRefreshCookie, and the answer of who is signed in.
SignedIn(token, id) == [jar |-> {token}, access |-> TRUE, id |-> id]

\* clearRefreshCookie.
Cleared == [jar |-> {0}, access |-> FALSE, id |-> 0]

Respond(t, a) ==
    call' = [call EXCEPT ![t].pc = "answered", ![t].answer = a,
                         ![t].token = 0, ![t].id = 0]

Serves(t, kinds) == call[t].pc = "sent" /\ call[t].kind \in kinds

\* AuthMiddleware lets the request through: it stands before both logouts (main.go).
Authenticated(t) == call[t].bearer

-----------------------------------------------------------------------------
(* The browser *)

Send(t, kind) ==
    /\ call[t] = Idle
    /\ call' = [call EXCEPT ![t] = [Idle EXCEPT !.pc = "sent", !.kind = kind, !.token = jar,
                                        !.bearer = t \in access]]
    /\ Because("overlap", InFlight # {})
    /\ UNCHANGED <<cookies, rows, issued>>

\* The answer to a login tells of a session that is still open, and nothing else is
\* in flight: cookie and session agree again.
Anew(t) == /\ call[t].kind = "login" /\ InFlight = {t}
           /\ \E r \in rows : r.id = call[t].answer.id

\* The answer arrives: the cookies it sets are those of all tabs.
Receive(t) ==
    /\ call[t].pc = "answered"
    /\ LET a == call[t].answer
       IN /\ jar' \in IF a.jar = {} THEN {jar} ELSE a.jar
          /\ access' = IF a.access THEN access \cup {t}
                       ELSE IF call[t].kind \in {"logout", "logoutAll"} THEN access \ {t}
                       ELSE access
          /\ mine' = IF a.id # 0 THEN a.id ELSE mine
    /\ causes' = IF Anew(t) THEN {} ELSE causes
    /\ call' = [call EXCEPT ![t] = Idle]
    /\ UNCHANGED <<rows, issued>>

\* The request, or its answer, is lost with the connection, or the server stops.
Lose(t) ==
    /\ call[t] # Idle
    /\ Fault
    /\ call' = [call EXCEPT ![t] = Idle]
    /\ UNCHANGED <<cookies, rows, issued>>

\* accessTokenTTL passes for the token of a tab.
AccessExpires(t) ==
    /\ t \in access /\ access' = access \ {t}
    /\ UNCHANGED <<jar, rows, call, issued, mine, causes>>

-----------------------------------------------------------------------------
(* The handlers *)

\* With a password or through Google: a new session, or an error, and then the answer
\* sets no cookie.
Login(t) ==
    /\ Serves(t, {"login"})
    /\ \/ /\ Draw
          /\ rows' = rows \cup {[id |-> issued', token |-> issued']}
          /\ Respond(t, SignedIn(issued', issued'))
       \/ Respond(t, Plain) /\ UNCHANGED <<rows, issued>>
    /\ UNCHANGED <<cookies, causes>>

\* Refresh tells an error, and Session clears the cookie: also for an error of the
\* database.
NoSession(t) == Respond(t, IF call[t].kind = "refresh" THEN Plain ELSE Cleared)

\* Mutated form: the session is looked up although there is no token.
GetSessionByAnyToken(t) ==
    /\ Serves(t, {"refresh", "session"})
    /\ \E r \in rows : r.token = call[t].token \/ call[t].token = 0
    /\ call' = [call EXCEPT ![t].pc = "rotate",
                            ![t].id = CHOOSE i \in {r.id : r \in rows} : TRUE]
    /\ UNCHANGED <<cookies, rows, issued, causes>>

\* The row of the token is read.
GetSessionByToken(t) ==
    /\ Serves(t, {"refresh", "session"})
    /\ call[t].kind = "session" => ~ call[t].bearer
    /\ \/ \E r \in rows :
             /\ r.token = call[t].token
             /\ call' = [call EXCEPT ![t].pc = "rotate", ![t].id = r.id]
             /\ UNCHANGED causes
       \/ /\ ~ \E r \in rows : r.token = call[t].token
          /\ NoSession(t)
          /\ UNCHANGED causes
       \/ Fault /\ NoSession(t)
    /\ UNCHANGED <<cookies, rows, issued>>

\* Mutated form: the new token is not written to the row.
RotateNothing(t) ==
    /\ call[t].pc = "rotate"
    /\ Draw
    /\ Respond(t, SignedIn(issued', 0))
    /\ UNCHANGED <<cookies, rows, causes>>

UpdateSession(id, token) ==
    rows' = {IF r.id = id THEN [r EXCEPT !.token = token] ELSE r : r \in rows}

\* The row is changed if it is still there, and the answer is the same if it is not.
\* When the statement fails, Refresh says so, and Session does not look.
Rotate(t) ==
    /\ call[t].pc = "rotate"
    /\ Draw
    /\ \/ /\ UpdateSession(call[t].id, issued')
          /\ Respond(t, SignedIn(issued', 0))
          /\ UNCHANGED causes
       \/ /\ Fault
          /\ Respond(t, IF call[t].kind = "refresh" THEN Plain ELSE SignedIn(issued', 0))
          /\ UpdateSession(call[t].id, issued') \/ UNCHANGED rows
    /\ UNCHANGED cookies

\* Session with an access token that is valid looks at nothing else.
SessionOfBearer(t) ==
    /\ Serves(t, {"session"}) /\ call[t].bearer
    /\ Respond(t, Plain)
    /\ UNCHANGED <<cookies, rows, issued, causes>>

\* Mutated form: only the cookie is cleared.
LogoutCookie(t) ==
    /\ Serves(t, {"logout"})
    /\ Respond(t, IF Authenticated(t) THEN Cleared ELSE Plain)
    /\ UNCHANGED <<cookies, rows, issued, causes>>

\* Who is not authenticated is turned away, and keeps the cookie and the session.  The
\* row goes if it still has this token; the error is ignored.
Logout(t) ==
    /\ Serves(t, {"logout"})
    /\ IF Authenticated(t)
       THEN /\ \/ rows' = {r \in rows : r.token # call[t].token} /\ UNCHANGED causes
               \/ Fault /\ UNCHANGED rows
            /\ Respond(t, Cleared)
       ELSE Respond(t, Plain) /\ UNCHANGED <<rows, causes>>
    /\ UNCHANGED <<cookies, issued>>

\* The same guard.
LogoutAll(t) ==
    /\ Serves(t, {"logoutAll"})
    /\ IF Authenticated(t)
       THEN /\ \/ rows' = {} /\ UNCHANGED causes
               \/ Fault /\ UNCHANGED rows
            /\ Respond(t, Cleared)
       ELSE Respond(t, Plain) /\ UNCHANGED <<rows, causes>>
    /\ UNCHANGED <<cookies, issued>>

-----------------------------------------------------------------------------
(* What others do to the rows *)

\* A revocation from another device, the limit on sessions, or their thirty days.
CloseElsewhere ==
    /\ \E r \in rows : rows' = rows \ {r}
    /\ Because("closed", TRUE)
    /\ UNCHANGED <<cookies, call, issued>>

Handle(t) ==
    \/ Login(t) \/ GetSessionByToken(t) \/ Rotate(t) \/ SessionOfBearer(t)
    \/ Logout(t) \/ LogoutAll(t)

Next ==
    \/ \E t \in Tabs : \/ \E kind \in Kinds : Send(t, kind)
                       \/ Handle(t) \/ Receive(t) \/ Lose(t) \/ AccessExpires(t)
    \/ CloseElsewhere

Spec == Init /\ [][Next]_vars

-----------------------------------------------------------------------------
(* Properties *)

\* Cookies and tokens are those that were drawn, and a request is of one of its kinds.
TypeOK ==
    /\ jar \in 0 .. issued /\ mine \in 0 .. issued
    /\ access \subseteq Tabs
    /\ rows \subseteq Row
    /\ call \in [Tabs -> Call]
    /\ issued \in 0 .. MaxTokens
    /\ causes \subseteq Causes

\* When nothing is in flight the cookie opens a session, unless requests of two tabs
\* have overlapped, an answer was lost, a statement failed, or the session was closed
\* elsewhere or has expired: rotation makes the cookie one answer away from worthless,
\* and Refresh leaves a cookie that opens nothing where it is (auth_service.go, lines
\* 364 and 417; handlers/auth.go, lines 200-203).
CookieOpensSession ==
    InFlight = {} /\ jar # 0 =>
        \/ \E r \in rows : r.token = jar
        \/ causes \cap {"overlap", "fault", "closed"} # {}

\* A browser whose cookie is gone has left no session open, unless requests of two
\* tabs have overlapped, an answer was lost or a statement failed: Logout deletes by
\* the token that the cookie had when it was sent, and Session clears the cookie of
\* a session it could not read (handlers/auth.go, lines 222-226 and 263-282).
NoCookieNoSession ==
    InFlight = {} /\ jar = 0 =>
        \/ ~ \E r \in rows : r.id = mine
        \/ causes \cap {"overlap", "fault"} # {}

\* A browser without a cookie gets one by signing in only, unless requests of two
\* tabs have overlapped: then the answer to a refresh may arrive after that to the
\* logout, and bring back a cookie (handlers/auth.go, lines 205 and 230).
SignsIn ==
    jar = 0 /\ jar' # 0 =>
        \/ "overlap" \in causes
        \/ \E t \in Tabs : call[t].kind = "login" /\ call[t].pc = "answered" /\ call'[t] = Idle
=============================================================================
