-------------------------- MODULE SessionRegistry --------------------------
(***************************************************************************)
(* What the table of sessions promises to the rest of the portal: every    *)
(* session is opened once, is reached by exactly one refresh token at a    *)
(* time, moves from token to token, and once closed is never open again.   *)
(* Sessions.tla, which follows the handlers of auth_service.go statement   *)
(* by statement, is shown to implement it.                                 *)
(***************************************************************************)
EXTENDS Naturals, FiniteSets

CONSTANTS Users,        \* the accounts
          MaxTokens     \* bound on the random tokens ever drawn

VARIABLES open,         \* sessions that a refresh token still opens
          issued        \* tokens drawn so far: 1 .. issued

vars == <<open, issued>>

OpenSession == [id : 1 .. MaxTokens, user : Users, token : 1 .. MaxTokens]

Init == open = {} /\ issued = 0

\* A token that nobody has seen before.
Draw == issued < MaxTokens /\ issued' = issued + 1

\* A session is opened under a token of its own, which names it for ever.
Open(u) ==
    /\ Draw
    /\ open' = open \cup {[id |-> issued', user |-> u, token |-> issued']}

\* The token of an open session is replaced by a new one.
Rotate(s) ==
    /\ Draw
    /\ open' = (open \ {s}) \cup {[s EXCEPT !.token = issued']}

\* A token is drawn and no session is reached by it.
Spend == Draw /\ UNCHANGED open

\* Logout, revocation, eviction and purge all close some sessions.
Close(S) == open' = open \ S /\ UNCHANGED issued

Next == \/ \E u \in Users : Open(u)
        \/ \E s \in open : Rotate(s)
        \/ Spend
        \/ \E S \in SUBSET open : Close(S)

Spec == Init /\ [][Next]_vars

-----------------------------------------------------------------------------
\* A session that is not open now, of a token already drawn, is never open again.
NeverReopened ==
    [][\A i \in 1 .. issued :
          (~ \E s \in open : s.id = i) => ~ \E s \in open' : s.id = i]_vars

\* A token that opens nothing now, although it was drawn, opens nothing later.
NeverReissued ==
    [][\A k \in 1 .. issued :
          (~ \E s \in open : s.token = k) => ~ \E s \in open' : s.token = k]_vars
=============================================================================
