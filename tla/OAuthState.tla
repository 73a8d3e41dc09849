------------------------------- MODULE OAuthState -------------------------------
(***************************************************************************)
(* Signing in with Google, as a browser sees it: the cookie oauth_state of  *)
(* GoogleLogin and GoogleCallback, pkg/handlers/auth.go.  The state is      *)
(* drawn for each attempt, but there is one cookie for all tabs, it lasts   *)
(* ten minutes, and the callback compares it with the state that Google     *)
(* gave back.  What the callback does to accounts and sessions is in        *)
(* Accounts and Sessions.                                                   *)
(***************************************************************************)
CONSTANTS Tabs,
          None     \* no cookie

VARIABLES cookie,    \* oauth_state, as the tab whose attempt drew it, or None
          tab,       \* how far the attempt of each tab is
          spoiled    \* history: attempts that another one crossed, or that took too long

vars == <<cookie, tab, spoiled>>

\* away: at Google's page; called: GoogleCallback was requested, with the cookie of
\* that moment; granted, refused: its answer is on its way.
Stages == {"home", "away", "called", "granted", "refused"}

Init == cookie = None /\ tab = [t \in Tabs |-> "home"] /\ spoiled = {}

\* Mutated form: a state that is there already is kept.
GoogleLoginOnce(t) ==
    /\ tab[t] = "home" /\ tab' = [tab EXCEPT ![t] = "away"]
    /\ cookie' = IF cookie = None THEN t ELSE cookie
    /\ spoiled' = (spoiled \ {t}) \cup {u \in Tabs \ {t} : tab[u] = "away"}

\* A state is drawn, and takes the place of that of any other attempt.
GoogleLogin(t) ==
    /\ tab[t] = "home" /\ tab' = [tab EXCEPT ![t] = "away"]
    /\ cookie' = t
    /\ spoiled' = (spoiled \ {t}) \cup {u \in Tabs \ {t} : tab[u] = "away"}

\* Google redirects back with the state that it was given.
GoogleCallback(t) ==
    /\ tab[t] = "away"
    /\ tab' = [tab EXCEPT ![t] = IF cookie = t THEN "called" ELSE "refused"]
    /\ UNCHANGED <<cookie, spoiled>>

\* The service signs the account in, or tells an error that has other causes; the
\* cookie is cleared in the first case only.
Answered(t) ==
    /\ tab[t] = "called"
    /\ \E s \in {"granted", "home"} : tab' = [tab EXCEPT ![t] = s]
    /\ UNCHANGED <<cookie, spoiled>>

\* Whatever cookie is there goes, the one of a later attempt too.
ReceiveGranted(t) ==
    /\ tab[t] = "granted" /\ tab' = [tab EXCEPT ![t] = "home"]
    /\ cookie' = None
    /\ spoiled' = spoiled \cup {u \in Tabs : tab[u] = "away"}

ReceiveRefused(t) ==
    /\ tab[t] = "refused" /\ tab' = [tab EXCEPT ![t] = "home"]
    /\ UNCHANGED <<cookie, spoiled>>

\* Ten minutes have passed.
StateExpires ==
    /\ cookie # None /\ cookie' = None
    /\ spoiled' = spoiled \cup {u \in Tabs : tab[u] = "away"}
    /\ UNCHANGED tab

\* The user leaves, or the connection is lost.
Abandon(t) ==
    /\ tab[t] # "home" /\ tab' = [tab EXCEPT ![t] = "home"]
    /\ UNCHANGED <<cookie, spoiled>>

Next == \/ \E t \in Tabs : \/ GoogleLogin(t) \/ GoogleCallback(t) \/ Answered(t)
                           \/ ReceiveGranted(t) \/ ReceiveRefused(t) \/ Abandon(t)
        \/ StateExpires

Spec == Init /\ [][Next]_vars

-----------------------------------------------------------------------------
(* Properties *)

\* The cookie is none or that of some attempt, and each tab is at some stage.
TypeOK == /\ cookie \in Tabs \cup {None}
          /\ tab \in [Tabs -> Stages]
          /\ spoiled \subseteq Tabs

\* An attempt is refused for its state only if, since it began, another tab began or
\* completed one, or ten minutes have passed: nothing that was left over from earlier
\* attempts, granted, failed or given up, spoils a new one (GoogleLogin and
\* GoogleCallback).
RefusedHasCause == \A t \in Tabs : tab[t] = "refused" => t \in spoiled
=============================================================================
