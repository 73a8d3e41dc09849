-------------------------------- MODULE Services --------------------------------
(***************************************************************************)
(* The smaller parts of the server, none of which shares state with another *)
(* here: a behaviour is one of a single part, chosen at the start, which    *)
(* has the variables to itself.  So their state spaces add up instead of    *)
(* multiplying, and one instance of the constants serves all of them.       *)
(***************************************************************************)
EXTENDS Naturals, FiniteSets

CONSTANTS Actors,       \* what names requests, tabs and accounts
          Accounts, Anonymous, Ids, MaxTracked, MaxConns, MaxArrivals,   \* HubReplies
          MaxTokens,                                                     \* Browser
          MaxNews, NewsTexts, List, Highlights,                          \* Noticias
          MaxRows, MaxPage, Texts, All,                                  \* Sugestoes
          MaxImages,                                                     \* Galeria
          MaxTold, Limits,                                               \* Notifications
          Profiles, Blank, Google,                                       \* UserCache
          None

ASSUME NamesAssumption ==
    /\ None \notin Actors \cup Accounts \cup Ids \cup Texts \cup NewsTexts \cup Profiles
                          \cup {List, Highlights, All, Anonymous}
    /\ List # Highlights /\ Anonymous \notin Accounts
    /\ {Blank, Google} \subseteq Profiles /\ Blank # Google

ASSUME BoundsAssumption ==
    /\ {MaxTracked, MaxConns, MaxArrivals, MaxTokens, MaxNews, MaxRows, MaxImages, MaxTold}
          \subseteq Nat
    /\ MaxPage \in Nat \ {0}
    /\ Limits \subseteq Nat \ {0}

VARIABLES under,                        \* the part that runs
          v1, v2, v3, v4, v5, v6, v7    \* its variables, in the order it declares them

vars == <<under, v1, v2, v3, v4, v5, v6, v7>>

-----------------------------------------------------------------------------
Hub == INSTANCE HubReplies WITH
    Users <- Accounts,
    conn <- v1, byUser <- v2, connMap <- v3, asks <- v4, reused <- v5, dropped <- v6

Web == INSTANCE Browser WITH
    Tabs <- Actors,
    jar <- v1, access <- v2, rows <- v3, call <- v4, issued <- v5, mine <- v6, causes <- v7

OAuth == INSTANCE OAuthState WITH
    Tabs <- Actors,
    cookie <- v1, tab <- v2, spoiled <- v3

News == INSTANCE Noticias WITH
    Procs <- Actors, Texts <- NewsTexts,
    news <- v1, created <- v2, cache <- v3, req <- v4

Sug == INSTANCE Sugestoes WITH
    Procs <- Actors,
    sugestoes <- v1, created <- v2, cache <- v3, req <- v4

Gal == INSTANCE Galeria WITH
    Users <- Actors, Procs <- Actors,
    images <- v1, rows <- v2, stored <- v3, req <- v4, causes <- v5

Told == INSTANCE Notifications WITH
    Users <- Actors, Procs <- Actors, MaxRows <- MaxTold,
    rows <- v1, serial <- v2, req <- v3, shown <- v4, missed <- v5

Cached == INSTANCE UserCache WITH
    Users <- Accounts, Procs <- Actors,
    row <- v1, byID <- v2, byUUID <- v3, req <- v4, late <- v5, drift <- v6

ASSUME NoneIsNothing ==
    /\ None \notin Hub!Conns
    /\ None \notin News!Keys \cup News!Items \cup Sug!Writes
    /\ \A v \in News!PageValues \cup Sug!PageValues \cup Cached!User : v # None

Parts == {"hub", "web", "oauth", "noticias", "sugestoes", "galeria", "notifications", "users"}

\* A part leaves the variables that it has not.
Init ==
    \/ under = "hub" /\ Hub!Init /\ v7 = None
    \/ under = "web" /\ Web!Init
    \/ under = "oauth" /\ OAuth!Init /\ v4 = None /\ v5 = None /\ v6 = None /\ v7 = None
    \/ under = "noticias" /\ News!Init /\ v5 = None /\ v6 = None /\ v7 = None
    \/ under = "sugestoes" /\ Sug!Init /\ v5 = None /\ v6 = None /\ v7 = None
    \/ under = "galeria" /\ Gal!Init /\ v6 = None /\ v7 = None
    \/ under = "notifications" /\ Told!Init /\ v6 = None /\ v7 = None
    \/ under = "users" /\ Cached!Init /\ v7 = None

Runs(part) == under = part /\ UNCHANGED under

HubStep == Runs("hub") /\ Hub!Next /\ UNCHANGED v7
WebStep == Runs("web") /\ Web!Next
OAuthStep == Runs("oauth") /\ OAuth!Next /\ UNCHANGED <<v4, v5, v6, v7>>
NoticiasStep == Runs("noticias") /\ News!Next /\ UNCHANGED <<v5, v6, v7>>
SugestoesStep == Runs("sugestoes") /\ Sug!Next /\ UNCHANGED <<v5, v6, v7>>
GaleriaStep == Runs("galeria") /\ Gal!Next /\ UNCHANGED <<v6, v7>>
NotificationsStep == Runs("notifications") /\ Told!Next /\ UNCHANGED <<v6, v7>>
UsersStep == Runs("users") /\ Cached!Next /\ UNCHANGED v7

Next ==
    \/ HubStep \/ WebStep \/ OAuthStep \/ NoticiasStep \/ SugestoesStep
    \/ GaleriaStep \/ NotificationsStep \/ UsersStep

Spec == Init /\ [][Next]_vars

-----------------------------------------------------------------------------
(* Properties: those of the parts, stated where each is defined *)

\* The types of all parts.
TypeOK ==
    /\ under \in Parts
    /\ under = "hub" => Hub!TypeOK
    /\ under = "web" => Web!TypeOK
    /\ under = "oauth" => OAuth!TypeOK
    /\ under = "noticias" => News!TypeOK
    /\ under = "sugestoes" => Sug!TypeOK
    /\ under = "galeria" => Gal!TypeOK
    /\ under = "notifications" => Told!TypeOK
    /\ under = "users" => Cached!TypeOK

\* An answer over WebSocket goes to the socket that asked, unless the id was sent
\* again too early or connMap was cleaned (hub.go, Reply and ReplyError).
RepliesGoHome == under = "hub" => Hub!RepliesGoHome

\* Who asked over WebSocket and is still connected is answered, with the same
\* exceptions (hub.go, Reply and ReplyError).
AskerIsAnswered == under = "hub" => Hub!AskerIsAnswered

\* Cookie and session agree: the cookie of a browser opens a session, and a browser
\* without one has none open, unless tabs overlapped, something was lost or failed, or
\* the session was closed elsewhere (handlers/auth.go, Refresh, Session and Logout).
CookieHasSession == under = "web" => Web!CookieOpensSession /\ Web!NoCookieNoSession

\* The cookie comes back by signing in only, unless tabs overlapped (handlers/auth.go).
CookieBySigningIn == [][under = "web" => Web!SignsIn]_vars

\* A login with Google is refused for its state only if another one crossed it or ten
\* minutes passed (handlers/auth.go, GoogleCallback).
RefusedHasCause == under = "oauth" => OAuth!RefusedHasCause

\* Cached news and suggestions are stale only for a cause that CacheAside knows
\* (noticias_service.go, sugestoes_service.go).
ListsHaveCause ==
    /\ under = "noticias" => News!NewsHaveCause
    /\ under = "sugestoes" => Sug!SuggestionsHaveCause

\* A row of the gallery lacks its image, or an image its row, only while a deletion or
\* an upload is on its way, or because one ended early or the destruction failed
\* (galeria_service.go, Upload and Delete).
ImagesMatchRows == under = "galeria" => Gal!RowHasImage /\ Gal!OrphanHasCause

\* Reading a page marks the rows of its account, and of those that were not on it only
\* the later ones, or those that the page left out (handlers/notification.go).
MarksOwnPage == [][under = "notifications" => Told!MarksOwn]_vars

\* What was shown is marked, unless that failed or was lost (handlers/notification.go).
ShownIsRead == under = "notifications" => Told!ShownIsRead

\* The two maps of accounts tell the same (auth_service.go, setUser, deleteUserCache).
MapsAgree == under = "users" => Cached!MapsAgree

\* The cached is_verified, display name and avatar are wrong only for a cause that is
\* named (auth_service.go, setUser and deleteUserCache).
EntriesHaveCause == under = "users" => Cached!VerifiedHasCause /\ Cached!ProfileHasCause
=============================================================================
