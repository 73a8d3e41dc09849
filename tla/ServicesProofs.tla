----------------------------- MODULE ServicesProofs -----------------------------
(***************************************************************************)
(* Theorems about the smaller parts of the server, for any number of tabs,  *)
(* requests, accounts, rows and images.                                     *)
(***************************************************************************)
EXTENDS Services, SequenceTheorems, FiniteSetTheorems, TLAPS

-----------------------------------------------------------------------------
(* One part runs *)

\* The part stays, and a step is one of it, or leaves what it has.
LEMMA StepOfPart ==
    ASSUME [Next]_vars
    PROVE  /\ under' = under
           /\ under = "hub" => Hub!Next \/ UNCHANGED <<v1, v2, v3, v4, v5, v6>>
           /\ under = "web" => Web!Next \/ UNCHANGED <<v1, v2, v3, v4, v5, v6, v7>>
           /\ under = "oauth" => OAuth!Next \/ UNCHANGED <<v1, v2, v3>>
           /\ under = "noticias" => News!Next \/ UNCHANGED <<v1, v2, v3, v4>>
           /\ under = "sugestoes" => Sug!Next \/ UNCHANGED <<v1, v2, v3, v4>>
           /\ under = "galeria" => Gal!Next \/ UNCHANGED <<v1, v2, v3, v4, v5>>
           /\ under = "notifications" => Told!Next \/ UNCHANGED <<v1, v2, v3, v4, v5>>
           /\ under = "users" => Cached!Next \/ UNCHANGED <<v1, v2, v3, v4, v5, v6>>
BY DEF Next, vars, HubStep, WebStep, OAuthStep, NoticiasStep, SugestoesStep, GaleriaStep,
       NotificationsStep, UsersStep, Runs

-----------------------------------------------------------------------------
(* Signing in with Google *)

\* An attempt at Google's page has its state in the cookie, or is spoiled.
StateKept == \A t \in Actors : v2[t] = "away" => v1 = t \/ t \in v3

OAuthInv == OAuth!TypeOK /\ OAuth!RefusedHasCause /\ StateKept

LEMMA OAuthInit == OAuth!Init => OAuthInv
BY DEF OAuth!Init, OAuthInv, OAuth!TypeOK, OAuth!Stages, OAuth!RefusedHasCause, StateKept

LEMMA OAuthNext == OAuthInv /\ OAuth!Next => OAuthInv'
<1> USE DEF OAuthInv, OAuth!TypeOK, OAuth!Stages, OAuth!RefusedHasCause, StateKept
<1>1. ASSUME OAuthInv, NEW t \in Actors, OAuth!GoogleLogin(t) PROVE OAuthInv'
  BY <1>1 DEF OAuth!GoogleLogin
<1>2. ASSUME OAuthInv, NEW t \in Actors, OAuth!GoogleCallback(t) PROVE OAuthInv'
  BY <1>2 DEF OAuth!GoogleCallback
<1>3. ASSUME OAuthInv, NEW t \in Actors, OAuth!Answered(t) PROVE OAuthInv'
  BY <1>3 DEF OAuth!Answered
<1>4. ASSUME OAuthInv, NEW t \in Actors, OAuth!ReceiveGranted(t) PROVE OAuthInv'
  BY <1>4 DEF OAuth!ReceiveGranted
<1>5. ASSUME OAuthInv, NEW t \in Actors, OAuth!ReceiveRefused(t) PROVE OAuthInv'
  BY <1>5 DEF OAuth!ReceiveRefused
<1>6. ASSUME OAuthInv, NEW t \in Actors, OAuth!Abandon(t) PROVE OAuthInv'
  BY <1>6 DEF OAuth!Abandon
<1>7. ASSUME OAuthInv, OAuth!StateExpires PROVE OAuthInv'
  BY <1>7 DEF OAuth!StateExpires
<1> HIDE DEF OAuthInv
<1>8. QED
  BY <1>1, <1>2, <1>3, <1>4, <1>5, <1>6, <1>7 DEF OAuth!Next

LEMMA OAuthHolds == Spec => [](under = "oauth" => OAuthInv)
<1> DEFINE I == under = "oauth" => OAuthInv
<1>1. Init => I
  BY OAuthInit DEF Init
<1>2. I /\ [Next]_vars => I'
  <2>1. ASSUME OAuthInv, UNCHANGED <<v1, v2, v3>> PROVE OAuthInv'
    BY <2>1 DEF OAuthInv, OAuth!TypeOK, OAuth!RefusedHasCause, StateKept
  <2>2. QED BY <2>1, StepOfPart, OAuthNext
<1>3. QED BY <1>1, <1>2, PTL DEF Spec

\* A login with Google is refused for its state only if another one crossed it or ten
\* minutes passed, whatever the number of tabs: what an earlier attempt left behind, in the
\* cookie or in an answer on its way, spoils none (handlers/auth.go, GoogleCallback).
THEOREM RefusalsHaveCause == Spec => []RefusedHasCause
<1>1. (under = "oauth" => OAuthInv) => RefusedHasCause BY DEF OAuthInv, RefusedHasCause
<1>2. QED BY <1>1, OAuthHolds, PTL

-----------------------------------------------------------------------------
(* The cache of accounts *)

\* Whoever a request is about has a row, and what it is about to store is wrong only for a
\* cause.
ReadVerified(p) ==
    LET u == v4[p].of
    IN v4[p].user.verified # v1[u].verified =>
          v1[u].verified /\ (v4[p].source = "session" \/ <<p, "verified">> \in v5)

ReadProfile(p) ==
    LET u == v4[p].of
    IN v4[p].user.profile # v1[u].profile =>
          v4[p].source \in {"register", "login", "google"} \/ <<p, "profile">> \in v5

RequestIsFair(p) ==
    /\ v4[p].pc = "idle" => v4[p].source = "none"
    /\ v4[p].pc # "idle" => v4[p].of \in Accounts /\ v1[v4[p].of] # None
    /\ v4[p].pc \in {"upsert", "store"} =>
          v4[p].user \in Cached!User /\ v4[p].source \in Cached!Sources
    /\ v4[p].pc = "store" => ReadVerified(p) /\ ReadProfile(p)
    /\ v4[p].pc = "upsert" => v4[p].source = "google" /\ ReadVerified(p)

\* So has whatever is cached; the causes are those of VerifiedHasCause and ProfileHasCause.
EntryIsFair(u) ==
    /\ v2[u] # None => v1[u] # None
    /\ Cached!Hit(v2, u) =>
          /\ v2[u].user.verified # v1[u].verified =>
                /\ v1[u].verified
                /\ v2[u].source = "session" \/ <<u, "verified">> \in v6 \/ Cached!Renewing(u)
          /\ v2[u].user.profile # v1[u].profile =>
                \/ v2[u].source \in {"register", "login", "google"}
                \/ <<u, "profile">> \in v6 \/ Cached!Renewing(u)

MapsInv == Cached!TypeOK /\ v2 = v3

UsersInv == /\ MapsInv
            /\ \A p \in Actors : RequestIsFair(p)
            /\ \A u \in Accounts : EntryIsFair(u)

\* What a step may do to the rows: an account does not go, stays verified, and whoever
\* has read what changes is late.
RowsMove ==
    /\ \A u \in Accounts : v1[u] # None => v1'[u] # None /\ (v1[u].verified => v1'[u].verified)
    /\ \A q \in Actors : v4[q].pc \in {"upsert", "store"} =>
          LET u == v4[q].of
          IN /\ v1'[u].verified # v1[u].verified => <<q, "verified">> \in v5'
             /\ v1'[u].profile # v1[u].profile => <<q, "profile">> \in v5'

LEMMA RequestKept ==
    ASSUME UsersInv, MapsInv', RowsMove, NEW q \in Actors, v4'[q] = v4[q],
           \A f : <<q, f>> \in v5 => <<q, f>> \in v5'
    PROVE  RequestIsFair(q)'
<1>1. RequestIsFair(q) BY DEF UsersInv
<1> DEFINE u == v4[q].of
<1>2. CASE v4[q].pc = "idle" BY <1>1, <1>2 DEF RequestIsFair
<1>3. CASE v4[q].pc # "idle"
  <2>1. u \in Accounts /\ v1[u] \in Cached!User /\ v1'[u] \in Cached!User
    BY <1>1, <1>3 DEF UsersInv, MapsInv, Cached!TypeOK, RowsMove, RequestIsFair
  <2>2. v1[u].verified \in BOOLEAN /\ v1'[u].verified \in BOOLEAN /\ v1[u] # None /\ v1'[u] # None
    BY <1>1, <1>3, <2>1 DEF Cached!User, RequestIsFair, RowsMove
  <2>3. v1[u].verified => v1'[u].verified BY <2>1, <2>2 DEF RowsMove
  <2>4. /\ v4[q].pc = "store" => ReadVerified(q)' /\ ReadProfile(q)'
        /\ v4[q].pc = "upsert" => ReadVerified(q)'
    BY <1>1, <2>1, <2>2, <2>3 DEF RequestIsFair, ReadVerified, ReadProfile, RowsMove
  <2>5. QED BY <1>1, <1>3, <2>1, <2>2, <2>3, <2>4 DEF RequestIsFair
<1>4. QED BY <1>2, <1>3

\* An entry that stays, or expires, and whose row changes only if that is noted or the
\* entry is about to go.
LEMMA EntryKept ==
    ASSUME UsersInv, MapsInv', RowsMove, NEW u \in Accounts,
           v2'[u] # None => v2[u] # None,
           Cached!Hit(v2, u)' => v2'[u] = v2[u],
           \A f : <<u, f>> \in v6 => <<u, f>> \in v6',
           Cached!Renewing(u) => Cached!Renewing(u)',
           v2'[u] # None =>
              /\ v1'[u].verified # v1[u].verified => <<u, "verified">> \in v6' \/ Cached!Renewing(u)'
              /\ v1'[u].profile # v1[u].profile => <<u, "profile">> \in v6' \/ Cached!Renewing(u)'
    PROVE  EntryIsFair(u)'
<1>1. EntryIsFair(u) BY DEF UsersInv
<1>2. (v2[u] # None => v1[u] # None)' BY <1>1 DEF EntryIsFair, RowsMove
<1>3. ASSUME Cached!Hit(v2, u)'
      PROVE  Cached!Hit(v2, u) /\ v2'[u] = v2[u] /\ v1[u] # None /\ v1'[u] # None
  BY <1>1, <1>2, <1>3 DEF EntryIsFair, Cached!Hit
<1>4. ASSUME Cached!Hit(v2, u)'
      PROVE  /\ v1[u].verified \in BOOLEAN /\ v1'[u].verified \in BOOLEAN
             /\ v2[u].user.verified \in BOOLEAN
             /\ v1[u].verified => v1'[u].verified
  <2>1. v2[u] \in Cached!Entry /\ v1[u] \in Cached!User /\ v1'[u] \in Cached!User
    BY <1>3, <1>4 DEF UsersInv, MapsInv, Cached!TypeOK, Cached!Hit
  <2>2. QED BY <1>3, <1>4, <2>1 DEF RowsMove, Cached!Entry, Cached!User
<1>5. ASSUME Cached!Hit(v2, u)', v2[u].user.verified # v1'[u].verified
      PROVE  /\ v1'[u].verified
             /\ v2[u].source = "session" \/ <<u, "verified">> \in v6' \/ Cached!Renewing(u)'
  <2>1. CASE v1'[u].verified = v1[u].verified
    BY <1>1, <1>3, <1>5, <2>1 DEF EntryIsFair
  <2>2. CASE v1'[u].verified # v1[u].verified
    <3>1. v1'[u].verified BY <1>4, <1>5, <2>2
    <3>2. v2'[u] # None BY <1>5 DEF Cached!Hit
    <3>3. QED BY <2>2, <3>1, <3>2
  <2>3. QED BY <2>1, <2>2
<1>6. ASSUME Cached!Hit(v2, u)', v2[u].user.profile # v1'[u].profile
      PROVE  \/ v2[u].source \in {"register", "login", "google"}
             \/ <<u, "profile">> \in v6' \/ Cached!Renewing(u)'
  BY <1>1, <1>3, <1>6 DEF EntryIsFair, Cached!Hit
<1>7. QED BY <1>2, <1>3, <1>5, <1>6 DEF EntryIsFair

LEMMA UserBecomes ==
    ASSUME MapsInv, NEW p \in Actors, NEW r \in Cached!Request, Cached!Become(p, r)
    PROVE  /\ v4' \in [Actors -> Cached!Request]
           /\ v4'[p] = r /\ \A q \in Actors \ {p} : v4'[q] = v4[q]
BY DEF MapsInv, Cached!TypeOK, Cached!Become

LEMMA RowChanges ==
    ASSUME MapsInv, NEW u \in Accounts, NEW x \in Cached!User, NEW f \in Cached!Fields,
           Cached!Change(u, x, f)
    PROVE  /\ v1' \in [Accounts -> Cached!User \cup {None}]
           /\ v1'[u] = x /\ \A w \in Accounts \ {u} : v1'[w] = v1[w]
           /\ v5 \subseteq v5' /\ v5' \subseteq Actors \X Cached!Fields
           /\ \A q \in Actors : v4[q].of = u /\ v4[q].pc \in {"upsert", "store"} => <<q, f>> \in v5'
BY DEF MapsInv, Cached!TypeOK, Cached!Change, Cached!Behind, Cached!At


\* A request becomes another, and the rest of the requests stays.
LEMMA OthersKept ==
    ASSUME UsersInv, MapsInv', RowsMove, NEW p \in Actors,
           \A q \in Actors \ {p} : v4'[q] = v4[q] /\ \A f : <<q, f>> \in v5 => <<q, f>> \in v5',
           RequestIsFair(p)'
    PROVE  \A q \in Actors : RequestIsFair(q)'
<1>1. ASSUME NEW q \in Actors \ {p} PROVE RequestIsFair(q)'
  <2>1. q \in Actors /\ v4'[q] = v4[q] /\ \A f : <<q, f>> \in v5 => <<q, f>> \in v5' OBVIOUS
  <2>2. QED BY <2>1, RequestKept
<1>2. QED BY <1>1

\* One request renews the entry.
Renews(p, w) == v4[p].of = w /\ (v4[p].pc = "drop" \/ v4[p].source = "google")

LEMMA RenewingKept ==
    ASSUME NEW p \in Actors, \A q \in Actors \ {p} : v4'[q] = v4[q],
           NEW w, Renews(p, w) => Renews(p, w)'
    PROVE  Cached!Renewing(w) => Cached!Renewing(w)'
<1>1. Cached!Renewing(w) <=> \E q \in Actors : Renews(q, w)
  BY DEF Cached!Renewing, Cached!At, Renews
<1>2. Cached!Renewing(w)' <=> \E q \in Actors : Renews(q, w)'
  BY DEF Cached!Renewing, Cached!At, Renews
<1>3. \A q \in Actors \ {p} : Renews(q, w) => Renews(q, w)' BY DEF Renews
<1>4. QED BY <1>1, <1>2, <1>3

\* An account is read, as it is in the row but for what the query leaves out.
LEMMA LookupFair ==
    ASSUME UsersInv, NEW p \in Actors, NEW u \in Accounts,
           NEW source \in {"row", "login", "session"}, NEW user \in Cached!User,
           Cached!Lookup(p, u, source, user),
           /\ user.verified # v1[u].verified => v1[u].verified /\ source = "session"
           /\ user.profile # v1[u].profile => source = "login"
    PROVE  UsersInv'
<1> DEFINE r == Cached!Local("store", u, source, user)
<1>1. /\ Cached!Become(p, r) /\ UNCHANGED <<v1, v2, v3, v5, v6>>
      /\ v4[p].pc = "idle" /\ v4[p].source = "none" /\ v1[u] # None
  BY DEF Cached!Lookup, Cached!Read, Cached!maps, Cached!At, UsersInv, RequestIsFair
<1>2. r \in Cached!Request
  BY DEF Cached!Local, Cached!Request, Cached!Sources
<1>3. MapsInv BY DEF UsersInv
<1>4. /\ v4' \in [Actors -> Cached!Request]
      /\ v4'[p] = r /\ \A q \in Actors \ {p} : v4'[q] = v4[q]
  BY <1>1, <1>2, <1>3, UserBecomes
<1>5. MapsInv' BY <1>1, <1>3, <1>4 DEF MapsInv, Cached!TypeOK
<1>6. RowsMove BY <1>1 DEF RowsMove
<1>7. RequestIsFair(p)'
  BY <1>1, <1>4 DEF RequestIsFair, ReadVerified, ReadProfile, Cached!Local, Cached!Sources
<1>8. \A q \in Actors : RequestIsFair(q)'
  BY <1>1, <1>4, <1>5, <1>6, <1>7, OthersKept
<1>9. \A w \in Accounts : Cached!Renewing(w) => Cached!Renewing(w)'
  BY <1>1, <1>4, RenewingKept DEF Renews
<1>10. ASSUME NEW w \in Accounts PROVE EntryIsFair(w)'
  BY <1>1, <1>5, <1>6, <1>9, EntryKept DEF Cached!Hit
<1>11. QED BY <1>5, <1>8, <1>10 DEF UsersInv

LEMMA ReadsFair ==
    ASSUME UsersInv, NEW p \in Actors, NEW u \in Accounts,
           Cached!Me(p, u) \/ Cached!GetUserByUUID(p, u) \/ Cached!Login(p, u)
              \/ Cached!GetSessionByToken(p, u)
    PROVE  UsersInv'
<1>1. v1[u] \in Cached!User
  BY DEF UsersInv, MapsInv, Cached!TypeOK, Cached!Me, Cached!GetUserByUUID, Cached!Login,
         Cached!GetSessionByToken, Cached!Lookup
<1>2. v1[u].verified \in BOOLEAN /\ v1[u].profile \in Profiles BY <1>1 DEF Cached!User
<1>3. \A v \in BOOLEAN, x \in Profiles :
         /\ Cached!Account(v, x) \in Cached!User
         /\ Cached!Account(v, x).verified = v /\ Cached!Account(v, x).profile = x
  BY DEF Cached!Account, Cached!User
<1>4. CASE Cached!Me(p, u) \/ Cached!GetUserByUUID(p, u)
  BY <1>1, <1>4, LookupFair DEF Cached!Me, Cached!GetUserByUUID
<1>5. CASE Cached!Login(p, u)
  <2>1. v1[u].verified /\ Cached!Lookup(p, u, "login", Cached!Account(TRUE, Blank))
    BY <1>5 DEF Cached!Login
  <2>2. Blank \in Profiles BY NamesAssumption
  <2>3. QED BY <1>2, <1>3, <2>1, <2>2, LookupFair
<1>6. CASE Cached!GetSessionByToken(p, u)
  <2>1. Cached!Lookup(p, u, "session", Cached!Account(FALSE, v1[u].profile))
    BY <1>6 DEF Cached!GetSessionByToken
  <2>2. QED BY <1>2, <1>3, <2>1, LookupFair
<1>7. QED BY <1>4, <1>5, <1>6

\* The row of one account changes.
LEMMA ChangeFair ==
    ASSUME UsersInv, NEW u \in Accounts, NEW x \in Cached!User, NEW f \in Cached!Fields,
           Cached!Change(u, x, f),
           v1[u] # None => /\ v1[u].verified => x.verified
                           /\ v1[u].verified # x.verified => f = "verified"
                           /\ v1[u].profile # x.profile => f = "profile"
    PROVE  RowsMove
<1>1. MapsInv BY DEF UsersInv
<1>2. /\ v1'[u] = x /\ \A w \in Accounts \ {u} : v1'[w] = v1[w]
      /\ \A q \in Actors : v4[q].of = u /\ v4[q].pc \in {"upsert", "store"} => <<q, f>> \in v5'
  BY <1>1, RowChanges
<1>3. x # None BY NoneIsNothing
<1>4. \A w \in Accounts : v1[w] # None => v1'[w] # None /\ (v1[w].verified => v1'[w].verified)
  BY <1>2, <1>3
<1>5. ASSUME NEW q \in Actors, v4[q].pc \in {"upsert", "store"}
      PROVE  LET w == v4[q].of
             IN /\ v1'[w].verified # v1[w].verified => <<q, "verified">> \in v5'
                /\ v1'[w].profile # v1[w].profile => <<q, "profile">> \in v5'
  <2>1. v4[q].of \in Accounts /\ v1[v4[q].of] # None
    BY <1>5 DEF UsersInv, RequestIsFair
  <2>2. CASE v4[q].of = u BY <1>2, <1>5, <2>1, <2>2
  <2>3. CASE v4[q].of # u BY <1>2, <2>1, <2>3
  <2>4. QED BY <2>2, <2>3
<1>6. QED BY <1>4, <1>5 DEF RowsMove

\* The row of one account changes, and of the requests one, that was idle or stays.
LEMMA ChangeStep ==
    ASSUME UsersInv, NEW u \in Accounts, NEW x \in Cached!User, NEW f \in Cached!Fields,
           Cached!Change(u, x, f), UNCHANGED <<v2, v3>>,
           v1[u] # None => /\ v1[u].verified => x.verified
                           /\ v1[u].verified # x.verified => f = "verified"
                           /\ v1[u].profile # x.profile => f = "profile",
           v6 \subseteq v6', v6' \subseteq Accounts \X Cached!Fields,
           NEW p \in Actors, NEW r \in Cached!Request, Cached!Become(p, r),
           \A w : Renews(p, w) => r.of = w /\ (r.pc = "drop" \/ r.source = "google"),
           RequestIsFair(p)',
           v1[u] = None \/ <<u, f>> \in v6' \/ (r.of = u /\ (r.pc = "drop" \/ r.source = "google"))
    PROVE  UsersInv'
<1>1. MapsInv BY DEF UsersInv
<1>2. /\ v1' \in [Accounts -> Cached!User \cup {None}]
      /\ v1'[u] = x /\ \A w \in Accounts \ {u} : v1'[w] = v1[w]
      /\ v5 \subseteq v5' /\ v5' \subseteq Actors \X Cached!Fields
  BY <1>1, RowChanges
<1>3. /\ v4' \in [Actors -> Cached!Request]
      /\ v4'[p] = r /\ \A q \in Actors \ {p} : v4'[q] = v4[q]
  BY <1>1, UserBecomes
<1>4. MapsInv' BY <1>1, <1>2, <1>3 DEF MapsInv, Cached!TypeOK
<1>5. RowsMove BY ChangeFair
<1>6. \A q \in Actors : RequestIsFair(q)'
  BY <1>2, <1>3, <1>4, <1>5, OthersKept
<1>7. \A w : Cached!Renewing(w) => Cached!Renewing(w)'
  BY <1>3, RenewingKept DEF Renews
<1>8. ASSUME NEW w \in Accounts PROVE EntryIsFair(w)'
  <2>1. v2'[w] # None =>
           /\ v1'[w].verified # v1[w].verified => <<w, "verified">> \in v6' \/ Cached!Renewing(w)'
           /\ v1'[w].profile # v1[w].profile => <<w, "profile">> \in v6' \/ Cached!Renewing(w)'
    <3>1. CASE w # u BY <1>2, <3>1
    <3>2. CASE w = u /\ r.of = u /\ (r.pc = "drop" \/ r.source = "google")
      BY <1>3, <3>2 DEF Cached!Renewing, Cached!At
    <3>3. CASE w = u /\ v1[u] = None
      BY <3>3 DEF UsersInv, EntryIsFair
    <3>4. CASE w = u /\ v1[u] # None /\ <<u, f>> \in v6'
      BY <1>2, <3>4
    <3>5. QED BY <3>1, <3>2, <3>3, <3>4
  <2>2. QED BY <1>4, <1>5, <1>7, <2>1, EntryKept DEF Cached!Hit
<1>9. QED BY <1>4, <1>6, <1>8 DEF UsersInv

LEMMA AccountIs ==
    ASSUME NEW v \in BOOLEAN, NEW x \in Profiles
    PROVE  /\ Cached!Account(v, x) \in Cached!User
           /\ Cached!Account(v, x).verified = v /\ Cached!Account(v, x).profile = x
BY DEF Cached!Account, Cached!User

LEMMA UpdateProfileFair ==
    ASSUME UsersInv, NEW u \in Accounts, NEW x \in Profiles, Cached!UpdateProfile(u, x)
    PROVE  UsersInv'
<1> DEFINE new == [v1[u] EXCEPT !.profile = x]
<1>1. /\ v1[u] # None /\ Cached!Change(u, new, "profile")
      /\ v6' = v6 \cup {<<u, "profile">>} /\ UNCHANGED <<v2, v3, v4>>
  BY DEF Cached!UpdateProfile, Cached!maps
<1>2. MapsInv BY DEF UsersInv
<1>3. v1[u] \in Cached!User BY <1>1, <1>2 DEF MapsInv, Cached!TypeOK
<1>4. new \in Cached!User /\ new.verified = v1[u].verified BY <1>3 DEF Cached!User
<1>5. "profile" \in Cached!Fields BY DEF Cached!Fields
<1>6. /\ v1' \in [Accounts -> Cached!User \cup {None}]
      /\ v1'[u] = new /\ \A w \in Accounts \ {u} : v1'[w] = v1[w]
      /\ v5 \subseteq v5' /\ v5' \subseteq Actors \X Cached!Fields
  BY <1>1, <1>2, <1>4, <1>5, RowChanges
<1>7. MapsInv' BY <1>1, <1>2, <1>5, <1>6 DEF MapsInv, Cached!TypeOK
<1>8. RowsMove BY <1>1, <1>4, <1>5, ChangeFair
<1>9. \A q \in Actors : RequestIsFair(q)' BY <1>1, <1>6, <1>7, <1>8, RequestKept
<1>10. \A w : Cached!Renewing(w)' <=> Cached!Renewing(w)
  BY <1>1 DEF Cached!Renewing, Cached!At
<1>11. ASSUME NEW w \in Accounts PROVE EntryIsFair(w)'
  BY <1>1, <1>4, <1>6, <1>7, <1>8, <1>10, EntryKept DEF Cached!Hit
<1>12. QED BY <1>7, <1>9, <1>11 DEF UsersInv

LEMMA VerifyEmailFair ==
    ASSUME UsersInv, NEW p \in Actors, NEW u \in Accounts, Cached!VerifyEmail(p, u)
    PROVE  UsersInv'
<1> DEFINE new == [v1[u] EXCEPT !.verified = TRUE]
           r == Cached!Local("drop", u, "none", None)
<1>1. /\ v1[u] # None /\ v4[p].pc = "idle"
      /\ Cached!Change(u, new, "verified") /\ UNCHANGED <<v2, v3>>
      /\ \/ Cached!Become(p, r) /\ UNCHANGED v6
         \/ v6' = v6 \cup {<<u, "verified">>} /\ UNCHANGED v4
  BY DEF Cached!VerifyEmail, Cached!maps, Cached!At
<1>2. MapsInv /\ RequestIsFair(p) BY DEF UsersInv
<1>3. v1[u] \in Cached!User /\ v4[p] \in Cached!Request
  BY <1>1, <1>2 DEF MapsInv, Cached!TypeOK
<1>4. new \in Cached!User /\ new.verified = TRUE /\ new.profile = v1[u].profile
  BY <1>3 DEF Cached!User
<1>5. "verified" \in Cached!Fields BY DEF Cached!Fields
<1>6. v1'[u] = new /\ new # None BY <1>1, <1>2, <1>4, <1>5, RowChanges, NoneIsNothing
<1>7. \A w : ~ Renews(p, w) BY <1>1, <1>2 DEF Renews, RequestIsFair
<1>8. v6 \subseteq Accounts \X Cached!Fields BY <1>2 DEF MapsInv, Cached!TypeOK
<1>9. CASE Cached!Become(p, r) /\ UNCHANGED v6
  <2>1. r \in Cached!Request BY DEF Cached!Local, Cached!Request
  <2>2. v4'[p] = r BY <1>2, <1>9, <2>1, UserBecomes
  <2>3. r.pc = "drop" /\ r.of = u BY DEF Cached!Local
  <2>4. RequestIsFair(p)' BY <1>6, <2>2, <2>3 DEF RequestIsFair
  <2>5. QED
    BY <1>1, <1>4, <1>5, <1>7, <1>8, <1>9, <2>1, <2>3, <2>4, ChangeStep
<1>10. CASE v6' = v6 \cup {<<u, "verified">>} /\ UNCHANGED v4
  <2>1. Cached!Become(p, v4[p])
    BY <1>2, <1>10 DEF Cached!Become, MapsInv, Cached!TypeOK
  <2>2. RequestIsFair(p)' BY <1>1, <1>2, <1>10 DEF RequestIsFair
  <2>3. v6 \subseteq v6' /\ v6' \subseteq Accounts \X Cached!Fields /\ <<u, "verified">> \in v6'
    BY <1>5, <1>8, <1>10
  <2>4. QED BY <1>1, <1>3, <1>4, <1>5, <1>7, <2>1, <2>2, <2>3, ChangeStep
<1>11. QED BY <1>1, <1>9, <1>10

LEMMA RegisterFair ==
    ASSUME UsersInv, NEW p \in Actors, NEW u \in Accounts, Cached!Register(p, u)
    PROVE  UsersInv'
<1> DEFINE new == Cached!Account(FALSE, Blank)
           r == Cached!Local("store", u, "register", new)
<1>1. /\ v1[u] = None /\ v4[p].pc = "idle"
      /\ Cached!Change(u, new, "verified") /\ UNCHANGED <<v2, v3, v6>>
      /\ Cached!Become(p, r) \/ UNCHANGED v4
  BY DEF Cached!Register, Cached!Read, Cached!maps, Cached!At
<1>2. MapsInv /\ RequestIsFair(p) BY DEF UsersInv
<1>3. new \in Cached!User BY NamesAssumption, AccountIs
<1>4. "verified" \in Cached!Fields BY DEF Cached!Fields
<1>5. v1'[u] = new /\ new # None BY <1>1, <1>2, <1>3, <1>4, RowChanges, NoneIsNothing
<1>6. \A w : ~ Renews(p, w) BY <1>1, <1>2 DEF Renews, RequestIsFair
<1>7. v6' \subseteq Accounts \X Cached!Fields BY <1>1, <1>2 DEF MapsInv, Cached!TypeOK
<1>8. CASE Cached!Become(p, r)
  <2>1. r \in Cached!Request BY <1>3 DEF Cached!Local, Cached!Request, Cached!Sources
  <2>2. v4'[p] = r BY <1>2, <1>8, <2>1, UserBecomes
  <2>3. /\ r.pc = "store" /\ r.of = u /\ r.user = new
        /\ r.source = "register" /\ r.source \in Cached!Sources
    BY DEF Cached!Local, Cached!Sources
  <2>4. RequestIsFair(p)'
    BY <1>3, <1>5, <2>2, <2>3 DEF RequestIsFair, ReadVerified, ReadProfile
  <2>5. QED BY <1>1, <1>3, <1>4, <1>6, <1>7, <1>8, <2>1, <2>4, ChangeStep
<1>9. CASE UNCHANGED v4
  <2>1. Cached!Become(p, v4[p]) /\ v4[p] \in Cached!Request
    BY <1>2, <1>9 DEF Cached!Become, MapsInv, Cached!TypeOK
  <2>2. RequestIsFair(p)' BY <1>1, <1>2, <1>9 DEF RequestIsFair
  <2>3. QED BY <1>1, <1>3, <1>4, <1>6, <1>7, <1>9, <2>1, <2>2, ChangeStep
<1>10. QED BY <1>1, <1>8, <1>9

\* The account is linked, and verified by it, or created.
LEMMA GoogleVerifiesFair ==
    ASSUME UsersInv, NEW p \in Actors, NEW u \in Accounts, v4[p].pc = "idle",
           Cached!Change(u, Cached!Account(TRUE, IF v1[u] = None THEN Blank ELSE v1[u].profile),
                         "verified"),
           Cached!Become(p, Cached!Local("upsert", u, "google", Cached!Account(TRUE, Google))),
           UNCHANGED <<v2, v3, v6>>
    PROVE  UsersInv'
<1> DEFINE x == IF v1[u] = None THEN Blank ELSE v1[u].profile
           new == Cached!Account(TRUE, x)
           r == Cached!Local("upsert", u, "google", Cached!Account(TRUE, Google))
<1>1. /\ v4[p].pc = "idle" /\ Cached!Change(u, new, "verified") /\ Cached!Become(p, r)
      /\ UNCHANGED <<v2, v3, v6>>
  OBVIOUS
<1>2. MapsInv /\ RequestIsFair(p) BY DEF UsersInv
<1>3. v1[u] # None => v1[u].profile \in Profiles
  BY <1>2 DEF MapsInv, Cached!TypeOK, Cached!User
<1>4. new \in Cached!User /\ new.verified = TRUE /\ new.profile = x
  BY <1>3, NamesAssumption, AccountIs
<1>5. "verified" \in Cached!Fields BY DEF Cached!Fields
<1>6. v1'[u] = new /\ new # None BY <1>1, <1>2, <1>4, <1>5, RowChanges, NoneIsNothing
<1>7. \A w : ~ Renews(p, w) BY <1>1, <1>2 DEF Renews, RequestIsFair
<1>8. v6' \subseteq Accounts \X Cached!Fields BY <1>1, <1>2 DEF MapsInv, Cached!TypeOK
<1>9. Cached!Account(TRUE, Google) \in Cached!User /\ Cached!Account(TRUE, Google).verified = TRUE
  BY NamesAssumption, AccountIs
<1>10. r \in Cached!Request BY <1>9 DEF Cached!Local, Cached!Request, Cached!Sources
<1>11. v4'[p] = r BY <1>1, <1>2, <1>10, UserBecomes
<1>12. /\ r.pc = "upsert" /\ r.of = u /\ r.source = "google"
       /\ r.user = Cached!Account(TRUE, Google) /\ r.source \in Cached!Sources
  BY DEF Cached!Local, Cached!Sources
<1>13. RequestIsFair(p)'
  BY <1>4, <1>6, <1>9, <1>11, <1>12 DEF RequestIsFair, ReadVerified
<1>14. v1[u] # None => /\ v1[u].verified => new.verified
                       /\ v1[u].verified # new.verified => "verified" = "verified"
                       /\ v1[u].profile # new.profile => "verified" = "profile"
  BY <1>4
<1> HIDE DEF new, r
<1>15. QED
  BY <1>1, <1>4, <1>5, <1>7, <1>8, <1>10, <1>12, <1>13, <1>14, ChangeStep

\* A request of Google's goes on, and no row changes.
LEMMA GoogleGoesOn ==
    ASSUME UsersInv, NEW p \in Actors, NEW r \in Cached!Request, Cached!Become(p, r),
           UNCHANGED <<v1, v2, v3, v5, v6>>,
           \A w : Renews(p, w) => r.of = w /\ (r.pc = "drop" \/ r.source = "google"),
           RequestIsFair(p)'
    PROVE  UsersInv'
<1>1. MapsInv BY DEF UsersInv
<1>2. /\ v4' \in [Actors -> Cached!Request]
      /\ v4'[p] = r /\ \A q \in Actors \ {p} : v4'[q] = v4[q]
  BY <1>1, UserBecomes
<1>3. MapsInv' BY <1>1, <1>2 DEF MapsInv, Cached!TypeOK
<1>4. RowsMove BY DEF RowsMove
<1>5. \A q \in Actors : RequestIsFair(q)' BY <1>2, <1>3, <1>4, OthersKept
<1>6. \A w : Cached!Renewing(w) => Cached!Renewing(w)' BY <1>2, RenewingKept DEF Renews
<1>7. \A w \in Accounts : EntryIsFair(w)'
  BY <1>3, <1>4, <1>6, EntryKept DEF Cached!Hit
<1>8. QED BY <1>3, <1>5, <1>7 DEF UsersInv

\* The account is as it was, verified or not.
LEMMA GoogleReturnsFair ==
    ASSUME UsersInv, NEW p \in Actors, NEW u \in Accounts, v4[p].pc = "idle", v1[u] # None,
           Cached!Become(p, Cached!Local("upsert", u, "google",
                                         Cached!Account(v1[u].verified, Google))),
           UNCHANGED <<v1, v2, v3, v5, v6>>
    PROVE  UsersInv'
<1> DEFINE a == Cached!Account(v1[u].verified, Google)
           r == Cached!Local("upsert", u, "google", a)
<1>1. Cached!Become(p, r) OBVIOUS
<1>2. MapsInv /\ RequestIsFair(p) BY DEF UsersInv
<1>3. v1[u].verified \in BOOLEAN BY <1>2 DEF MapsInv, Cached!TypeOK, Cached!User
<1>4. a \in Cached!User /\ a.verified = v1[u].verified BY <1>3, NamesAssumption, AccountIs
<1>5. r \in Cached!Request BY <1>4 DEF Cached!Local, Cached!Request, Cached!Sources
<1>6. /\ r.pc = "upsert" /\ r.of = u /\ r.source = "google" /\ r.user = a
      /\ r.source \in Cached!Sources
  BY DEF Cached!Local, Cached!Sources
<1>7. v4'[p] = r BY <1>1, <1>2, <1>5, UserBecomes
<1>8. \A w : ~ Renews(p, w) BY <1>2 DEF Renews, RequestIsFair
<1> HIDE DEF a, r
<1>9. RequestIsFair(p)' BY <1>4, <1>6, <1>7 DEF RequestIsFair, ReadVerified
<1>10. QED BY <1>1, <1>5, <1>8, <1>9, GoogleGoesOn

LEMMA GoogleUserFair ==
    ASSUME UsersInv, NEW p \in Actors, NEW u \in Accounts, Cached!GoogleUser(p, u)
    PROVE  UsersInv'
BY GoogleVerifiesFair, GoogleReturnsFair DEF Cached!GoogleUser, Cached!maps, Cached!At

LEMMA UpsertFair ==
    ASSUME UsersInv, NEW p \in Actors, Cached!UpsertSocialProfile(p)
    PROVE  UsersInv'
<1> DEFINE u == v4[p].of
           r == Cached!Local("store", u, "google", v4[p].user)
           new == Cached!Account(v1[u].verified, Google)
<1>1. /\ v4[p].pc = "upsert" /\ Cached!Become(p, r) /\ UNCHANGED <<v2, v3, v6>>
      /\ \/ v1[u].profile = Blank /\ Cached!Change(u, new, "profile")
         \/ UNCHANGED <<v1, v5>>
  BY DEF Cached!UpsertSocialProfile, Cached!Read, Cached!maps, Cached!At
<1>2. MapsInv /\ RequestIsFair(p) BY DEF UsersInv
<1>3. /\ u \in Accounts /\ v1[u] # None /\ v4[p].source = "google"
      /\ v4[p].user \in Cached!User /\ ReadVerified(p)
  BY <1>1, <1>2 DEF RequestIsFair
<1>4. v1[u] \in Cached!User BY <1>2, <1>3 DEF MapsInv, Cached!TypeOK
<1>5. v1[u].verified \in BOOLEAN BY <1>4 DEF Cached!User
<1>6. new \in Cached!User /\ new.verified = v1[u].verified
  BY <1>5, NamesAssumption, AccountIs
<1>7. "profile" \in Cached!Fields BY DEF Cached!Fields
<1>8. r \in Cached!Request BY <1>3 DEF Cached!Local, Cached!Request, Cached!Sources
<1>9. v4'[p] = r BY <1>1, <1>2, <1>8, UserBecomes
<1>10. /\ r.pc = "store" /\ r.of = u /\ r.source = "google" /\ r.user = v4[p].user
       /\ r.source \in Cached!Sources
  BY DEF Cached!Local, Cached!Sources
<1>11. \A w : Renews(p, w) => r.of = w /\ (r.pc = "drop" \/ r.source = "google")
  BY <1>10 DEF Renews
<1>12. v6' \subseteq Accounts \X Cached!Fields BY <1>1, <1>2 DEF MapsInv, Cached!TypeOK
<1>13. CASE Cached!Change(u, new, "profile")
  <2>1. v1'[u] = new /\ new # None /\ v5 \subseteq v5'
    BY <1>2, <1>3, <1>6, <1>7, <1>13, RowChanges, NoneIsNothing
  <2>2. RequestIsFair(p)'
    BY <1>3, <1>5, <1>6, <1>9, <1>10, <2>1 DEF RequestIsFair, ReadVerified, ReadProfile
  <2>3. v1[u] # None => /\ v1[u].verified => new.verified
                        /\ v1[u].verified # new.verified => "profile" = "verified"
                        /\ v1[u].profile # new.profile => "profile" = "profile"
    BY <1>5, <1>6
  <2> HIDE DEF new, r, u
  <2>4. QED
    BY <1>1, <1>3, <1>6, <1>7, <1>8, <1>10, <1>11, <1>12, <1>13, <2>2, <2>3, ChangeStep
<1>14. CASE UNCHANGED <<v1, v5>>
  <2>1. RequestIsFair(p)'
    BY <1>3, <1>9, <1>10, <1>14 DEF RequestIsFair, ReadVerified, ReadProfile
  <2> HIDE DEF r, u
  <2>2. QED BY <1>1, <1>8, <1>11, <1>14, <2>1, GoogleGoesOn
<1>15. QED BY <1>1, <1>13, <1>14

LEMMA IdleFair ==
    /\ Cached!Idle \in Cached!Request
    /\ \A p : v4[p] = Cached!Idle => RequestIsFair(p)
BY DEF Cached!Idle, Cached!Local, Cached!Request, RequestIsFair

LEMMA StoreFair ==
    ASSUME UsersInv, NEW p \in Actors, Cached!Store(p)
    PROVE  UsersInv'
<1>u. PICK u \in Accounts : u = v4[p].of BY DEF Cached!Store, Cached!At, UsersInv, RequestIsFair
<1> DEFINE e == [user |-> v4[p].user, source |-> v4[p].source, live |-> TRUE]
<1>1. /\ v4[p].pc = "store" /\ Cached!SetUser(u, e)
      /\ v6' = (v6 \ ({u} \X Cached!Fields))
                  \cup {<<u, f>> : f \in {g \in Cached!Fields : <<p, g>> \in v5}}
      /\ v5' = v5 \ ({p} \X Cached!Fields)
      /\ Cached!Become(p, Cached!Idle) /\ UNCHANGED v1
  BY <1>u DEF Cached!Store, Cached!At
<1>2. MapsInv /\ RequestIsFair(p) BY DEF UsersInv
<1>3. /\ v1[u] # None /\ v4[p].user \in Cached!User
      /\ ReadVerified(p) /\ ReadProfile(p)
  BY <1>u, <1>1, <1>2 DEF RequestIsFair
<1>4. v1[u] \in Cached!User BY <1>2, <1>3 DEF MapsInv, Cached!TypeOK
<1>5. /\ v4' \in [Actors -> Cached!Request]
      /\ v4'[p] = Cached!Idle /\ \A q \in Actors \ {p} : v4'[q] = v4[q]
  BY <1>1, <1>2, IdleFair, UserBecomes
<1>6. e \in Cached!Entry /\ e.live
  BY <1>1, <1>2 DEF RequestIsFair, Cached!Entry
<1>7. /\ v2' \in [Accounts -> Cached!Entry \cup {None}] /\ v3' = v2'
      /\ v2'[u] = e /\ \A w \in Accounts \ {u} : v2'[w] = v2[w]
  BY <1>1, <1>2, <1>3, <1>6 DEF MapsInv, Cached!TypeOK, Cached!SetUser
<1>8. /\ v6' \subseteq Accounts \X Cached!Fields
      /\ \A f \in Cached!Fields : <<p, f>> \in v5 => <<u, f>> \in v6'
      /\ \A w \in Accounts \ {u} : \A f : <<w, f>> \in v6 => <<w, f>> \in v6'
  <2> DEFINE late == {g \in Cached!Fields : <<p, g>> \in v5}
             came == {<<u, f>> : f \in late}
             left == v6 \ ({u} \X Cached!Fields)
  <2>1. v6' = left \cup came BY <1>1
  <2>2. came \subseteq Accounts \X Cached!Fields
    <3>1. ASSUME NEW x \in came PROVE x \in Accounts \X Cached!Fields
      <4>1. PICK f \in Cached!Fields : x = <<u, f>> OBVIOUS
      <4>2. QED BY <4>1
    <3>2. QED BY <3>1
  <2>3. left \subseteq Accounts \X Cached!Fields BY <1>2 DEF MapsInv, Cached!TypeOK
  <2>4. \A f \in Cached!Fields : <<p, f>> \in v5 => <<u, f>> \in came OBVIOUS
  <2>5. \A w \in Accounts \ {u} : \A f : <<w, f>> \in v6 => <<w, f>> \in left OBVIOUS
  <2> HIDE DEF came, left
  <2>6. QED BY <2>1, <2>2, <2>3, <2>4, <2>5
<1>9. /\ v5' \subseteq Actors \X Cached!Fields
      /\ \A q \in Actors \ {p} : \A f : <<q, f>> \in v5 => <<q, f>> \in v5'
  BY <1>1, <1>2 DEF MapsInv, Cached!TypeOK
<1>10. MapsInv' BY <1>1, <1>2, <1>5, <1>7, <1>8, <1>9 DEF MapsInv, Cached!TypeOK
<1>11. RowsMove BY <1>1 DEF RowsMove
<1>12. \A q \in Actors : RequestIsFair(q)'
  <2>1. RequestIsFair(p)' BY <1>5, IdleFair DEF Cached!Idle, Cached!Local, RequestIsFair
  <2>2. QED BY <1>5, <1>9, <1>10, <1>11, <2>1, OthersKept
<1>13. EntryIsFair(u)'
  <2>1. v1' = v1 /\ v2'[u].user = v4[p].user /\ v2'[u].source = v4[p].source
    BY <1>1, <1>7
  <2>2. "verified" \in Cached!Fields /\ "profile" \in Cached!Fields BY DEF Cached!Fields
  <2>3. v2'[u].user.verified # v1'[u].verified =>
           v1'[u].verified /\ (v2'[u].source = "session" \/ <<u, "verified">> \in v6')
    BY <1>u, <1>3, <1>8, <2>1, <2>2 DEF ReadVerified
  <2>4. v2'[u].user.profile # v1'[u].profile =>
           v2'[u].source \in {"register", "login", "google"} \/ <<u, "profile">> \in v6'
    BY <1>u, <1>3, <1>8, <2>1, <2>2 DEF ReadProfile
  <2>5. QED BY <1>3, <2>1, <2>3, <2>4 DEF EntryIsFair
<1>14. ASSUME NEW w \in Accounts \ {u} PROVE EntryIsFair(w)'
  <2>1. Cached!Renewing(w) => Cached!Renewing(w)' BY <1>u, <1>5, RenewingKept DEF Renews
  <2>2. QED BY <1>1, <1>7, <1>8, <1>10, <1>11, <2>1, EntryKept DEF Cached!Hit
<1>15. QED BY <1>10, <1>12, <1>13, <1>14 DEF UsersInv

LEMMA GiveUpFair ==
    ASSUME UsersInv, NEW p \in Actors, Cached!GiveUp(p)
    PROVE  UsersInv'
<1>1. /\ v4[p].pc = "store" /\ v4[p].source = "session"
      /\ v5' = v5 \ ({p} \X Cached!Fields)
      /\ Cached!Become(p, Cached!Idle) /\ UNCHANGED <<v1, v2, v3, v6>>
  BY DEF Cached!GiveUp, Cached!At, Cached!maps
<1>2. MapsInv BY DEF UsersInv
<1>3. /\ v4' \in [Actors -> Cached!Request]
      /\ v4'[p] = Cached!Idle /\ \A q \in Actors \ {p} : v4'[q] = v4[q]
  BY <1>1, <1>2, IdleFair, UserBecomes
<1>4. /\ v5' \subseteq Actors \X Cached!Fields
      /\ \A q \in Actors \ {p} : \A f : <<q, f>> \in v5 => <<q, f>> \in v5'
  BY <1>1, <1>2 DEF MapsInv, Cached!TypeOK
<1>5. MapsInv' BY <1>1, <1>2, <1>3, <1>4 DEF MapsInv, Cached!TypeOK
<1>6. RowsMove BY <1>1 DEF RowsMove
<1>7. \A q \in Actors : RequestIsFair(q)'
  <2>1. RequestIsFair(p)' BY <1>3 DEF Cached!Idle, Cached!Local, RequestIsFair
  <2>2. QED BY <1>3, <1>4, <1>5, <1>6, <2>1, OthersKept
<1>8. ASSUME NEW w \in Accounts PROVE EntryIsFair(w)'
  <2>1. Cached!Renewing(w) => Cached!Renewing(w)' BY <1>1, <1>3, RenewingKept DEF Renews
  <2>2. QED BY <1>1, <1>5, <1>6, <2>1, EntryKept DEF Cached!Hit
<1>9. QED BY <1>5, <1>7, <1>8 DEF UsersInv

\* The entry of an account goes, from both maps.
LEMMA EntryGoes ==
    ASSUME MapsInv, NEW u \in Accounts, Cached!DeleteUserCache(u)
    PROVE  /\ v2' \in [Accounts -> Cached!Entry \cup {None}] /\ v3' = v2'
           /\ v2'[u] = None /\ \A w \in Accounts \ {u} : v2'[w] = v2[w]
<1>1. v2' = [v2 EXCEPT ![u] = None] BY DEF Cached!DeleteUserCache
<1>2. v2 \in [Accounts -> Cached!Entry \cup {None}] BY DEF MapsInv, Cached!TypeOK
<1>3. v3' = v2'
  <2>1. CASE v2[u] = None BY <1>1, <1>2, <2>1 DEF Cached!DeleteUserCache, MapsInv
  <2>2. CASE v2[u] # None BY <1>1, <2>2 DEF Cached!DeleteUserCache, MapsInv
  <2>3. QED BY <2>1, <2>2
<1>4. QED BY <1>1, <1>2, <1>3

LEMMA DropFair ==
    ASSUME UsersInv, NEW p \in Actors, Cached!Drop(p)
    PROVE  UsersInv'
<1>u. PICK u \in Accounts : u = v4[p].of BY DEF Cached!Drop, Cached!At, UsersInv, RequestIsFair
<1>1. /\ v4[p].pc = "drop" /\ Cached!DeleteUserCache(u)
      /\ Cached!Become(p, Cached!Idle) /\ UNCHANGED <<v1, v5, v6>>
  BY <1>u DEF Cached!Drop, Cached!At
<1>2. MapsInv BY DEF UsersInv
<1>4. /\ v4' \in [Actors -> Cached!Request]
      /\ v4'[p] = Cached!Idle /\ \A q \in Actors \ {p} : v4'[q] = v4[q]
  BY <1>1, <1>2, IdleFair, UserBecomes
<1>5. /\ v2' \in [Accounts -> Cached!Entry \cup {None}] /\ v3' = v2'
      /\ v2'[u] = None /\ \A w \in Accounts \ {u} : v2'[w] = v2[w]
  BY <1>1, <1>2, EntryGoes
<1>6. MapsInv' BY <1>1, <1>2, <1>4, <1>5 DEF MapsInv, Cached!TypeOK
<1>7. RowsMove BY <1>1 DEF RowsMove
<1>8. \A q \in Actors : RequestIsFair(q)'
  <2>1. RequestIsFair(p)' BY <1>4 DEF Cached!Idle, Cached!Local, RequestIsFair
  <2>2. QED BY <1>1, <1>4, <1>6, <1>7, <2>1, OthersKept
<1>9. EntryIsFair(u)' BY <1>5 DEF EntryIsFair, Cached!Hit
<1>10. ASSUME NEW w \in Accounts \ {u} PROVE EntryIsFair(w)'
  <2>1. Cached!Renewing(w) => Cached!Renewing(w)' BY <1>u, <1>4, RenewingKept DEF Renews
  <2>2. QED BY <1>1, <1>5, <1>6, <1>7, <2>1, EntryKept DEF Cached!Hit
<1>11. QED BY <1>6, <1>8, <1>9, <1>10 DEF UsersInv

\* Entries expire or go, and nothing else changes.
LEMMA EntriesGoFair ==
    ASSUME UsersInv, UNCHANGED <<v1, v4, v5, v6>>,
           v2' \in [Accounts -> Cached!Entry \cup {None}], v3' = v2',
           \A u \in Accounts : /\ v2'[u] # None => v2[u] # None
                               /\ Cached!Hit(v2, u)' => v2'[u] = v2[u]
    PROVE  UsersInv'
<1>1. MapsInv' BY DEF UsersInv, MapsInv, Cached!TypeOK
<1>2. RowsMove BY DEF RowsMove
<1>3. \A q \in Actors : RequestIsFair(q)' BY <1>1, <1>2, RequestKept
<1>4. \A w : Cached!Renewing(w) => Cached!Renewing(w)' BY DEF Cached!Renewing, Cached!At
<1>5. \A w \in Accounts : EntryIsFair(w)' BY <1>1, <1>2, <1>4, EntryKept
<1>6. QED BY <1>1, <1>3, <1>5 DEF UsersInv

LEMMA GoFair ==
    ASSUME UsersInv, NEW u \in Accounts,
           Cached!CleanupUsers(u) \/ Cached!Logout(u) \/ Cached!Expire(u)
    PROVE  UsersInv'
<1>1. MapsInv BY DEF UsersInv
<1>2. CASE Cached!CleanupUsers(u) \/ Cached!Logout(u)
  <2>1. Cached!DeleteUserCache(u) /\ UNCHANGED <<v1, v4, v5, v6>>
    BY <1>2 DEF Cached!CleanupUsers, Cached!Logout
  <2>2. QED BY <1>1, <2>1, EntryGoes, EntriesGoFair DEF Cached!Hit
<1>3. CASE Cached!Expire(u)
  <2>1. Cached!Hit(v2, u) /\ UNCHANGED <<v1, v4, v5, v6>>
    BY <1>1, <1>3 DEF Cached!Expire, MapsInv, Cached!Hit
  <2>2. v2' = [v2 EXCEPT ![u].live = FALSE] /\ v3' = v2'
    BY <1>1, <1>3, <2>1 DEF Cached!Expire, MapsInv
  <2>3. v2[u] \in Cached!Entry BY <1>1, <2>1 DEF MapsInv, Cached!TypeOK, Cached!Hit
  <2>4. [v2[u] EXCEPT !.live = FALSE] \in Cached!Entry
    BY <2>3 DEF Cached!Entry
  <2>5. [v2[u] EXCEPT !.live = FALSE].live = FALSE BY <2>3 DEF Cached!Entry
  <2>6. /\ v2' \in [Accounts -> Cached!Entry \cup {None}]
        /\ v2'[u] = [v2[u] EXCEPT !.live = FALSE]
        /\ \A w \in Accounts \ {u} : v2'[w] = v2[w]
    BY <1>1, <2>2, <2>4 DEF MapsInv, Cached!TypeOK
  <2>7. QED BY <2>1, <2>2, <2>5, <2>6, EntriesGoFair DEF Cached!Hit
<1>4. QED BY <1>2, <1>3

LEMMA RestartFair ==
    ASSUME UsersInv, Cached!Restart
    PROVE  UsersInv'
<1>1. MapsInv' BY IdleFair DEF UsersInv, MapsInv, Cached!TypeOK, Cached!Restart
<1>2. \A q \in Actors : RequestIsFair(q)'
  <2>1. \A q \in Actors : v4'[q] = Cached!Idle BY DEF Cached!Restart
  <2>2. QED BY <2>1 DEF Cached!Idle, Cached!Local, RequestIsFair
<1>3. \A w \in Accounts : EntryIsFair(w)'
  BY DEF Cached!Restart, EntryIsFair, Cached!Hit
<1>4. QED BY <1>1, <1>2, <1>3 DEF UsersInv

LEMMA UsersInit == Cached!Init => UsersInv
<1> SUFFICES ASSUME Cached!Init PROVE UsersInv OBVIOUS
<1>1. MapsInv BY IdleFair DEF MapsInv, Cached!TypeOK, Cached!Init
<1>2. \A q \in Actors : RequestIsFair(q) BY IdleFair DEF Cached!Init
<1>3. \A w \in Accounts : EntryIsFair(w) BY DEF Cached!Init, EntryIsFair, Cached!Hit
<1>4. QED BY <1>1, <1>2, <1>3 DEF UsersInv

LEMMA UsersNext == UsersInv /\ Cached!Next => UsersInv'
BY ReadsFair, RegisterFair, GoogleUserFair, VerifyEmailFair, UpsertFair, StoreFair, GiveUpFair,
   DropFair, GoFair, UpdateProfileFair, RestartFair
   DEF Cached!Next

LEMMA UsersHold == Spec => [](under = "users" => UsersInv)
<1> DEFINE I == under = "users" => UsersInv
<1>1. Init => I BY UsersInit DEF Init
<1>2. I /\ [Next]_vars => I'
  <2>1. ASSUME UsersInv, UNCHANGED <<v1, v2, v3, v4, v5, v6>> PROVE UsersInv'
    BY <2>1, EntriesGoFair DEF UsersInv, MapsInv, Cached!TypeOK, Cached!Hit
  <2>2. QED BY <2>1, StepOfPart, UsersNext
<1>3. QED BY <1>1, <1>2, PTL DEF Spec

\* The two maps of accounts tell the same, in every state, whatever the handlers that call
\* setUser and deleteUserCache do at once (auth_service.go).
THEOREM MapsDoAgree == Spec => []MapsAgree
<1>1. (under = "users" => UsersInv) => MapsAgree
  BY DEF UsersInv, MapsInv, MapsAgree, Cached!MapsAgree
<1>2. QED BY <1>1, UsersHold, PTL

\* The cached is_verified, display name and avatar are wrong only for a cause that is named
\* (auth_service.go, setUser and deleteUserCache).
THEOREM EntriesDoHaveCause == Spec => []EntriesHaveCause
<1>1. (under = "users" => UsersInv) => EntriesHaveCause
  BY DEF UsersInv, EntryIsFair, EntriesHaveCause, Cached!VerifiedHasCause,
         Cached!ProfileHasCause
<1>2. QED BY <1>1, UsersHold, PTL
-----------------------------------------------------------------------------
(* The gallery *)

Uploading(p) == v4[p].pc = "insert"
Removing(p) == v4[p].pc = "delete"

\* An image has one row; an upload that is to insert one has its image to itself; and the
\* image of a deletion that is to delete the row is gone, or was kept.
Claims ==
    /\ \A p \in Actors : v4[p].pc # "idle" => v4[p].user \in Actors /\ v4[p].image \in 1 .. v3
    /\ \A r, q \in v2 : r.image = q.image => r = q
    /\ \A p \in Actors : Uploading(p) =>
          /\ v4[p].image \in v1 /\ \A r \in v2 : r.image # v4[p].image
          /\ \A q \in Actors \ {p} : v4[q].pc # "idle" => v4[q].image # v4[p].image
    /\ \A p \in Actors : Removing(p) => v4[p].image \notin v1 \/ Gal!Came(v4[p].image, {"kept"})

GalInv == Gal!TypeOK /\ Claims /\ Gal!RowHasImage /\ Gal!OrphanHasCause

LEMMA GalRequests ==
    ASSUME Gal!TypeOK, NEW p \in Actors, NEW r \in Gal!Request, v4' = [v4 EXCEPT ![p] = r]
    PROVE  /\ v4' \in [Actors -> Gal!Request]
           /\ v4'[p] = r /\ \A q \in Actors \ {p} : v4'[q] = v4[q]
BY DEF Gal!TypeOK

LEMMA CausesStay ==
    ASSUME v5 \subseteq v5', NEW i, NEW whys
    PROVE  Gal!Came(i, whys) => Gal!Came(i, whys)'
BY DEF Gal!Came

LEMMA BecauseCame ==
    ASSUME Gal!TypeOK, NEW i \in Gal!Image, NEW why \in {"lost", "kept", "refused", "failed", "cut"},
           Gal!Because(i, why)
    PROVE  /\ v5 \subseteq v5' /\ v5' \subseteq Gal!Causes
           /\ \A whys : why \in whys => Gal!Came(i, whys)'
<1> DEFINE c == [image |-> i, why |-> why]
<1>1. v5' = v5 \cup {c} BY DEF Gal!Because
<1>2. c \in Gal!Causes /\ c.image = i /\ c.why = why BY DEF Gal!Causes
<1>3. v5 \subseteq Gal!Causes BY DEF Gal!TypeOK
<1> HIDE DEF c
<1>4. ASSUME NEW whys, why \in whys PROVE Gal!Came(i, whys)'
  BY <1>1, <1>2, <1>4 DEF Gal!Came
<1>5. QED BY <1>1, <1>2, <1>3, <1>4

LEMMA GalStored ==
    ASSUME Gal!TypeOK
    PROVE  /\ v3 \in Nat /\ v3 <= MaxImages /\ 1 .. v3 \subseteq Gal!Image
           /\ \A r \in v2 : r.image \in 1 .. v3 /\ r.owner \in Actors
BY BoundsAssumption DEF Gal!TypeOK, Gal!Image, Gal!Row

LEMMA PostGal ==
    ASSUME GalInv, NEW p \in Actors, NEW u \in Actors, Gal!Post(p, u)
    PROVE  GalInv'
<1>2. Gal!TypeOK BY DEF GalInv
<1>i. PICK i \in Nat : i = v3 + 1 BY <1>2, GalStored
<1> DEFINE r == Gal!Local("insert", u, i)
<1>1. /\ v4[p].pc = "idle" /\ v3 < MaxImages /\ v3' = i /\ v1' = v1 \cup {i} /\ v2' = v2
      /\ \/ v4' = [v4 EXCEPT ![p] = r] /\ v5' = v5
         \/ Gal!Because(i, "lost") /\ v4' = v4
  BY <1>i DEF Gal!Post, Gal!At, Gal!Because
<1>3. /\ v3 \in Nat /\ i \in Gal!Image /\ 1 .. v3 \subseteq 1 .. i /\ i \notin 1 .. v3
      /\ i \in 1 .. i /\ i \in 0 .. MaxImages
  BY <1>i, <1>1, <1>2, GalStored, BoundsAssumption DEF Gal!Image
<1>4. r \in Gal!Request /\ r.pc = "insert" /\ r.user = u /\ r.image = i
  BY <1>3 DEF Gal!Local, Gal!Request
<1>5. \A q \in v2 : q.image \in 1 .. v3 BY <1>2, GalStored
<1>6. v1 \subseteq 1 .. v3 /\ v1' \subseteq 1 .. i BY <1>1, <1>2, <1>3 DEF Gal!TypeOK
<1> HIDE DEF r
<1>7. CASE v4' = [v4 EXCEPT ![p] = r] /\ v5' = v5
  <2>1. /\ v4' \in [Actors -> Gal!Request]
        /\ v4'[p] = r /\ \A q \in Actors \ {p} : v4'[q] = v4[q]
    BY <1>2, <1>4, <1>7, GalRequests
  <2>2. Gal!TypeOK' BY <1>1, <1>2, <1>3, <1>5, <1>6, <1>7, <2>1 DEF Gal!TypeOK
  <2>3. Claims'
    BY <1>1, <1>3, <1>4, <1>5, <1>7, <2>1 DEF GalInv, Claims, Uploading, Removing, Gal!Came
  <2>4. Gal!RowHasImage'
    BY <1>1, <1>4, <1>7, <2>1 DEF GalInv, Gal!RowHasImage, Gal!At, Gal!Came
  <2>5. Gal!OrphanHasCause'
    BY <1>1, <1>4, <1>7, <2>1 DEF GalInv, Gal!OrphanHasCause, Gal!At, Gal!Came
  <2>6. QED BY <2>2, <2>3, <2>4, <2>5 DEF GalInv
<1>8. CASE Gal!Because(i, "lost") /\ v4' = v4
  <2>1. /\ v5 \subseteq v5' /\ v5' \subseteq Gal!Causes
        /\ Gal!Came(i, {"lost", "kept"})'
    BY <1>2, <1>3, <1>8, BecauseCame
  <2>2. \A j, whys : Gal!Came(j, whys) => Gal!Came(j, whys)' BY <2>1, CausesStay
  <2>3. Gal!TypeOK' BY <1>1, <1>2, <1>3, <1>5, <1>6, <1>8, <2>1 DEF Gal!TypeOK
  <2>4. Claims'
    BY <1>1, <1>3, <1>5, <1>8, <2>2 DEF GalInv, Claims, Uploading, Removing
  <2>5. Gal!RowHasImage'
    BY <1>1, <1>8, <2>2 DEF GalInv, Gal!RowHasImage, Gal!At
  <2>6. Gal!OrphanHasCause'
    BY <1>1, <1>8, <2>1, <2>2 DEF GalInv, Gal!OrphanHasCause, Gal!At
  <2>7. QED BY <2>3, <2>4, <2>5, <2>6 DEF GalInv
<1>9. QED BY <1>1, <1>7, <1>8

\* A request ends, or goes on, with its cause: what holds of the causes afterwards.
LEMMA CauseOrNone ==
    ASSUME Gal!TypeOK, NEW i \in Gal!Image, NEW why \in {"lost", "kept", "refused", "failed", "cut"},
           Gal!Because(i, why)
    PROVE  /\ \A j, whys : Gal!Came(j, whys) => Gal!Came(j, whys)'
           /\ why \in {"lost", "kept"} => Gal!Came(i, {"lost", "kept"})'
           /\ why = "kept" => Gal!Came(i, {"kept"})'
           /\ why \in {"refused", "failed", "cut"} => Gal!Came(i, {"refused", "failed", "cut"})'
           /\ v5' \subseteq Gal!Causes
<1>1. /\ v5 \subseteq v5' /\ v5' \subseteq Gal!Causes
      /\ \A whys : why \in whys => Gal!Came(i, whys)'
  BY BecauseCame
<1>2. \A j, whys : Gal!Came(j, whys) => Gal!Came(j, whys)' BY <1>1, CausesStay
<1>3. /\ why \in {"lost", "kept"} => Gal!Came(i, {"lost", "kept"})'
      /\ why = "kept" => Gal!Came(i, {"kept"})'
      /\ why \in {"refused", "failed", "cut"} => Gal!Came(i, {"refused", "failed", "cut"})'
  BY <1>1
<1>4. QED BY <1>1, <1>2, <1>3

LEMMA GalIdle ==
    Gal!Idle \in Gal!Request /\ Gal!Idle.pc = "idle"
BY DEF Gal!Idle, Gal!Local, Gal!Request

LEMMA CreateGal ==
    ASSUME GalInv, NEW p \in Actors, Gal!Create(p)
    PROVE  GalInv'
<1>2. Gal!TypeOK /\ Claims BY DEF GalInv
<1>i. PICK i \in 1 .. v3 : i = v4[p].image
  BY <1>2 DEF Gal!Create, Gal!At, Claims
<1>u. PICK u \in Actors : u = v4[p].user
  BY <1>2 DEF Gal!Create, Gal!At, Claims
<1> DEFINE new == [image |-> i, owner |-> u]
<1>1. /\ v4[p].pc = "insert" /\ v1' = v1 /\ v3' = v3 /\ v4' = [v4 EXCEPT ![p] = Gal!Idle]
      /\ \/ v2' = v2 \cup {new} /\ v5' = v5
         \/ Gal!Because(i, "lost") /\ v2' = v2
  BY <1>i, <1>u DEF Gal!Create, Gal!At, Gal!Return
<1>3. i \in Gal!Image /\ v3 \in Nat BY <1>2, GalStored
<1>4. /\ v4' \in [Actors -> Gal!Request]
      /\ v4'[p] = Gal!Idle /\ \A q \in Actors \ {p} : v4'[q] = v4[q]
  BY <1>1, <1>2, GalIdle, GalRequests
<1>5. /\ i \in v1 /\ \A r \in v2 : r.image # i
      /\ \A q \in Actors \ {p} : v4[q].pc # "idle" => v4[q].image # i
  BY <1>i, <1>1, <1>2 DEF Claims, Uploading
<1>6. new \in Gal!Row /\ new.image = i /\ new.owner = u BY <1>3 DEF Gal!Row
<1> HIDE DEF new
<1>7. CASE v2' = v2 \cup {new} /\ v5' = v5
  <2>1. Gal!TypeOK' BY <1>1, <1>2, <1>3, <1>4, <1>6, <1>7 DEF Gal!TypeOK
  <2>2. Claims'
    BY <1>1, <1>2, <1>4, <1>5, <1>6, <1>7, GalIdle DEF Claims, Uploading, Removing, Gal!Came
  <2>3. Gal!RowHasImage'
    BY <1>1, <1>4, <1>5, <1>6, <1>7 DEF GalInv, Gal!RowHasImage, Gal!At, Gal!Came
  <2>4. Gal!OrphanHasCause'
    BY <1>i, <1>1, <1>4, <1>6, <1>7 DEF GalInv, Gal!OrphanHasCause, Gal!At, Gal!Came
  <2>5. QED BY <2>1, <2>2, <2>3, <2>4 DEF GalInv
<1>8. CASE Gal!Because(i, "lost") /\ v2' = v2
  <2>1. /\ \A j, whys : Gal!Came(j, whys) => Gal!Came(j, whys)'
        /\ Gal!Came(i, {"lost", "kept"})' /\ v5' \subseteq Gal!Causes
    BY <1>2, <1>3, <1>8, CauseOrNone
  <2>2. Gal!TypeOK' BY <1>1, <1>2, <1>4, <1>8, <2>1 DEF Gal!TypeOK
  <2>3. Claims'
    BY <1>1, <1>2, <1>4, <1>8, <2>1, GalIdle DEF Claims, Uploading, Removing
  <2>4. Gal!RowHasImage'
    BY <1>1, <1>4, <1>8, <2>1 DEF GalInv, Gal!RowHasImage, Gal!At
  <2>5. Gal!OrphanHasCause'
    BY <1>i, <1>1, <1>4, <1>8, <2>1 DEF GalInv, Gal!OrphanHasCause, Gal!At
  <2>6. QED BY <2>2, <2>3, <2>4, <2>5 DEF GalInv
<1>9. QED BY <1>1, <1>7, <1>8

LEMMA GetByIDGal ==
    ASSUME GalInv, NEW p \in Actors, NEW u \in Actors, Gal!GetByID(p, u)
    PROVE  GalInv'
<1>1. Gal!TypeOK /\ Claims BY DEF GalInv
<1>2. PICK r \in v2 : v4' = [v4 EXCEPT ![p] = Gal!Local("destroy", u, r.image)]
  BY DEF Gal!GetByID
<1>3. v4[p].pc = "idle" /\ UNCHANGED <<v1, v2, v3, v5>> BY DEF Gal!GetByID, Gal!At
<1> DEFINE n == Gal!Local("destroy", u, r.image)
<1>4. r.image \in 1 .. v3 /\ r.image \in Gal!Image BY <1>1, GalStored
<1>5. n \in Gal!Request /\ n.pc = "destroy" /\ n.user = u /\ n.image = r.image
  BY <1>4 DEF Gal!Local, Gal!Request
<1>6. /\ v4' \in [Actors -> Gal!Request]
      /\ v4'[p] = n /\ \A q \in Actors \ {p} : v4'[q] = v4[q]
  BY <1>1, <1>2, <1>5, GalRequests
<1>7. Gal!TypeOK' BY <1>1, <1>3, <1>6 DEF Gal!TypeOK
<1>8. Claims'
  BY <1>1, <1>3, <1>4, <1>5, <1>6 DEF Claims, Uploading, Removing, Gal!Came
<1>9. Gal!RowHasImage' BY <1>3, <1>6 DEF GalInv, Gal!RowHasImage, Gal!At, Gal!Came
<1>10. Gal!OrphanHasCause' BY <1>3, <1>6 DEF GalInv, Gal!OrphanHasCause, Gal!At, Gal!Came
<1>11. QED BY <1>7, <1>8, <1>9, <1>10 DEF GalInv

LEMMA DestroyGal ==
    ASSUME GalInv, NEW p \in Actors, Gal!Destroy(p)
    PROVE  GalInv'
<1>1. Gal!TypeOK /\ Claims BY DEF GalInv
<1>i. PICK i \in 1 .. v3 : i = v4[p].image
  BY <1>1 DEF Gal!Destroy, Gal!At, Claims
<1>2. /\ v4[p].pc = "destroy" /\ v2' = v2 /\ v3' = v3 /\ v4' = [v4 EXCEPT ![p].pc = "delete"]
      /\ \/ v1' = v1 \ {i} /\ v5' = v5
         \/ i \in v1 /\ Gal!Because(i, "kept") /\ v1' = v1
  BY <1>i DEF Gal!Destroy, Gal!At, Gal!Goto
<1>3. i \in Gal!Image BY <1>1, GalStored
<1> DEFINE n == [v4[p] EXCEPT !.pc = "delete"]
<1>4. v4[p] \in Gal!Request BY <1>1 DEF Gal!TypeOK
<1>5. n \in Gal!Request /\ n.pc = "delete" /\ n.user = v4[p].user /\ n.image = i
  BY <1>i, <1>4 DEF Gal!Request
<1>6. v4' = [v4 EXCEPT ![p] = n] BY <1>1, <1>2 DEF Gal!TypeOK
<1>7. /\ v4' \in [Actors -> Gal!Request]
      /\ v4'[p] = n /\ \A q \in Actors \ {p} : v4'[q] = v4[q]
  BY <1>1, <1>5, <1>6, GalRequests
<1>8. v4'[p].pc = "delete" /\ v4'[p].user \in Actors /\ v4'[p].image = i
  BY <1>1, <1>2, <1>5, <1>7 DEF Claims
<1> HIDE DEF n
<1>9. CASE v1' = v1 \ {i} /\ v5' = v5
  <2>1. Gal!TypeOK' BY <1>1, <1>2, <1>7, <1>9 DEF Gal!TypeOK
  <2>2. Claims'
    BY <1>i, <1>1, <1>2, <1>7, <1>8, <1>9 DEF Claims, Uploading, Removing, Gal!Came
  <2>3. Gal!RowHasImage'
    BY <1>2, <1>7, <1>8, <1>9 DEF GalInv, Gal!RowHasImage, Gal!At, Gal!Came
  <2>4. Gal!OrphanHasCause'
    BY <1>2, <1>7, <1>8, <1>9 DEF GalInv, Gal!OrphanHasCause, Gal!At, Gal!Came
  <2>5. QED BY <2>1, <2>2, <2>3, <2>4 DEF GalInv
<1>10. CASE i \in v1 /\ Gal!Because(i, "kept") /\ v1' = v1
  <2>1. /\ \A j, whys : Gal!Came(j, whys) => Gal!Came(j, whys)'
        /\ Gal!Came(i, {"kept"})' /\ v5' \subseteq Gal!Causes
    BY <1>1, <1>3, <1>10, CauseOrNone
  <2>2. Gal!TypeOK' BY <1>1, <1>2, <1>7, <1>10, <2>1 DEF Gal!TypeOK
  <2>3. Claims'
    BY <1>i, <1>1, <1>2, <1>7, <1>8, <1>10, <2>1 DEF Claims, Uploading, Removing
  <2>4. Gal!RowHasImage'
    BY <1>2, <1>7, <1>8, <1>10, <2>1 DEF GalInv, Gal!RowHasImage, Gal!At
  <2>5. Gal!OrphanHasCause'
    BY <1>2, <1>7, <1>8, <1>10, <2>1 DEF GalInv, Gal!OrphanHasCause, Gal!At
  <2>6. QED BY <2>2, <2>3, <2>4, <2>5 DEF GalInv
<1>11. QED BY <1>2, <1>9, <1>10

LEMMA DeleteGal ==
    ASSUME GalInv, NEW p \in Actors, Gal!Delete(p)
    PROVE  GalInv'
<1>1. Gal!TypeOK /\ Claims BY DEF GalInv
<1>i. PICK i \in 1 .. v3 : i = v4[p].image
  BY <1>1 DEF Gal!Delete, Gal!At, Claims
<1>u. PICK u \in Actors : u = v4[p].user
  BY <1>1 DEF Gal!Delete, Gal!At, Claims
<1> DEFINE mine == [image |-> i, owner |-> u]
<1>2. /\ v4[p].pc = "delete" /\ v1' = v1 /\ v3' = v3 /\ v4' = [v4 EXCEPT ![p] = Gal!Idle]
      /\ \/ mine \in v2 /\ v2' = v2 \ {mine} /\ v5' = v5
         \/ Gal!Because(i, "refused") /\ v2' = v2
         \/ Gal!Because(i, "failed") /\ v2' = v2
  BY <1>i, <1>u DEF Gal!Delete, Gal!At, Gal!Return
<1>3. i \in Gal!Image BY <1>1, GalStored
<1>4. /\ v4' \in [Actors -> Gal!Request]
      /\ v4'[p] = Gal!Idle /\ \A q \in Actors \ {p} : v4'[q] = v4[q]
  BY <1>1, <1>2, GalIdle, GalRequests
<1>5. i \notin v1 \/ Gal!Came(i, {"kept"}) BY <1>i, <1>1, <1>2 DEF Claims, Removing
<1>6. mine.image = i OBVIOUS
<1> HIDE DEF mine
<1>7. CASE mine \in v2 /\ v2' = v2 \ {mine} /\ v5' = v5
  <2>1. Gal!TypeOK' BY <1>1, <1>2, <1>4, <1>7 DEF Gal!TypeOK
  <2>2. Claims'
    BY <1>1, <1>2, <1>4, <1>7, GalIdle DEF Claims, Uploading, Removing, Gal!Came
  <2>3. \A r \in v2' : r \in v2 /\ r.image # i BY <1>1, <1>6, <1>7 DEF Claims
  <2>4. Gal!RowHasImage'
    BY <1>i, <1>2, <1>4, <1>7, <2>3 DEF GalInv, Gal!RowHasImage, Gal!At, Gal!Came
  <2>5. Gal!OrphanHasCause'
    <3>1. ASSUME NEW j \in v1
          PROVE  \/ \E r \in v2' : r.image = j
                 \/ \E q \in Actors : v4'[q].pc = "insert" /\ v4'[q].image = j
                 \/ Gal!Came(j, {"lost", "kept"})
      <4>1. CASE j = i BY <1>5, <3>1, <4>1 DEF Gal!Came
      <4>2. CASE j # i
        BY <1>2, <1>4, <1>6, <1>7, <3>1, <4>2 DEF GalInv, Gal!OrphanHasCause, Gal!At
      <4>3. QED BY <4>1, <4>2
    <3>2. \A j, whys : Gal!Came(j, whys)' <=> Gal!Came(j, whys) BY <1>7 DEF Gal!Came
    <3>3. QED BY <1>2, <3>1, <3>2 DEF Gal!OrphanHasCause, Gal!At
  <2>6. QED BY <2>1, <2>2, <2>4, <2>5 DEF GalInv
<1>8. ASSUME NEW why \in {"refused", "failed"}, Gal!Because(i, why), v2' = v2
      PROVE  GalInv'
  <2>1. /\ \A j, whys : Gal!Came(j, whys) => Gal!Came(j, whys)'
        /\ Gal!Came(i, {"refused", "failed", "cut"})' /\ v5' \subseteq Gal!Causes
    BY <1>1, <1>3, <1>8, CauseOrNone
  <2>2. Gal!TypeOK' BY <1>1, <1>2, <1>4, <1>8, <2>1 DEF Gal!TypeOK
  <2>3. Claims'
    BY <1>1, <1>2, <1>4, <1>8, <2>1, GalIdle DEF Claims, Uploading, Removing
  <2>4. Gal!RowHasImage'
    BY <1>i, <1>2, <1>4, <1>8, <2>1 DEF GalInv, Gal!RowHasImage, Gal!At
  <2>5. Gal!OrphanHasCause'
    BY <1>2, <1>4, <1>8, <2>1 DEF GalInv, Gal!OrphanHasCause, Gal!At
  <2>6. QED BY <2>2, <2>3, <2>4, <2>5 DEF GalInv
<1>9. QED BY <1>2, <1>7, <1>8

LEMMA RestartGal ==
    ASSUME GalInv, Gal!Restart
    PROVE  GalInv'
<1> DEFINE lost == {[image |-> v4[p].image, why |-> "lost"] : p \in {q \in Actors : Uploading(q)}}
           cut == {[image |-> v4[p].image, why |-> "cut"] : p \in {q \in Actors : Removing(q)}}
<1>1. Gal!TypeOK /\ Claims BY DEF GalInv
<1>2. /\ v4' = [p \in Actors |-> Gal!Idle] /\ UNCHANGED <<v1, v2, v3>>
      /\ v5' = v5 \cup lost \cup cut
  BY DEF Gal!Restart, Gal!At, Uploading, Removing
<1>3. \A p \in Actors : Uploading(p) \/ Removing(p) => v4[p].image \in Gal!Image
  BY <1>1, GalStored DEF Claims, Uploading, Removing
<1>4. lost \subseteq Gal!Causes /\ cut \subseteq Gal!Causes BY <1>3 DEF Gal!Causes
<1>5. ASSUME NEW p \in Actors, Uploading(p)
      PROVE  \E c \in v5' : c.image = v4[p].image /\ c.why = "lost"
  <2>1. [image |-> v4[p].image, why |-> "lost"] \in lost BY <1>5
  <2> HIDE DEF lost, cut
  <2>2. QED BY <1>2, <2>1
<1>6. ASSUME NEW p \in Actors, Removing(p)
      PROVE  \E c \in v5' : c.image = v4[p].image /\ c.why = "cut"
  <2>1. [image |-> v4[p].image, why |-> "cut"] \in cut BY <1>6
  <2> HIDE DEF lost, cut
  <2>2. QED BY <1>2, <2>1
<1> HIDE DEF lost, cut
<1>7. \A p \in Actors : v4'[p] = Gal!Idle BY <1>2
<1>8. Gal!TypeOK' BY <1>1, <1>2, <1>4, GalIdle DEF Gal!TypeOK
<1>9. Claims' BY <1>1, <1>2, <1>7, GalIdle DEF Claims, Uploading, Removing
<1>10. \A j, whys : Gal!Came(j, whys) => Gal!Came(j, whys)' BY <1>2, CausesStay
<1>11. Gal!RowHasImage'
  <2>1. ASSUME NEW r \in v2
        PROVE  r.image \in v1 \/ Gal!Came(r.image, {"refused", "failed", "cut"})'
    <3>1. CASE \E p \in Actors : Removing(p) /\ v4[p].image = r.image
      BY <1>6, <3>1 DEF Gal!Came
    <3>2. CASE ~ \E p \in Actors : Removing(p) /\ v4[p].image = r.image
      BY <1>10, <3>2 DEF GalInv, Gal!RowHasImage, Gal!At, Removing
    <3>3. QED BY <3>1, <3>2
  <2>2. QED BY <1>2, <2>1 DEF Gal!RowHasImage
<1>12. Gal!OrphanHasCause'
  <2>1. ASSUME NEW j \in v1
        PROVE  (\E r \in v2 : r.image = j) \/ Gal!Came(j, {"lost", "kept"})'
    <3>1. CASE \E p \in Actors : Uploading(p) /\ v4[p].image = j
      BY <1>5, <3>1 DEF Gal!Came
    <3>2. CASE ~ \E p \in Actors : Uploading(p) /\ v4[p].image = j
      BY <1>10, <3>2 DEF GalInv, Gal!OrphanHasCause, Gal!At, Uploading
    <3>3. QED BY <3>1, <3>2
  <2>2. QED BY <1>2, <2>1 DEF Gal!OrphanHasCause
<1>13. QED BY <1>8, <1>9, <1>11, <1>12 DEF GalInv

LEMMA GalHolds == Spec => [](under = "galeria" => GalInv)
<1> DEFINE I == under = "galeria" => GalInv
<1>1. Init => I
  <2>1. ASSUME Gal!Init PROVE GalInv
    BY <2>1, GalIdle, BoundsAssumption
       DEF Gal!Init, GalInv, Gal!TypeOK, Claims, Uploading, Removing, Gal!RowHasImage,
           Gal!OrphanHasCause
  <2>2. QED BY <2>1 DEF Init
<1>2. I /\ [Next]_vars => I'
  <2>1. GalInv /\ Gal!Next => GalInv'
    BY PostGal, GetByIDGal, CreateGal, DestroyGal, DeleteGal, RestartGal DEF Gal!Next
  <2>2. ASSUME GalInv, UNCHANGED <<v1, v2, v3, v4, v5>> PROVE GalInv'
    BY <2>2 DEF GalInv, Gal!TypeOK, Claims, Uploading, Removing, Gal!RowHasImage,
           Gal!OrphanHasCause, Gal!At, Gal!Came
  <2>3. QED BY <2>1, <2>2, StepOfPart
<1>3. QED BY <1>1, <1>2, PTL DEF Spec

\* A row of the gallery and its image come apart only for a cause, whatever the number of
\* uploads and deletions at once (galeria_service.go, Upload and Delete).
THEOREM ImagesDoMatchRows == Spec => []ImagesMatchRows
<1>1. (under = "galeria" => GalInv) => ImagesMatchRows BY DEF GalInv, ImagesMatchRows
<1>2. QED BY <1>1, GalHolds, PTL
-----------------------------------------------------------------------------
(* Notifications *)

OneRow == \A r, q \in v1 : r.id = q.id => r = q

\* Of its account, a goroutine has on its page, or after it, or left out, all rows.
PageCovers(p) ==
    v3[p] # Told!Idle =>
       /\ v3[p].user \in Actors /\ v3[p].newest <= v2
       /\ \A r \in v1 : r.user = v3[p].user =>
             r.id \in v3[p].page \/ r.id > v3[p].newest \/ v3[p].cut

ToldInv == /\ Told!TypeOK /\ OneRow
           /\ \A p \in Actors : PageCovers(p)
           /\ Told!ShownIsRead

LEMMA ToldIdle == Told!Idle \in Told!Request /\ Told!Idle.user = None
BY BoundsAssumption DEF Told!Idle, Told!Marking, Told!Request

LEMMA ToldTyped ==
    ASSUME Told!TypeOK
    PROVE  /\ v2 \in Nat /\ v2 <= MaxTold /\ MaxTold \in Nat
           /\ \A r \in v1 : /\ r.id \in 1 .. MaxTold /\ r.id <= v2 /\ r.user \in Actors
                            /\ r.read \in BOOLEAN
BY BoundsAssumption DEF Told!TypeOK, Told!Row

\* What marking does to one row.
Marked(r, u) == IF r.user = u THEN [r EXCEPT !.read = TRUE] ELSE r

LEMMA MarkedIs ==
    ASSUME Told!TypeOK, NEW r \in v1, NEW u
    PROVE  /\ Marked(r, u) \in Told!Row
           /\ Marked(r, u).id = r.id /\ Marked(r, u).user = r.user
           /\ r.user = u => Marked(r, u).read = TRUE
           /\ r.user # u => Marked(r, u) = r
BY DEF Told!TypeOK, Told!Row, Marked

\* The rows are marked, and the rest of the table stays.
LEMMA MarkRows ==
    ASSUME Told!TypeOK, OneRow, NEW u, Told!MarkAsRead(u), v2' = v2
    PROVE  /\ v1' \subseteq Told!Row /\ \A r \in v1' : r.id <= v2'
           /\ OneRow'
           /\ \A x \in v1' : \E r \in v1 :
                 /\ x.id = r.id /\ x.user = r.user
                 /\ IF r.user = u THEN x.read = TRUE ELSE x = r
<1>1. v1' = {Marked(r, u) : r \in v1} BY DEF Told!MarkAsRead, Marked
<1>2. \A x \in v1' : \E r \in v1 : x = Marked(r, u) BY <1>1
<1>3. \A r \in v1 : r.id <= v2 BY DEF Told!TypeOK
<1>4. \A r \in v1 : /\ Marked(r, u) \in Told!Row
                    /\ Marked(r, u).id = r.id /\ Marked(r, u).user = r.user
                    /\ r.user = u => Marked(r, u).read = TRUE
                    /\ r.user # u => Marked(r, u) = r
  BY MarkedIs
<1>5. v1' \subseteq Told!Row /\ \A r \in v1' : r.id <= v2' BY <1>2, <1>3, <1>4
<1>6. OneRow'
  <2>1. ASSUME NEW x \in v1', NEW y \in v1', x.id = y.id PROVE x = y
    <3>1. PICK r \in v1 : x = Marked(r, u) BY <1>2
    <3>2. PICK q \in v1 : y = Marked(q, u) BY <1>2
    <3>3. r.id = q.id BY <1>4, <2>1, <3>1, <3>2
    <3>4. QED BY <3>1, <3>2, <3>3 DEF OneRow
  <2>2. QED BY <2>1 DEF OneRow
<1>7. ASSUME NEW x \in v1'
      PROVE  \E r \in v1 : /\ x.id = r.id /\ x.user = r.user
                           /\ IF r.user = u THEN x.read = TRUE ELSE x = r
  <2>1. PICK r \in v1 : x = Marked(r, u) BY <1>2
  <2>2. QED BY <1>4, <2>1
<1>8. QED BY <1>5, <1>6, <1>7

LEMMA CreateTold ==
    ASSUME ToldInv, NEW u \in Actors, Told!CreateNotification(u)
    PROVE  ToldInv'
<1>1. Told!TypeOK BY DEF ToldInv
<1>i. PICK i \in Nat : i = v2 + 1 BY <1>1, ToldTyped
<1> DEFINE new == [id |-> i, user |-> u, read |-> FALSE]
<1>2. v2 < MaxTold /\ v2' = i /\ v1' = v1 \cup {new} /\ UNCHANGED <<v3, v4, v5>>
  BY <1>i DEF Told!CreateNotification
<1>3. i \in 1 .. MaxTold /\ i \in 0 .. MaxTold /\ v2 \in Nat /\ \A r \in v1 : r.id <= v2
  BY <1>i, <1>1, <1>2, ToldTyped
<1>4. new \in Told!Row /\ new.id = i /\ new.user = u BY <1>3 DEF Told!Row
<1> HIDE DEF new
<1>5. \A r \in v1 : r.id \in Nat BY <1>1, ToldTyped
<1>6. Told!TypeOK'
  <2>1. \A r \in v1' : r.id <= i BY <1>i, <1>2, <1>3, <1>4, <1>5
  <2>2. v4 \subseteq 1 .. i
    <3>1. 1 .. v2 \subseteq 1 .. i BY <1>i, <1>3
    <3>2. QED BY <1>1, <3>1 DEF Told!TypeOK
  <2>3. QED BY <1>1, <1>2, <1>3, <1>4, <2>1, <2>2 DEF Told!TypeOK
<1>7. OneRow' BY <1>i, <1>2, <1>3, <1>4, <1>5 DEF ToldInv, OneRow
<1>8. ASSUME NEW p \in Actors PROVE PageCovers(p)'
  <2>1. v3[p].newest \in Nat BY <1>1, ToldTyped DEF Told!TypeOK, Told!Request
  <2>2. QED BY <1>i, <1>2, <1>3, <1>4, <2>1 DEF ToldInv, PageCovers
<1>9. Told!ShownIsRead'
  <2>1. i \notin v4 BY <1>i, <1>1, <1>3 DEF Told!TypeOK
  <2>2. QED BY <1>2, <1>4, <2>1 DEF ToldInv, Told!ShownIsRead
<1>10. QED BY <1>6, <1>7, <1>8, <1>9 DEF ToldInv

LEMMA GetTold ==
    ASSUME ToldInv, NEW p \in Actors, NEW u \in Actors, NEW limit, NEW offset,
           Told!GetNotifications(p, u, limit, offset)
    PROVE  ToldInv'
<1>1. Told!TypeOK BY DEF ToldInv
<1>p. PICK page : page = Told!Page(u, limit, offset) OBVIOUS
<1>m. PICK mine : mine = {r.id : r \in Told!Mine(u)} OBVIOUS
<1>n. PICK n : n = v2 OBVIOUS
<1>c. PICK cut \in BOOLEAN : cut = (page # mine) OBVIOUS
<1> DEFINE new == Told!Marking(u, page, n, cut)
<1>2. /\ v3[p] = Told!Idle /\ v3' = [v3 EXCEPT ![p] = new]
      /\ v4' = v4 \cup page /\ UNCHANGED <<v1, v2, v5>>
  BY <1>p, <1>m, <1>n, <1>c DEF Told!GetNotifications
<1>3. \A j \in page : \E r \in v1 : r.user = u /\ r.id = j
  BY <1>p DEF Told!Page, Told!Mine
<1>4. \A r \in v1 : r.user = u => r.id \in mine BY <1>m DEF Told!Mine
<1>5. page \subseteq 1 .. MaxTold /\ page \subseteq 1 .. v2
  BY <1>1, <1>3, ToldTyped
<1>6. n \in 0 .. MaxTold /\ n <= v2 BY <1>n, <1>1, ToldTyped
<1>7. /\ new \in Told!Request
      /\ new.user = u /\ new.page = page /\ new.newest = n /\ new.cut = cut
  BY <1>5, <1>6 DEF Told!Marking, Told!Request
<1> HIDE DEF new
<1>8. /\ v3' \in [Actors -> Told!Request]
      /\ v3'[p] = new /\ \A q \in Actors \ {p} : v3'[q] = v3[q]
  BY <1>1, <1>2, <1>7 DEF Told!TypeOK
<1>9. Told!TypeOK' BY <1>1, <1>2, <1>5, <1>8 DEF Told!TypeOK
<1>10. OneRow' BY <1>2 DEF ToldInv, OneRow
<1>11. PageCovers(p)'
  BY <1>c, <1>2, <1>4, <1>6, <1>7, <1>8 DEF PageCovers
<1>12. \A q \in Actors \ {p} : PageCovers(q)' BY <1>2, <1>8 DEF ToldInv, PageCovers
<1>13. Told!ShownIsRead'
  <2>1. ASSUME NEW r \in v1, r.id \in v4', ~ r.read
        PROVE  (\E q \in Actors : v3'[q].user = r.user) \/ r.user \in v5
    <3>1. CASE r.id \in page
      <4>1. r.user = u BY <1>3, <3>1 DEF ToldInv, OneRow
      <4>2. QED BY <1>7, <1>8, <4>1
    <3>2. CASE r.id \in v4
      <4>1. (\E q \in Actors : v3[q].user = r.user) \/ r.user \in v5
        BY <2>1, <3>2 DEF ToldInv, Told!ShownIsRead
      <4>2. r.user # None BY <1>1, ToldTyped, NamesAssumption
      <4>3. v3[p].user = None BY <1>2, ToldIdle
      <4>4. QED BY <1>8, <4>1, <4>2, <4>3
    <3>3. QED BY <1>2, <2>1, <3>1, <3>2
  <2>2. QED BY <1>2, <2>1 DEF Told!ShownIsRead
<1>14. QED BY <1>9, <1>10, <1>11, <1>12, <1>13 DEF ToldInv

\* Marking the rows of u keeps what the goroutines cover, and what was shown is read, if
\* those who stop waiting had u.
LEMMA MarkTold ==
    ASSUME ToldInv, NEW u, Told!MarkAsRead(u), UNCHANGED <<v2, v4, v5>>,
           v3' \in [Actors -> Told!Request],
           \A q \in Actors : v3'[q] = v3[q] \/ (v3'[q] = Told!Idle /\ v3[q].user = u)
    PROVE  ToldInv'
<1>1. Told!TypeOK /\ OneRow BY DEF ToldInv
<1>2. /\ v1' \subseteq Told!Row /\ \A r \in v1' : r.id <= v2'
      /\ OneRow'
      /\ \A x \in v1' : \E r \in v1 :
            /\ x.id = r.id /\ x.user = r.user
            /\ IF r.user = u THEN x.read = TRUE ELSE x = r
  BY <1>1, MarkRows
<1>3. Told!TypeOK' BY <1>1, <1>2 DEF Told!TypeOK
<1>4. \A q \in Actors : PageCovers(q)' BY <1>2 DEF ToldInv, PageCovers
<1>5. Told!ShownIsRead'
  <2>1. ASSUME NEW x \in v1', x.id \in v4, ~ x.read
        PROVE  (\E q \in Actors : v3'[q].user = x.user) \/ x.user \in v5
    <3>1. PICK r \in v1 : /\ x.id = r.id /\ x.user = r.user
                          /\ IF r.user = u THEN x.read = TRUE ELSE x = r
      BY <1>2
    <3>2. x = r /\ r.user # u BY <2>1, <3>1
    <3>3. (\E q \in Actors : v3[q].user = r.user) \/ r.user \in v5
      BY <2>1, <3>2 DEF ToldInv, Told!ShownIsRead
    <3>4. QED BY <3>2, <3>3
  <2>2. QED BY <2>1 DEF Told!ShownIsRead
<1>6. QED BY <1>2, <1>3, <1>4, <1>5 DEF ToldInv

\* Goroutines end, and theirs is missed.
LEMMA MissTold ==
    ASSUME ToldInv, UNCHANGED <<v1, v2, v4>>, v3' \in [Actors -> Told!Request],
           v5 \subseteq v5', v5' \subseteq Actors,
           \A q \in Actors : v3'[q] = v3[q]
              \/ (v3'[q] = Told!Idle /\ (v3[q].user \in Actors => v3[q].user \in v5'))
    PROVE  ToldInv'
<1>1. Told!TypeOK' /\ OneRow' BY DEF ToldInv, Told!TypeOK, OneRow
<1>2. \A q \in Actors : PageCovers(q)' BY DEF ToldInv, PageCovers
<1>3. \A r \in v1 : r.user \in Actors BY ToldTyped DEF ToldInv
<1>4. Told!ShownIsRead' BY <1>3 DEF ToldInv, Told!ShownIsRead
<1>5. QED BY <1>1, <1>2, <1>4 DEF ToldInv

LEMMA ToldNext == ToldInv /\ Told!Next => ToldInv'
<1> SUFFICES ASSUME ToldInv, Told!Next PROVE ToldInv' OBVIOUS
<1>1. Told!TypeOK BY DEF ToldInv
<1>2. ASSUME NEW u \in Actors, Told!PutRead(u) PROVE ToldInv'
  BY <1>1, <1>2, MarkTold DEF Told!PutRead, Told!TypeOK
<1>3. ASSUME NEW p \in Actors, Told!Mark(p) PROVE ToldInv'
  <2>1. /\ v3[p] # Told!Idle /\ v3' = [v3 EXCEPT ![p] = Told!Idle] /\ UNCHANGED <<v2, v4>>
        /\ \/ Told!MarkAsRead(v3[p].user) /\ v5' = v5
           \/ v5' = v5 \cup {v3[p].user} /\ v1' = v1
    BY <1>3 DEF Told!Mark
  <2>2. v3[p].user \in Actors BY <2>1 DEF ToldInv, PageCovers
  <2>3. /\ v3' \in [Actors -> Told!Request]
        /\ v3'[p] = Told!Idle /\ \A q \in Actors \ {p} : v3'[q] = v3[q]
    BY <1>1, <2>1, ToldIdle DEF Told!TypeOK
  <2>4. CASE Told!MarkAsRead(v3[p].user) /\ v5' = v5
    BY <2>1, <2>2, <2>3, <2>4, MarkTold
  <2>5. CASE v5' = v5 \cup {v3[p].user} /\ v1' = v1
    <3>1. v5 \subseteq v5' /\ v5' \subseteq Actors /\ v3[p].user \in v5'
      BY <1>1, <2>2, <2>5 DEF Told!TypeOK
    <3>2. QED BY <2>1, <2>3, <2>5, <3>1, MissTold
  <2>6. QED BY <2>1, <2>4, <2>5
<1>4. CASE Told!Restart
  <2>1. /\ v3' = [p \in Actors |-> Told!Idle] /\ UNCHANGED <<v1, v2, v4>>
        /\ v5' = v5 \cup ({v3[p].user : p \in Actors} \ {None})
    BY <1>4 DEF Told!Restart
  <2>2. \A p \in Actors : v3[p].user \in Actors \cup {None}
    BY <1>1 DEF Told!TypeOK, Told!Request
  <2>3. v5 \subseteq v5' /\ v5' \subseteq Actors BY <1>1, <2>1, <2>2 DEF Told!TypeOK
  <2>4. \A p \in Actors : v3[p].user \in Actors => v3[p].user \in v5'
    BY <2>1, NamesAssumption
  <2>5. v3' \in [Actors -> Told!Request] /\ \A q \in Actors : v3'[q] = Told!Idle
    BY <2>1, ToldIdle
  <2>6. QED BY <2>1, <2>3, <2>4, <2>5, MissTold
<1>5. QED BY <1>2, <1>3, <1>4, CreateTold, GetTold DEF Told!Next

LEMMA ToldHolds == Spec => [](under = "notifications" => ToldInv)
<1> DEFINE I == under = "notifications" => ToldInv
<1>1. Init => I
  <2>1. ASSUME Told!Init PROVE ToldInv
    BY <2>1, ToldIdle, BoundsAssumption
       DEF Told!Init, ToldInv, Told!TypeOK, OneRow, PageCovers, Told!ShownIsRead
  <2>2. QED BY <2>1 DEF Init
<1>2. I /\ [Next]_vars => I'
  <2>1. ASSUME ToldInv, UNCHANGED <<v1, v2, v3, v4, v5>> PROVE ToldInv'
    BY <2>1 DEF ToldInv, Told!TypeOK, OneRow, PageCovers, Told!ShownIsRead
  <2>2. QED BY <2>1, StepOfPart, ToldNext
<1>3. QED BY <1>1, <1>2, PTL DEF Spec

\* What was shown is marked, unless that failed or was lost (handlers/notification.go).
THEOREM ShownGetsRead == Spec => []ShownIsRead
<1>1. (under = "notifications" => ToldInv) => ShownIsRead BY DEF ToldInv, ShownIsRead
<1>2. QED BY <1>1, ToldHolds, PTL

\* Reading a page marks the rows of its account, and of those that were not on it only the
\* later ones, or those that the page left out (handlers/notification.go).
THEOREM PagesMarkTheirOwn == Spec => MarksOwnPage
<1> DEFINE I == under = "notifications" => ToldInv
<1>1. I /\ [Next]_vars => [under = "notifications" => Told!MarksOwn]_vars
  <2> SUFFICES ASSUME ToldInv, Told!Next, NEW r \in v1, NEW p \in Actors,
                      ~ r.read, [r EXCEPT !.read = TRUE] \in v1',
                      v3[p] # Told!Idle, v3'[p] = Told!Idle
               PROVE  /\ r.user = v3[p].user
                      /\ r.id \in v3[p].page \/ r.id > v3[p].newest \/ v3[p].cut
    BY StepOfPart DEF vars, Told!MarksOwn, Told!TurnedRead
  <2> DEFINE x == [r EXCEPT !.read = TRUE]
  <2>1. Told!TypeOK /\ OneRow BY DEF ToldInv
  <2>2. r \in Told!Row BY <2>1 DEF Told!TypeOK
  <2>3. x \in v1' /\ x.id = r.id /\ x.read = TRUE BY <2>2 DEF Told!Row
  <2> HIDE DEF x
  <2>4. v1' # v1 BY <2>1, <2>3 DEF OneRow
  <2>5. ASSUME NEW q \in Actors, Told!Mark(q) PROVE q = p /\ Told!MarkAsRead(v3[q].user)
    <3>1. v3' = [v3 EXCEPT ![q] = Told!Idle] BY <2>5 DEF Told!Mark
    <3>2. q = p BY <2>1, <3>1 DEF Told!TypeOK
    <3>3. QED BY <2>4, <2>5, <3>2 DEF Told!Mark
  <2>6. ASSUME NEW u \in Actors, NEW q \in Actors, NEW limit, NEW offset,
               Told!GetNotifications(q, u, limit, offset)
        PROVE  FALSE
    BY <2>4, <2>6 DEF Told!GetNotifications
  <2>7. ASSUME NEW u \in Actors, Told!PutRead(u) \/ Told!CreateNotification(u) PROVE FALSE
    BY <2>7 DEF Told!PutRead, Told!CreateNotification
  <2>8. ~ Told!Restart BY <2>4 DEF Told!Restart
  <2>9. Told!Mark(p) /\ Told!MarkAsRead(v3[p].user)
    BY <2>5, <2>6, <2>7, <2>8 DEF Told!Next
  <2>10. v2' = v2 BY <2>9 DEF Told!Mark
  <2>u. PICK u : u = v3[p].user OBVIOUS
  <2>11. PICK y \in v1 : /\ x.id = y.id /\ x.user = y.user
                         /\ IF y.user = u THEN x.read = TRUE ELSE x = y
    <3>1. Told!MarkAsRead(u) BY <2>u, <2>9
    <3>2. \A z \in v1' : \E y \in v1 : /\ z.id = y.id /\ z.user = y.user
                                       /\ IF y.user = u THEN z.read = TRUE ELSE z = y
      BY <2>1, <2>10, <3>1, MarkRows
    <3>3. QED BY <2>3, <3>2
  <2>12. y = r BY <2>1, <2>3, <2>11 DEF OneRow
  <2>13. r.user = v3[p].user BY <2>u, <2>3, <2>11, <2>12
  <2>14. QED BY <2>13 DEF ToldInv, PageCovers
<1>2. QED BY <1>1, ToldHolds, PTL DEF Spec, MarksOwnPage
-----------------------------------------------------------------------------
(* The list of suggestions *)

SugProved == INSTANCE CacheAsideProofs WITH
    Keys <- Sug!Keys, Values <- Sug!PageValues, Writes <- Sug!Writes, Touches <- Sug!Touched,
    Dels <- Sug!Named, Scans <- Sug!Matched, Outside <- {}, Procs <- Actors,
    db <- Sug!Pages, cache <- v3, req <- v4

LEMMA SugAssumed == SugProved!WritesAssumption /\ SugProved!NoneAssumption
<1>1. SugProved!WritesAssumption
  BY DEF SugProved!WritesAssumption, Sug!Touched, Sug!Named, Sug!Matched
<1>2. None \notin Sug!Keys BY NamesAssumption DEF Sug!Keys
<1>3. None \notin Sug!Writes /\ None \notin Sug!PageValues BY NoneIsNothing
<1>4. QED BY <1>1, <1>2, <1>3 DEF SugProved!NoneAssumption

LEMMA SugSteps ==
    ASSUME NEW p
    PROVE  /\ Sug!Aside!Read(p) <=> SugProved!Read(p)
           /\ \A v : Sug!Aside!SelectPart(p, v) <=> SugProved!SelectPart(p, v)
           /\ Sug!Aside!Evict(p) <=> SugProved!Evict(p)
           /\ \A k : Sug!Aside!Expire(k) <=> SugProved!Expire(k)
           /\ \A w : Sug!Aside!OwesEvictions(p, w) <=> SugProved!OwesEvictions(p, w)
<1>1. Sug!Aside!Read(p) <=> SugProved!Read(p)
  BY DEF Sug!Aside!Read, Sug!Aside!Get, Sug!Aside!Select, Sug!Aside!Set, Sug!Aside!GiveUp,
         Sug!Aside!Reading, Sug!Aside!Idle, Sug!Aside!Become, Sug!Aside!CauseOf,
         SugProved!Read, SugProved!Get, SugProved!Select, SugProved!Set, SugProved!GiveUp,
         SugProved!Reading, SugProved!Idle, SugProved!Become, SugProved!CauseOf
<1>2. Sug!Aside!Evict(p) <=> SugProved!Evict(p)
  BY DEF Sug!Aside!Evict, Sug!Aside!Del, Sug!Aside!Scan, Sug!Aside!Exec, Sug!Aside!Miss,
         Sug!Aside!Finish, Sug!Aside!Pending, Sug!Aside!Writing, Sug!Aside!Become,
         Sug!Aside!Idle, Sug!Aside!Reading, SugProved!Evict, SugProved!Del, SugProved!Scan,
         SugProved!Exec, SugProved!Miss, SugProved!Finish, SugProved!Pending,
         SugProved!Writing, SugProved!Become, SugProved!Idle, SugProved!Reading
<1>3. \A k : Sug!Aside!Expire(k) <=> SugProved!Expire(k)
  BY DEF Sug!Aside!Expire, SugProved!Expire
<1>4. \A w : Sug!Aside!OwesEvictions(p, w) <=> SugProved!OwesEvictions(p, w)
  BY DEF Sug!Aside!OwesEvictions, Sug!Aside!Idle, Sug!Aside!Reading, Sug!Aside!Writing,
         Sug!Aside!Become, SugProved!OwesEvictions, SugProved!Idle, SugProved!Reading,
         SugProved!Writing, SugProved!Become
<1>5. \A v : Sug!Aside!SelectPart(p, v) <=> SugProved!SelectPart(p, v)
  BY DEF Sug!Aside!SelectPart, Sug!Aside!Reading, Sug!Aside!Become, SugProved!SelectPart,
         SugProved!Reading, SugProved!Become
<1>6. QED BY <1>1, <1>2, <1>3, <1>4, <1>5

SugTable == v2 \in 0 .. MaxRows /\ v1 \subseteq Sug!Row /\ \A r \in v1 : r.id <= v2

\* A list without some of its rows is a list.
LEMMA SugParts ==
    ASSUME SugTable, NEW p, Sug!SelectSome(p)
    PROVE  SugProved!ReadPart(p)
<1>1. PICK v \in SUBSET Sug!Newest : Sug!Aside!SelectPart(p, v) BY DEF Sug!SelectSome
<1>2. v \in Sug!PageValues
  <2>1. Sug!Newest \subseteq v1 BY DEF Sug!Newest
  <2>2. QED BY <2>1 DEF SugTable, Sug!PageValues
<1>3. SugProved!SelectPart(p, v) BY <1>1, SugSteps
<1>4. QED BY <1>2, <1>3 DEF SugProved!ReadPart, SugProved!SelectPart

\* Every step of the part is one of CacheAside.
LEMMA SugStepIs ==
    ASSUME SugTable, Sug!Next
    PROVE  SugTable' /\ SugProved!Next
<1>1. ASSUME NEW p \in Actors, NEW x \in Texts, Sug!Criar(p, x)
      PROVE  SugTable' /\ \E w \in Sug!Writes : Sug!Aside!OwesEvictions(p, w)
  <2>i. PICK i \in Nat : i = v2 + 1 BY BoundsAssumption DEF SugTable
  <2>1. /\ v2 < MaxRows /\ v2' = i /\ v1' = v1 \cup {[id |-> i, text |-> x]}
        /\ Sug!Aside!OwesEvictions(p, i)
    BY <1>1, <2>i DEF Sug!Criar
  <2>2. i \in 1 .. MaxRows BY <2>i, <2>1, BoundsAssumption DEF SugTable
  <2>3. \A r \in v1 : r.id \in Nat BY BoundsAssumption DEF SugTable, Sug!Row
  <2>4. QED BY <2>i, <2>1, <2>2, <2>3, BoundsAssumption DEF SugTable, Sug!Row, Sug!Writes
<1>2. ASSUME NEW p \in Actors, NEW id \in 1 .. MaxRows, Sug!Deletar(p, id)
      PROVE  SugTable' /\ \E w \in Sug!Writes : Sug!Aside!OwesEvictions(p, w)
  BY <1>2 DEF Sug!Deletar, SugTable, Sug!Writes
<1>3. ASSUME NEW p \in Actors, NEW id \in 1 .. MaxRows, NEW x \in Texts,
             Sug!Atualizar(p, id, x)
      PROVE  SugTable' /\ \E w \in Sug!Writes : Sug!Aside!OwesEvictions(p, w)
  <2>1. \A r \in v1 : /\ r \in Sug!Row /\ r.id <= v2
                      /\ [r EXCEPT !.text = x] \in Sug!Row /\ [r EXCEPT !.text = x].id = r.id
    BY DEF SugTable, Sug!Row
  <2>2. v1' = {IF r.id = id THEN [r EXCEPT !.text = x] ELSE r : r \in v1} /\ v2' = v2
    BY <1>3 DEF Sug!Atualizar
  <2>3. SugTable' BY <2>1, <2>2 DEF SugTable
  <2>4. QED BY <1>3, <2>3 DEF Sug!Atualizar, Sug!Writes
<1>4. ASSUME NEW p \in Actors, NEW w \in Sug!Writes, Sug!Aside!OwesEvictions(p, w), SugTable'
      PROVE  SugProved!Next
  <2>1. Sug!Pages' \in [Sug!Keys -> Sug!PageValues]
    <3>1. v1' \in Sug!PageValues BY <1>4 DEF SugTable, Sug!PageValues
    <3>2. Sug!Newest' \subseteq v1' BY DEF Sug!Newest
    <3>3. Sug!Newest' \in Sug!PageValues BY <3>1, <3>2 DEF Sug!PageValues
    <3>4. QED BY <3>3 DEF Sug!Pages
  <2>2. Sug!Touched[w] = Sug!Keys BY DEF Sug!Touched
  <2>3. SugProved!Change(w) BY <2>1, <2>2 DEF SugProved!Change
  <2>4. SugProved!OwesEvictions(p, w) BY <1>4, SugSteps
  <2>5. QED BY <2>3, <2>4 DEF SugProved!Write, SugProved!Next
<1>5. CASE Sug!CacheStep
  <2>1. SugTable' BY <1>5 DEF Sug!CacheStep, SugTable
  <2>2. \/ \E p \in Actors : SugProved!Read(p) \/ SugProved!ReadPart(p) \/ SugProved!Evict(p)
        \/ \E k \in Sug!Keys : SugProved!Expire(k)
    BY <1>5, SugSteps, SugParts DEF Sug!CacheStep
  <2>3. QED BY <2>1, <2>2 DEF SugProved!Next
<1>6. QED BY <1>1, <1>2, <1>3, <1>4, <1>5 DEF Sug!Next

SugInv == SugTable /\ SugProved!IInv

LEMMA SugInit == Sug!Init => SugInv
<1> SUFFICES ASSUME Sug!Init PROVE SugInv OBVIOUS
<1>1. SugTable BY BoundsAssumption DEF Sug!Init, SugTable
<1>2. SugProved!Init
  BY DEF Sug!Init, Sug!Aside!Init, SugProved!Init, Sug!Aside!Idle, SugProved!Idle,
         Sug!Aside!Reading, SugProved!Reading
<1>3. QED BY <1>1, <1>2, SugAssumed, SugProved!InitCause DEF SugInv

LEMMA SugNext == SugInv /\ (Sug!Next \/ UNCHANGED <<v1, v2, v3, v4>>) => SugInv'
<1>1. ASSUME SugInv, UNCHANGED <<v1, v2, v3, v4>> PROVE SugInv'
  <2>1. SugTable' /\ UNCHANGED SugProved!vars
    BY <1>1 DEF SugInv, SugTable, SugProved!vars, Sug!Pages, Sug!Newest
  <2>2. QED BY <1>1, <2>1, SugAssumed, SugProved!NextCause DEF SugInv
<1>2. ASSUME SugInv, Sug!Next PROVE SugInv'
  BY <1>2, SugStepIs, SugAssumed, SugProved!NextCause DEF SugInv
<1>3. QED BY <1>1, <1>2

LEMMA SugCauses == SugInv => Sug!SuggestionsHaveCause
<1> SUFFICES ASSUME SugInv, NEW k \in Sug!Keys PROVE Sug!Aside!HasCause(k)
  BY DEF Sug!SuggestionsHaveCause
<1>1. SugProved!Covered(k) BY DEF SugProved!Covered, Sug!Touched, Sug!Named, Sug!Matched
<1>2. SugProved!HasCause(k) BY <1>1 DEF SugInv, SugProved!IInv, SugProved!StaleHasCause
<1>3. QED
  BY <1>2 DEF SugProved!HasCause, SugProved!Stale, SugProved!Pending, Sug!Aside!HasCause,
              Sug!Aside!Stale, Sug!Aside!Pending
-----------------------------------------------------------------------------
(* The lists of news *)

NewsProved == INSTANCE CacheAsideProofs WITH
    Keys <- News!Keys, Values <- News!PageValues, Writes <- News!Items,
    Touches <- News!Touched, Dels <- News!Named, Scans <- News!Matched, Outside <- {},
    Procs <- Actors,
    db <- News!Pages, cache <- v3, req <- v4

LEMMA NewsAssumed == NewsProved!WritesAssumption /\ NewsProved!NoneAssumption
<1>1. NewsProved!WritesAssumption
  BY DEF NewsProved!WritesAssumption, News!Touched, News!Named, News!Matched, News!Keys
<1>2. None \notin News!Keys /\ None \notin News!Items /\ None \notin News!PageValues
  BY NoneIsNothing
<1>3. QED BY <1>1, <1>2 DEF NewsProved!NoneAssumption

LEMMA NewsSteps ==
    ASSUME NEW p
    PROVE  /\ \A k : News!Aside!Get(p, k) <=> NewsProved!Get(p, k)
           /\ News!Aside!Select(p) <=> NewsProved!Select(p)
           /\ \A v : News!Aside!SelectPart(p, v) <=> NewsProved!SelectPart(p, v)
           /\ News!Aside!Set(p) <=> NewsProved!Set(p)
           /\ News!Aside!GiveUp(p) <=> NewsProved!GiveUp(p)
           /\ News!Aside!Evict(p) <=> NewsProved!Evict(p)
           /\ \A k : News!Aside!Expire(k) <=> NewsProved!Expire(k)
           /\ \A w : News!Aside!OwesEvictions(p, w) <=> NewsProved!OwesEvictions(p, w)
<1>1. /\ \A k : News!Aside!Get(p, k) <=> NewsProved!Get(p, k)
      /\ News!Aside!Select(p) <=> NewsProved!Select(p)
      /\ News!Aside!Set(p) <=> NewsProved!Set(p)
      /\ News!Aside!GiveUp(p) <=> NewsProved!GiveUp(p)
  BY DEF News!Aside!Get, News!Aside!Select, News!Aside!Set, News!Aside!GiveUp,
         News!Aside!Reading, News!Aside!Idle, News!Aside!Become, News!Aside!CauseOf,
         NewsProved!Get, NewsProved!Select, NewsProved!Set, NewsProved!GiveUp,
         NewsProved!Reading, NewsProved!Idle, NewsProved!Become, NewsProved!CauseOf
<1>2. News!Aside!Evict(p) <=> NewsProved!Evict(p)
  BY DEF News!Aside!Evict, News!Aside!Del, News!Aside!Scan, News!Aside!Exec,
         News!Aside!Miss, News!Aside!Finish, News!Aside!Pending, News!Aside!Writing,
         News!Aside!Become, News!Aside!Idle, News!Aside!Reading, NewsProved!Evict,
         NewsProved!Del, NewsProved!Scan, NewsProved!Exec, NewsProved!Miss,
         NewsProved!Finish, NewsProved!Pending, NewsProved!Writing, NewsProved!Become,
         NewsProved!Idle, NewsProved!Reading
<1>3. \A k : News!Aside!Expire(k) <=> NewsProved!Expire(k)
  BY DEF News!Aside!Expire, NewsProved!Expire
<1>4. \A w : News!Aside!OwesEvictions(p, w) <=> NewsProved!OwesEvictions(p, w)
  BY DEF News!Aside!OwesEvictions, News!Aside!Idle, News!Aside!Reading, News!Aside!Writing,
         News!Aside!Become, NewsProved!OwesEvictions, NewsProved!Idle, NewsProved!Reading,
         NewsProved!Writing, NewsProved!Become
<1>5. \A v : News!Aside!SelectPart(p, v) <=> NewsProved!SelectPart(p, v)
  BY DEF News!Aside!SelectPart, News!Aside!Reading, News!Aside!Become,
         NewsProved!SelectPart, NewsProved!Reading, NewsProved!Become
<1>6. QED BY <1>1, <1>2, <1>3, <1>4, <1>5

NewsTable == v2 \in 0 .. MaxNews /\ v1 \subseteq News!Row /\ \A r \in v1 : r.id <= v2

\* A write about one item changes no page of another.
LEMMA NewsWrite ==
    ASSUME NewsTable', NEW p \in Actors, NEW i \in News!Items,
           News!Aside!OwesEvictions(p, i),
           \A r \in News!Row : r.id # i => (r \in v1 <=> r \in v1'),
           NewsTable
    PROVE  NewsProved!Next
<1>1. News!Pages' \in [News!Keys -> News!PageValues]
  <2>1. \A q : {r \in v1' : r.id = q} \in News!PageValues BY DEF NewsTable, News!PageValues
  <2>2. v1' \in News!PageValues /\ {r \in v1' : r.destaque} \in News!PageValues
    BY DEF NewsTable, News!PageValues
  <2>3. QED BY <2>1, <2>2 DEF News!Pages
<1>2. ASSUME NEW k \in News!Keys \ News!Touched[i] PROVE News!Pages'[k] = News!Pages[k]
  <2>1. k # List /\ k # Highlights /\ k # i BY <1>2 DEF News!Touched
  <2>2. News!Pages[k] = {r \in v1 : r.id = k} /\ News!Pages'[k] = {r \in v1' : r.id = k}
    BY <2>1 DEF News!Pages
  <2>3. {r \in v1 : r.id = k} = {r \in v1' : r.id = k} BY <2>1 DEF NewsTable
  <2>4. QED BY <2>2, <2>3
<1>3. NewsProved!OwesEvictions(p, i) BY NewsSteps
<1>4. QED BY <1>1, <1>2, <1>3 DEF NewsProved!Change, NewsProved!Write, NewsProved!Next

\* A list without some of its rows is a list.
LEMMA NewsParts ==
    ASSUME NewsTable, NewsProved!TypeOK, NEW p \in Actors, News!SelectSome(p)
    PROVE  NewsProved!ReadPart(p)
<1>k. PICK k \in News!Keys : k = v4[p].key
  BY DEF News!SelectSome, NewsProved!TypeOK
<1>1. PICK v \in SUBSET News!Pages[k] : News!Aside!SelectPart(p, v) BY <1>k DEF News!SelectSome
<1>2. v \in News!PageValues
  <2>1. News!Pages[k] \subseteq v1 BY DEF News!Pages
  <2>2. QED BY <2>1 DEF NewsTable, News!PageValues
<1>3. NewsProved!SelectPart(p, v) BY <1>1, NewsSteps
<1>4. QED BY <1>2, <1>3 DEF NewsProved!ReadPart, NewsProved!SelectPart

LEMMA NewsStepIs ==
    ASSUME NewsTable, NewsProved!TypeOK, News!Next
    PROVE  NewsTable' /\ NewsProved!Next
<1>0. \A r \in News!Row : r.id \in News!Items BY DEF News!Row, News!Items
<1>1. ASSUME NEW p \in Actors, NEW d \in BOOLEAN, NEW x \in NewsTexts, News!Criar(p, d, x)
      PROVE  NewsTable' /\ NewsProved!Next
  <2>i. PICK i \in Nat : i = v2 + 1 BY BoundsAssumption DEF NewsTable
  <2> DEFINE new == [id |-> i, destaque |-> d, text |-> x]
  <2>1. /\ v2 < MaxNews /\ v2' = i /\ v1' = v1 \cup {new}
        /\ News!Aside!OwesEvictions(p, i)
    BY <1>1, <2>i DEF News!Criar
  <2>2. i \in News!Items /\ i \in 0 .. MaxNews
    BY <2>i, <2>1, BoundsAssumption DEF NewsTable, News!Items
  <2>3. new \in News!Row /\ new.id = i BY <2>2 DEF News!Row, News!Items
  <2> HIDE DEF new
  <2>4. NewsTable'
    <3>1. \A r \in v1 : r.id \in Nat BY BoundsAssumption DEF NewsTable, News!Row, News!Items
    <3>2. QED BY <2>i, <2>1, <2>2, <2>3, <3>1, BoundsAssumption DEF NewsTable
  <2>5. \A r \in News!Row : r.id # i => (r \in v1 <=> r \in v1') BY <2>1, <2>3
  <2>6. QED BY <2>1, <2>2, <2>4, <2>5, NewsWrite
<1>2. ASSUME NEW p \in Actors, NEW r \in v1, News!Deletar(p, r)
      PROVE  NewsTable' /\ NewsProved!Next
  <2>i. PICK i \in News!Items : i = r.id BY <1>0 DEF NewsTable
  <2>1. v1' = v1 \ {r} /\ v2' = v2 /\ News!Aside!OwesEvictions(p, i)
    BY <1>2, <2>i DEF News!Deletar
  <2>2. NewsTable' BY <2>1 DEF NewsTable
  <2>3. \A q \in News!Row : q.id # i => (q \in v1 <=> q \in v1') BY <2>i, <2>1
  <2>4. QED BY <2>1, <2>2, <2>3, NewsWrite
<1>3. ASSUME NEW p \in Actors, NEW r \in v1, NEW q \in News!Row, News!Atualizar(p, r, q)
      PROVE  NewsTable' /\ NewsProved!Next
  <2>i. PICK i \in News!Items : i = r.id BY <1>0 DEF NewsTable
  <2>1. /\ q.id = i /\ r.id = i /\ v1' = (v1 \ {r}) \cup {q} /\ v2' = v2
        /\ News!Aside!OwesEvictions(p, i)
    BY <1>3, <2>i DEF News!Atualizar
  <2>2. NewsTable' BY <2>1 DEF NewsTable
  <2>3. \A t \in News!Row : t.id # i => (t \in v1 <=> t \in v1') BY <2>i, <2>1
  <2>4. QED BY <2>1, <2>2, <2>3, NewsWrite
<1>4. CASE News!CacheStep
  <2>1. NewsTable' BY <1>4 DEF News!CacheStep, NewsTable
  <2>2. \/ \E p \in Actors : NewsProved!Read(p) \/ NewsProved!ReadPart(p) \/ NewsProved!Evict(p)
        \/ \E k \in News!Keys : NewsProved!Expire(k)
    BY <1>4, NewsSteps, NewsParts DEF News!CacheStep, NewsProved!Read
  <2>3. QED BY <2>1, <2>2 DEF NewsProved!Next
<1>5. QED BY <1>1, <1>2, <1>3, <1>4 DEF News!Next

NewsInv == NewsTable /\ NewsProved!IInv

LEMMA NewsInit == News!Init => NewsInv
<1> SUFFICES ASSUME News!Init PROVE NewsInv OBVIOUS
<1>1. NewsTable BY BoundsAssumption DEF News!Init, NewsTable
<1>2. NewsProved!Init
  BY DEF News!Init, News!Aside!Init, NewsProved!Init, News!Aside!Idle, NewsProved!Idle,
         News!Aside!Reading, NewsProved!Reading
<1>3. QED BY <1>1, <1>2, NewsAssumed, NewsProved!InitCause DEF NewsInv

LEMMA NewsNext == NewsInv /\ (News!Next \/ UNCHANGED <<v1, v2, v3, v4>>) => NewsInv'
<1>1. ASSUME NewsInv, UNCHANGED <<v1, v2, v3, v4>> PROVE NewsInv'
  <2>1. NewsTable' /\ UNCHANGED NewsProved!vars
    BY <1>1 DEF NewsInv, NewsTable, NewsProved!vars, News!Pages
  <2>2. QED BY <1>1, <2>1, NewsAssumed, NewsProved!NextCause DEF NewsInv
<1>2. ASSUME NewsInv, News!Next PROVE NewsInv'
  BY <1>2, NewsStepIs, NewsAssumed, NewsProved!NextCause DEF NewsInv, NewsProved!IInv
<1>3. QED BY <1>1, <1>2

LEMMA NewsCauses == NewsInv => News!NewsHaveCause
<1> SUFFICES ASSUME NewsInv, NEW k \in News!Keys PROVE News!Aside!HasCause(k)
  BY DEF News!NewsHaveCause
<1>1. NewsProved!Covered(k) BY DEF NewsProved!Covered, News!Matched
<1>2. NewsProved!HasCause(k) BY <1>1 DEF NewsInv, NewsProved!IInv, NewsProved!StaleHasCause
<1>3. QED
  BY <1>2 DEF NewsProved!HasCause, NewsProved!Stale, NewsProved!Pending,
              News!Aside!HasCause, News!Aside!Stale, News!Aside!Pending

LEMMA ListsHold == Spec => []((under = "noticias" => NewsInv) /\ (under = "sugestoes" => SugInv))
<1> DEFINE I == (under = "noticias" => NewsInv) /\ (under = "sugestoes" => SugInv)
<1>1. Init => I BY NewsInit, SugInit DEF Init
<1>2. I /\ [Next]_vars => I' BY StepOfPart, NewsNext, SugNext
<1>3. QED BY <1>1, <1>2, PTL DEF Spec

\* Cached news and suggestions are stale only for a cause that CacheAside knows, whatever
\* the number of rows and of requests: both services are instances of it, whose writes
\* evict every page that they may change (noticias_service.go, sugestoes_service.go).
THEOREM ListsDoHaveCause == Spec => []ListsHaveCause
<1>1. (under = "noticias" => NewsInv) /\ (under = "sugestoes" => SugInv) => ListsHaveCause
  BY NewsCauses, SugCauses DEF ListsHaveCause
<1>2. QED BY <1>1, ListsHold, PTL

-----------------------------------------------------------------------------
(* Requests over WebSocket *)

\* The connection has arrived, and is of the account.
Is(c, u) == v1[c].pc # "out" /\ v1[c].user = u

\* A connection that is open is among those of its account, and these have arrived; one
\* that is gone was broken.
Registered ==
    /\ \A c \in Hub!Conns :
          /\ v1[c].pc = "refuse" => v1[c].id \in Ids
          /\ v1[c].pc = "gone" => ~ v1[c].alive
          /\ v1[c].pc \in {"read", "refuse"} /\ v1[c].user # Anonymous =>
                \E i \in DOMAIN v2[v1[c].user] : v2[v1[c].user][i] = c
    /\ \A u \in Accounts : \A i \in DOMAIN v2[u] : Is(v2[u][i], u)

\* Requests with one id, answered or refused, that overlapped.
Apart ==
    /\ \A a, b \in v4 :
          a # b /\ a.id = b.id /\ a.pc # "done" /\ b.pc # "done" => a.id \in v5
    /\ \A a \in v4 : \A c \in Hub!Conns :
          v1[c].pc = "refuse" /\ v1[c].id = a.id /\ a.pc # "done" => a.id \in v5

\* Who asked has the answer, or is gone, or shares the id.
Has(a) == a.by \in a.got \/ ~ v1[a.by].alive \/ a.id \in v5

\* The fallback has the asker's connection before it, or its array was shifted; as long as
\* it was not, it is the beginning of that of the account.
WalkIsFair(a) ==
    /\ a.at <= Len(a.walk)
    /\ \A i \in 1 .. Len(a.walk) : Is(a.walk[i], v1[a.by].user)
    /\ Has(a) \/ a.moved \/ \E i \in 1 .. Len(a.walk) : i > a.at /\ a.walk[i] = a.by
    /\ a.shares /\ ~ a.moved =>
          /\ Len(a.walk) <= Len(v2[v1[a.by].user])
          /\ \A i \in 1 .. Len(a.walk) : a.walk[i] = v2[v1[a.by].user][i]

\* What the stage of an answer says of the entry of its id, and of whom it reaches.
AskIsFair(a) ==
    /\ v1[a.by].pc # "out"
    /\ \A c \in a.got : c = a.by \/ a.id \in v5 \/ (v6 /\ Is(c, v1[a.by].user))
    /\ a.pc = "run" => v3[a.id] = a.by \/ a.id \in v5 \/ (v3[a.id] = None /\ v6)
    /\ a.pc = "send" => a.to \in Hub!Conns /\ (a.to = a.by \/ a.id \in v5)
    /\ a.pc = "forget" => Has(a)
    /\ a.pc \in {"fallback", "spread"} =>
          v1[a.by].user # Anonymous /\ (a.id \in v5 \/ v6)
    /\ a.pc = "spread" => WalkIsFair(a)
    /\ a.pc = "done" => Has(a) \/ (v6 /\ (v1[a.by].user = Anonymous \/ a.moved))
    /\ a.pc # "spread" => ~ a.shares /\ a.at = 0

HubInv == /\ Hub!TypeOK /\ IsFiniteSet(v4)
          /\ Registered /\ Apart
          /\ \A a \in v4 : AskIsFair(a)

LEMMA WithoutOne ==
    ASSUME NEW S, NEW s \in Seq(S), NEW c, \E i \in DOMAIN s : s[i] = c
    PROVE  /\ Hub!Without(s, c) \in Seq(S)
           /\ \A j \in DOMAIN Hub!Without(s, c) : \E i \in DOMAIN s : Hub!Without(s, c)[j] = s[i]
           /\ \A i \in DOMAIN s : s[i] # c =>
                 \E j \in DOMAIN Hub!Without(s, c) : Hub!Without(s, c)[j] = s[i]
<1> DEFINE k == CHOOSE i \in DOMAIN s : s[i] = c
           t == SubSeq(s, 1, k - 1) \o SubSeq(s, k + 1, Len(s))
<1>1. Hub!Without(s, c) = t BY DEF Hub!Without, Hub!RemoveAt
<1>2. k \in 1 .. Len(s) /\ s[k] = c /\ Len(s) \in Nat OBVIOUS
<1> HIDE DEF k
<1>3. /\ SubSeq(s, 1, k - 1) \in Seq(S) /\ Len(SubSeq(s, 1, k - 1)) = k - 1
      /\ SubSeq(s, k + 1, Len(s)) \in Seq(S) /\ Len(SubSeq(s, k + 1, Len(s))) = Len(s) - k
      /\ \A i \in 1 .. k - 1 : SubSeq(s, 1, k - 1)[i] = s[i]
      /\ \A i \in 1 .. Len(s) - k : SubSeq(s, k + 1, Len(s))[i] = s[k + i]
  BY <1>2
<1>4. /\ t \in Seq(S) /\ Len(t) = Len(s) - 1
      /\ \A i \in 1 .. Len(t) : t[i] = IF i < k THEN s[i] ELSE s[i + 1]
  <2>1. PICK a : a = SubSeq(s, 1, k - 1) OBVIOUS
  <2>2. PICK b : b = SubSeq(s, k + 1, Len(s)) OBVIOUS
  <2>3. /\ a \in Seq(S) /\ Len(a) = k - 1 /\ b \in Seq(S) /\ Len(b) = Len(s) - k
        /\ \A i \in 1 .. k - 1 : a[i] = s[i]
        /\ \A i \in 1 .. Len(s) - k : b[i] = s[k + i]
    BY <1>3, <2>1, <2>2
  <2>4. t = a \o b BY <2>1, <2>2
  <2> HIDE DEF t
  <2>5. /\ t \in Seq(S) /\ Len(t) = Len(a) + Len(b)
        /\ \A i \in 1 .. Len(a) : t[i] = a[i]
        /\ \A i \in Len(a) + 1 .. Len(a) + Len(b) : t[i] = b[i - Len(a)]
    <3>1. a \in Seq(S) /\ b \in Seq(S) BY <2>3
    <3>2. /\ a \o b \in Seq(S) /\ Len(a \o b) = Len(a) + Len(b)
          /\ \A i \in 1 .. Len(a) + Len(b) :
                (a \o b)[i] = IF i <= Len(a) THEN a[i] ELSE b[i - Len(a)]
      BY <3>1, ConcatProperties
    <3>3. Len(a) \in Nat /\ Len(b) \in Nat BY <3>1
    <3>4. QED BY <2>4, <3>2, <3>3
  <2>6. Len(t) = Len(s) - 1 BY <1>2, <2>3, <2>5
  <2>7. ASSUME NEW i \in 1 .. Len(t), i < k PROVE t[i] = s[i]
    BY <1>2, <2>3, <2>5, <2>7
  <2>8. ASSUME NEW i \in 1 .. Len(t), ~ i < k PROVE t[i] = s[i + 1]
    <3>1. PICK j : j = i - (k - 1) OBVIOUS
    <3>2. /\ i \in Int /\ j \in 1 .. Len(s) - k /\ k + j = i + 1
          /\ i \in Len(a) + 1 .. Len(a) + Len(b)
      BY <1>2, <2>3, <2>6, <2>8, <3>1
    <3>3. QED BY <2>3, <2>5, <3>1, <3>2
  <2>9. QED BY <2>5, <2>6, <2>7, <2>8
<1> HIDE DEF t
<1>5. ASSUME NEW i \in DOMAIN s, s[i] # c PROVE \E j \in DOMAIN t : t[j] = s[i]
  <2>1. CASE i < k BY <1>2, <1>4, <2>1
  <2>2. CASE i > k
    <3>1. i - 1 \in 1 .. Len(t) /\ t[i - 1] = s[i] BY <1>2, <1>4, <2>2
    <3>2. QED BY <1>4, <3>1
  <2>3. QED BY <1>2, <1>5, <2>1, <2>2
<1>6. \A j \in DOMAIN t : \E i \in DOMAIN s : t[j] = s[i] BY <1>2, <1>4
<1>7. QED BY <1>1, <1>4, <1>5, <1>6

\* A fallback that walks the array sees what is written to it.
LEMMA SeesIs ==
    ASSUME NEW a \in Hub!Ask, NEW u, NEW s \in Seq(Hub!Conns)
    PROVE  /\ Hub!Sees(a, u, s) \in Hub!Ask
           /\ ~ (a.shares /\ v1[a.by].user = u) => Hub!Sees(a, u, s) = a
           /\ a.shares /\ v1[a.by].user = u =>
                 \E w \in Seq(Hub!Conns) :
                    /\ Hub!Sees(a, u, s) = [a EXCEPT !.walk = w]
                    /\ Len(w) = Len(a.walk)
                    /\ \A i \in 1 .. Len(w) : w[i] = IF i <= Len(s) THEN s[i] ELSE a.walk[i]
<1>1. a.walk \in Seq(Hub!Conns) /\ Len(a.walk) \in Nat BY DEF Hub!Ask
<1> DEFINE w == [i \in 1 .. Len(a.walk) |-> IF i <= Len(s) THEN s[i] ELSE a.walk[i]]
<1>2. w \in Seq(Hub!Conns) /\ Len(w) = Len(a.walk) BY <1>1
<1>3. \A i \in 1 .. Len(w) : w[i] = IF i <= Len(s) THEN s[i] ELSE a.walk[i] BY <1>2
<1>4. Hub!Sees(a, u, s) = IF a.shares /\ v1[a.by].user = u THEN [a EXCEPT !.walk = w] ELSE a
  BY DEF Hub!Sees, Hub!User
<1> HIDE DEF w
<1>5. [a EXCEPT !.walk = w] \in Hub!Ask BY <1>2 DEF Hub!Ask
<1>6. QED BY <1>2, <1>3, <1>4, <1>5

LEMMA HubTyped ==
    ASSUME Hub!TypeOK
    PROVE  /\ v1 \in [Hub!Conns -> Hub!Conn] /\ v2 \in [Accounts -> Seq(Hub!Conns)]
           /\ v3 \in [Ids -> Hub!Conns \cup {None}] /\ v4 \subseteq Hub!Ask
           /\ v5 \subseteq Ids /\ v6 \in BOOLEAN
           /\ \A c \in Hub!Conns : v1[c].user \in Accounts \cup {Anonymous}
           /\ \A a \in v4 : /\ a.by \in Hub!Conns /\ a.id \in Ids /\ a.got \subseteq Hub!Conns
                           /\ a.walk \in Seq(Hub!Conns) /\ a.at \in Nat
                           /\ a.shares \in BOOLEAN /\ a.moved \in BOOLEAN
BY DEF Hub!TypeOK, Hub!Conn, Hub!Ask

\* No connection changes hands, and none that is broken is mended.
ConnsStay ==
    \A c \in Hub!Conns : v1[c].pc # "out" =>
        v1'[c].pc # "out" /\ v1'[c].user = v1[c].user /\ (v1'[c].alive => v1[c].alive)

\* An answer stays fair when the entry of its id stays, or goes or is taken for a cause, and
\* nothing is written to the array that it walks.
LEMMA AskKept ==
    ASSUME Hub!TypeOK, NEW a \in Hub!Ask, AskIsFair(a),
           ConnsStay, v5 \subseteq v5', v6 => v6',
           a.pc = "run" => v3'[a.id] = v3[a.id] \/ a.id \in v5' \/ (v3'[a.id] = None /\ v6'),
           a.shares => v2'[v1[a.by].user] = v2[v1[a.by].user]
    PROVE  AskIsFair(a)'
<1>1. /\ a.by \in Hub!Conns /\ a.got \subseteq Hub!Conns /\ a.walk \in Seq(Hub!Conns)
      /\ Len(a.walk) \in Nat /\ \A i \in 1 .. Len(a.walk) : a.walk[i] \in Hub!Conns
  BY DEF Hub!Ask
<1>2. v1[a.by].pc # "out" BY DEF AskIsFair
<1>3. v1'[a.by].pc # "out" /\ v1'[a.by].user = v1[a.by].user BY <1>1, <1>2 DEF ConnsStay
<1>4. \A c \in Hub!Conns : Is(c, v1[a.by].user) => Is(c, v1[a.by].user)'
  BY <1>3 DEF Is, ConnsStay
<1>5. Has(a) => Has(a)' BY <1>1, <1>2 DEF Has, ConnsStay
<1>6. WalkIsFair(a) => WalkIsFair(a)'
  BY <1>1, <1>3, <1>4, <1>5 DEF WalkIsFair
<1>7. \A c \in a.got : c = a.by \/ a.id \in v5' \/ (v6' /\ Is(c, v1[a.by].user)')
  BY <1>1, <1>4 DEF AskIsFair
<1>8. a.pc = "run" => v3'[a.id] = a.by \/ a.id \in v5' \/ (v3'[a.id] = None /\ v6')
  BY DEF AskIsFair
<1>9. QED BY <1>3, <1>5, <1>6, <1>7, <1>8 DEF AskIsFair

\* One request goes on: the others are as they were, and the ids stay apart.
LEMMA BecomesFair ==
    ASSUME HubInv, NEW a \in v4, NEW b \in Hub!Ask, Hub!Becomes(a, b),
           UNCHANGED <<v1, v2, v5, v6>>, v3' \in [Ids -> Hub!Conns \cup {None}],
           a.pc # "done", b.id = a.id, b.pc # "run", AskIsFair(b), b.shares => v2' = v2,
           \A c \in v4 \ {a} : c.pc = "run" => v3'[c.id] = v3[c.id] \/ c.id \in v5
    PROVE  HubInv'
<1>1. Hub!TypeOK /\ Registered /\ Apart BY DEF HubInv
<1>2. v4' = (v4 \ {a}) \cup {b} BY DEF Hub!Becomes
<1>3. v4 \subseteq Hub!Ask BY <1>1, HubTyped
<1>4. Hub!TypeOK' BY <1>1, <1>2 DEF Hub!TypeOK
<1>5. IsFiniteSet(v4')
  BY <1>2, FS_AddElement, FS_RemoveElement DEF HubInv
<1>6. Registered' BY <1>1 DEF Registered, Is
<1>7. Apart' BY <1>1, <1>2 DEF Apart
<1>8. ConnsStay /\ v5 \subseteq v5' /\ (v6 => v6') BY DEF ConnsStay
<1>9. ASSUME NEW c \in v4 \ {a} PROVE AskIsFair(c)'
  <2>1. AskIsFair(c) /\ c \in Hub!Ask BY <1>3 DEF HubInv
  <2>2. QED BY <1>1, <1>8, <2>1, AskKept
<1>10. AskIsFair(b)' BY <1>1, <1>8, AskKept
<1>11. QED BY <1>2, <1>4, <1>5, <1>6, <1>7, <1>9, <1>10 DEF HubInv

LEMMA LookupHub ==
    ASSUME HubInv, NEW a \in v4, Hub!Lookup(a) PROVE HubInv'
<1>1. Hub!TypeOK /\ AskIsFair(a) /\ a \in Hub!Ask BY HubTyped DEF HubInv
<1> DEFINE to == v3[a.id]
           pc == IF to # None THEN "send"
                 ELSE IF v1[a.by].user # Anonymous THEN "fallback" ELSE "done"
<1>2. PICK b : b = [a EXCEPT !.to = to, !.pc = pc] OBVIOUS
<1>3. a.pc = "run" /\ Hub!Becomes(a, b) /\ UNCHANGED <<v1, v2, v3, v5, v6>>
  BY <1>2 DEF Hub!Lookup, Hub!User
<1>4. to \in Hub!Conns \cup {None} /\ a.by \in Hub!Conns BY <1>1, HubTyped DEF Hub!Ask
<1>5. /\ b \in Hub!Ask /\ b.id = a.id /\ b.by = a.by /\ b.got = a.got /\ b.shares = a.shares
      /\ b.moved = a.moved /\ b.pc = pc /\ b.to = to /\ b.at = a.at
  BY <1>1, <1>2, <1>4 DEF Hub!Ask
<1>6. ~ a.shares /\ a.at = 0 /\ (to = a.by \/ a.id \in v5 \/ (to = None /\ v6))
  BY <1>1, <1>3 DEF AskIsFair
<1>7. AskIsFair(b)
  <2>1. CASE to # None BY <1>1, <1>4, <1>5, <1>6, <2>1 DEF AskIsFair
  <2>2. CASE to = None
    <3>1. a.id \in v5 \/ v6 BY <1>4, <1>6, <2>2, NoneIsNothing
    <3>2. QED BY <1>1, <1>5, <1>6, <2>2, <3>1 DEF AskIsFair, Has
  <2>3. QED BY <2>1, <2>2
<1>8. QED BY <1>1, <1>3, <1>5, <1>7, HubTyped, BecomesFair

LEMMA SendReplyHub ==
    ASSUME HubInv, NEW a \in v4, Hub!SendReply(a) PROVE HubInv'
<1>1. Hub!TypeOK /\ AskIsFair(a) /\ a \in Hub!Ask BY HubTyped DEF HubInv
<1>2. PICK b : b = [a EXCEPT !.pc = "forget", !.to = None, !.got = Hub!Sent(a, a.to)] OBVIOUS
<1>3. a.pc = "send" /\ Hub!Becomes(a, b) /\ UNCHANGED <<v1, v2, v3, v5, v6>>
  BY <1>2 DEF Hub!SendReply
<1>4. a.to \in Hub!Conns /\ (a.to = a.by \/ a.id \in v5) /\ ~ a.shares /\ a.at = 0
  BY <1>1, <1>3 DEF AskIsFair
<1>5. Hub!Sent(a, a.to) = IF v1[a.to].alive THEN a.got \cup {a.to} ELSE a.got
  BY DEF Hub!Sent
<1>6. /\ b \in Hub!Ask /\ b.id = a.id /\ b.by = a.by /\ b.got = Hub!Sent(a, a.to)
      /\ b.shares = a.shares /\ b.pc = "forget" /\ b.at = a.at
  BY <1>1, <1>2, <1>4, <1>5 DEF Hub!Ask
<1>7. Has(b) BY <1>4, <1>5, <1>6 DEF Has
<1>8. AskIsFair(b) BY <1>1, <1>4, <1>5, <1>6, <1>7 DEF AskIsFair
<1>9. QED BY <1>1, <1>3, <1>4, <1>6, <1>8, HubTyped, BecomesFair

LEMMA ForgetHub ==
    ASSUME HubInv, NEW a \in v4, Hub!Forget(a) PROVE HubInv'
<1>1. Hub!TypeOK /\ AskIsFair(a) /\ a \in Hub!Ask BY HubTyped DEF HubInv
<1>2. PICK b : b = [a EXCEPT !.pc = "done"] OBVIOUS
<1>3. /\ a.pc = "forget" /\ Hub!Becomes(a, b) /\ UNCHANGED <<v1, v2, v5, v6>>
      /\ v3' = [v3 EXCEPT ![a.id] = None]
  BY <1>2 DEF Hub!Forget
<1>4. /\ b \in Hub!Ask /\ b.id = a.id /\ b.by = a.by /\ b.got = a.got
      /\ b.shares = a.shares /\ b.pc = "done" /\ b.at = a.at /\ a.id \in Ids
  BY <1>1, <1>2 DEF Hub!Ask
<1>5. ~ b.shares /\ b.at = 0 /\ Has(b) BY <1>1, <1>3, <1>4 DEF AskIsFair, Has
<1>6. AskIsFair(b) BY <1>1, <1>4, <1>5 DEF AskIsFair
<1>7. v3' \in [Ids -> Hub!Conns \cup {None}] BY <1>1, <1>3, HubTyped
<1>8. ASSUME NEW c \in v4 \ {a}, c.pc = "run" PROVE v3'[c.id] = v3[c.id] \/ c.id \in v5
  <2>1. CASE c.id = a.id BY <1>3, <1>8, <2>1 DEF HubInv, Apart
  <2>2. CASE c.id # a.id BY <1>1, <1>3, <1>8, <2>2, HubTyped
  <2>3. QED BY <2>1, <2>2
<1>9. QED BY <1>1, <1>3, <1>4, <1>5, <1>6, <1>7, <1>8, BecomesFair

LEMMA FallbackHub ==
    ASSUME HubInv, NEW a \in v4, Hub!Fallback(a) PROVE HubInv'
<1>1. Hub!TypeOK /\ Registered /\ AskIsFair(a) /\ a \in Hub!Ask BY HubTyped DEF HubInv
<1> DEFINE u == v1[a.by].user
<1>2. PICK b : b = [a EXCEPT !.pc = "spread", !.walk = v2[u], !.shares = TRUE] OBVIOUS
<1>3. /\ a.pc = "fallback" /\ UNCHANGED <<v1, v2, v3, v5, v6>>
      /\ Hub!Becomes(a, [a EXCEPT !.pc = "spread", !.walk = v2[u], !.shares = TRUE])
  BY DEF Hub!Fallback, Hub!User
<1>4. a.by \in Hub!Conns /\ u \in Accounts /\ (a.id \in v5 \/ v6) /\ v1[a.by].pc # "out" /\ a.at = 0
  BY <1>1, <1>3, HubTyped DEF AskIsFair, Hub!Ask
<1>5. v2[u] \in Seq(Hub!Conns) /\ Len(v2[u]) \in Nat BY <1>1, <1>4, HubTyped
<1>6. /\ b \in Hub!Ask /\ b.id = a.id /\ b.by = a.by /\ b.got = a.got /\ b.shares
      /\ b.pc = "spread" /\ b.walk = v2[u] /\ b.at = 0
  BY <1>1, <1>2, <1>4, <1>5 DEF Hub!Ask
<1>7. Has(b) \/ \E i \in 1 .. Len(v2[u]) : v2[u][i] = a.by
  <2>1. CASE v1[a.by].alive
    <3>1. v1[a.by].pc \in {"read", "refuse"}
      BY <1>1, <1>4, <2>1, HubTyped DEF Registered, Hub!Conn
    <3>2. QED BY <1>1, <1>4, <1>5, <3>1, NamesAssumption DEF Registered
  <2>2. CASE ~ v1[a.by].alive BY <1>6, <2>2 DEF Has
  <2>3. QED BY <2>1, <2>2
<1>8. \A i \in 1 .. Len(v2[u]) : Is(v2[u][i], u) BY <1>1, <1>4, <1>5 DEF Registered
<1>9. WalkIsFair(b) BY <1>5, <1>6, <1>7, <1>8 DEF WalkIsFair
<1>10. AskIsFair(b)
  BY <1>1, <1>4, <1>6, <1>9, NamesAssumption DEF AskIsFair
<1>11. QED BY <1>1, <1>2, <1>3, <1>6, <1>10, HubTyped, BecomesFair

LEMMA SpreadHub ==
    ASSUME HubInv, NEW a \in v4, Hub!Spread(a) PROVE HubInv'
<1>1. Hub!TypeOK /\ AskIsFair(a) /\ a \in Hub!Ask BY HubTyped DEF HubInv
<1> DEFINE c == a.walk[a.at + 1]
<1>2. PICK b : b = [a EXCEPT !.at = a.at + 1, !.got = Hub!Sent(a, c)] OBVIOUS
<1>3. /\ a.pc = "spread" /\ a.at < Len(a.walk) /\ UNCHANGED <<v1, v2, v3, v5, v6>>
      /\ Hub!Becomes(a, [a EXCEPT !.at = a.at + 1, !.got = Hub!Sent(a, c)])
  BY <1>1 DEF Hub!Spread, Hub!Ask
<1>4. a.at \in Nat /\ Len(a.walk) \in Nat /\ a.at + 1 \in 1 .. Len(a.walk) /\ c \in Hub!Conns
  BY <1>1, <1>3 DEF Hub!Ask
<1>5. Hub!Sent(a, c) = IF v1[c].alive THEN a.got \cup {c} ELSE a.got BY DEF Hub!Sent
<1> DEFINE got == Hub!Sent(a, c)
<1>g. got \in SUBSET Hub!Conns /\ a.at + 1 \in Nat BY <1>1, <1>4, <1>5 DEF Hub!Ask
<1> HIDE DEF got
<1>6. /\ b \in Hub!Ask /\ b.id = a.id /\ b.by = a.by /\ b.got = Hub!Sent(a, c)
      /\ b.shares = a.shares /\ b.moved = a.moved /\ b.pc = "spread" /\ b.walk = a.walk
      /\ b.at = a.at + 1
  BY <1>1, <1>2, <1>3, <1>g DEF got, Hub!Ask
<1>7. WalkIsFair(a) /\ (a.id \in v5 \/ v6) BY <1>1, <1>3 DEF AskIsFair
<1>8. Is(c, v1[a.by].user) BY <1>4, <1>7 DEF WalkIsFair
<1>9. \A d \in b.got : d = b.by \/ b.id \in v5 \/ (v6 /\ Is(d, v1[b.by].user))
  BY <1>1, <1>5, <1>6, <1>7, <1>8 DEF AskIsFair
<1>10. Has(b) \/ b.moved \/ \E i \in 1 .. Len(b.walk) : i > b.at /\ b.walk[i] = b.by
  <2>1. CASE Has(a) BY <1>5, <1>6, <2>1 DEF Has
  <2>2. CASE a.moved BY <1>6, <2>2
  <2>3. ASSUME NEW i \in 1 .. Len(a.walk), i > a.at, a.walk[i] = a.by
        PROVE  Has(b) \/ \E j \in 1 .. Len(b.walk) : j > b.at /\ b.walk[j] = b.by
    <3>1. CASE i = a.at + 1 BY <1>5, <1>6, <2>3, <3>1 DEF Has
    <3>2. CASE i # a.at + 1 BY <1>4, <1>6, <2>3, <3>2
    <3>3. QED BY <3>1, <3>2
  <2>4. QED BY <1>7, <2>1, <2>2, <2>3 DEF WalkIsFair
<1>11. WalkIsFair(b) BY <1>4, <1>6, <1>7, <1>10 DEF WalkIsFair
<1>12. AskIsFair(b) BY <1>1, <1>3, <1>6, <1>9, <1>11 DEF AskIsFair
<1>13. QED BY <1>1, <1>2, <1>3, <1>6, <1>12, HubTyped, BecomesFair

LEMMA EndSpreadHub ==
    ASSUME HubInv, NEW a \in v4, Hub!EndSpread(a) PROVE HubInv'
<1>1. Hub!TypeOK /\ AskIsFair(a) /\ a \in Hub!Ask BY HubTyped DEF HubInv
<1>2. PICK b : b = [a EXCEPT !.pc = "done", !.walk = <<>>, !.at = 0, !.shares = FALSE] OBVIOUS
<1>3. /\ a.pc = "spread" /\ a.at = Len(a.walk) /\ Hub!Becomes(a, b)
      /\ UNCHANGED <<v1, v2, v3, v5, v6>>
  BY <1>2 DEF Hub!EndSpread
<1>4. /\ b \in Hub!Ask /\ b.id = a.id /\ b.by = a.by /\ b.got = a.got
      /\ b.shares = FALSE /\ b.moved = a.moved /\ b.pc = "done" /\ b.at = 0
  <2>1. <<>> \in Seq(Hub!Conns) OBVIOUS
  <2>2. QED BY <1>1, <1>2, <2>1 DEF Hub!Ask
<1>5. WalkIsFair(a) /\ (a.id \in v5 \/ v6) /\ Len(a.walk) \in Nat
  BY <1>1, <1>3 DEF AskIsFair, Hub!Ask
<1>6. Has(a) \/ a.moved BY <1>3, <1>5 DEF WalkIsFair
<1>7. AskIsFair(b) BY <1>1, <1>4, <1>5, <1>6 DEF AskIsFair, Has
<1>8. QED BY <1>1, <1>3, <1>4, <1>7, HubTyped, BecomesFair

\* What a step of a connection, or of the ticker, leaves of the answers.
LEMMA AsksKept ==
    ASSUME HubInv, ConnsStay, v5 \subseteq v5', v6 => v6', v2' = v2,
           \A a \in v4 : a.pc = "run" =>
               v3'[a.id] = v3[a.id] \/ a.id \in v5' \/ (v3'[a.id] = None /\ v6')
    PROVE  \A a \in v4 : AskIsFair(a)'
<1>1. Hub!TypeOK /\ v4 \subseteq Hub!Ask BY HubTyped DEF HubInv
<1>2. ASSUME NEW a \in v4 PROVE AskIsFair(a)'
  <2>1. AskIsFair(a) /\ a \in Hub!Ask BY <1>1 DEF HubInv
  <2>2. QED BY <1>1, <2>1, AskKept
<1>3. QED BY <1>2

\* A connection changes, and is the one it was.
LEMMA ConnIs ==
    ASSUME Hub!TypeOK, NEW c \in Hub!Conns, NEW n \in Hub!Conn, v1' = [v1 EXCEPT ![c] = n]
    PROVE  /\ v1' \in [Hub!Conns -> Hub!Conn]
           /\ v1'[c] = n /\ \A d \in Hub!Conns : d # c => v1'[d] = v1[d]
           /\ v1[c].pc = "out" => ConnsStay
           /\ n.pc # "out" /\ n.user = v1[c].user /\ (n.alive => v1[c].alive) => ConnsStay
BY HubTyped DEF ConnsStay

LEMMA CleanHub ==
    ASSUME HubInv, Hub!CleanConnMap PROVE HubInv'
<1>1. Hub!TypeOK /\ Registered /\ Apart BY DEF HubInv
<1>2. v3' = [id \in Ids |-> None] /\ v6' = TRUE /\ UNCHANGED <<v1, v2, v4, v5>>
  BY DEF Hub!CleanConnMap
<1>3. Hub!TypeOK' BY <1>1, <1>2 DEF Hub!TypeOK
<1>4. ConnsStay BY <1>2 DEF ConnsStay
<1>5. \A a \in v4 : v3'[a.id] = None BY <1>1, <1>2, HubTyped
<1>6. \A a \in v4 : AskIsFair(a)' BY <1>2, <1>4, <1>5, AsksKept
<1>7. Registered' /\ Apart' /\ IsFiniteSet(v4')
  BY <1>1, <1>2 DEF HubInv, Registered, Apart, Is
<1>8. QED BY <1>2, <1>3, <1>6, <1>7 DEF HubInv

LEMMA BreakHub ==
    ASSUME HubInv, NEW c \in Hub!Conns, Hub!Break(c) PROVE HubInv'
<1>1. Hub!TypeOK /\ Registered /\ Apart BY DEF HubInv
<1>2. PICK n : n = [v1[c] EXCEPT !.alive = FALSE] OBVIOUS
<1>3. /\ v1[c].pc \in {"read", "refuse"} /\ UNCHANGED <<v2, v3, v4, v5, v6>>
      /\ v1' = [v1 EXCEPT ![c] = n]
  BY <1>1, <1>2 DEF Hub!Break, Hub!TypeOK
<1>4. /\ n \in Hub!Conn /\ n.pc = v1[c].pc /\ n.user = v1[c].user /\ n.alive = FALSE
      /\ n.id = v1[c].id
  BY <1>1, <1>2, HubTyped DEF Hub!Conn
<1>5. /\ v1' \in [Hub!Conns -> Hub!Conn] /\ ConnsStay
      /\ v1'[c] = n /\ \A d \in Hub!Conns : d # c => v1'[d] = v1[d]
  BY <1>1, <1>3, <1>4, ConnIs
<1>6. Hub!TypeOK' BY <1>1, <1>3, <1>5 DEF Hub!TypeOK
<1>7. \A a \in v4 : AskIsFair(a)' BY <1>3, <1>5, AsksKept
<1>8. \A d \in Hub!Conns : v1'[d].pc = v1[d].pc /\ v1'[d].user = v1[d].user
                           /\ v1'[d].id = v1[d].id /\ (v1'[d].alive => v1[d].alive)
  BY <1>4, <1>5
<1>9. Registered'
  <2>1. \A u \in Accounts : \A i \in DOMAIN v2[u] : v2[u][i] \in Hub!Conns BY <1>1, HubTyped
  <2>2. QED BY <1>1, <1>3, <1>8, <2>1 DEF Registered, Is
<1>10. Apart' BY <1>1, <1>3, <1>8 DEF Apart
<1>11. QED BY <1>3, <1>6, <1>7, <1>9, <1>10 DEF HubInv

LEMMA RefuseHub ==
    ASSUME HubInv, NEW c \in Hub!Conns, Hub!Refuse(c) PROVE HubInv'
<1>1. Hub!TypeOK /\ Registered /\ Apart BY DEF HubInv
<1>2. PICK n : n = [v1[c] EXCEPT !.pc = "read", !.id = None] OBVIOUS
<1>3. /\ v1[c].pc = "refuse" /\ UNCHANGED <<v2, v4, v5, v6>>
      /\ v1' = [v1 EXCEPT ![c] = n] /\ v3' = [v3 EXCEPT ![v1[c].id] = None]
  BY <1>1, <1>2 DEF Hub!Refuse, Hub!TypeOK
<1>4. /\ n \in Hub!Conn /\ n.pc = "read" /\ n.user = v1[c].user /\ n.alive = v1[c].alive
  BY <1>1, <1>2, HubTyped DEF Hub!Conn
<1>5. /\ v1' \in [Hub!Conns -> Hub!Conn] /\ ConnsStay
      /\ v1'[c] = n /\ \A d \in Hub!Conns : d # c => v1'[d] = v1[d]
  BY <1>1, <1>3, <1>4, ConnIs
<1>6. v1[c].id \in Ids BY <1>1, <1>3 DEF Registered
<1>7. Hub!TypeOK' BY <1>1, <1>3, <1>5 DEF Hub!TypeOK
<1>8. ASSUME NEW a \in v4, a.pc = "run" PROVE v3'[a.id] = v3[a.id] \/ a.id \in v5'
  <2>1. CASE a.id = v1[c].id BY <1>1, <1>3, <1>8, <2>1 DEF Apart
  <2>2. CASE a.id # v1[c].id BY <1>1, <1>3, <2>2, HubTyped
  <2>3. QED BY <2>1, <2>2
<1>9. \A a \in v4 : AskIsFair(a)' BY <1>3, <1>5, <1>8, AsksKept
<1>10. Registered'
  <2>1. \A u \in Accounts : \A i \in DOMAIN v2[u] : v2[u][i] \in Hub!Conns BY <1>1, HubTyped
  <2>2. QED BY <1>1, <1>3, <1>4, <1>5, <2>1 DEF Registered, Is
<1>11. Apart' BY <1>1, <1>3, <1>4, <1>5 DEF Apart
<1>12. QED BY <1>3, <1>7, <1>9, <1>10, <1>11 DEF HubInv

\* The id of a request is taken: those of earlier ones with it that are not done share it.
LEMMA TrackHub ==
    ASSUME HubInv, NEW c \in Hub!Conns, NEW id \in Ids, Hub!Track(c, id)
    PROVE  /\ v1[c].pc = "read" /\ v2' = v2 /\ v3' = [v3 EXCEPT ![id] = c] /\ v6' = v6
           /\ v3' \in [Ids -> Hub!Conns \cup {None}] /\ v3'[id] = c
           /\ v5 \subseteq v5' /\ v5' \subseteq Ids
           /\ \A a \in v4 : a.id = id /\ a.pc # "done" => id \in v5'
           /\ \A d \in Hub!Conns : v1[d].id = id => id \in v5'
           /\ \A a \in v4 : a.pc = "run" => v3'[a.id] = v3[a.id] \/ a.id \in v5'
<1>1. /\ v1[c].pc = "read" /\ v2' = v2 /\ v3' = [v3 EXCEPT ![id] = c] /\ v6' = v6
      /\ v5' = IF Hub!InUse(id) THEN v5 \cup {id} ELSE v5
  BY DEF Hub!Track
<1>2. Hub!TypeOK BY DEF HubInv
<1>3. v3' \in [Ids -> Hub!Conns \cup {None}] /\ v3'[id] = c
  BY <1>1, <1>2, HubTyped
<1>4. v5 \subseteq v5' /\ v5' \subseteq Ids BY <1>1, <1>2, HubTyped
<1>5. \A a \in v4 : a.id = id /\ a.pc # "done" => id \in v5'
  BY <1>1 DEF Hub!InUse
<1>6. \A d \in Hub!Conns : v1[d].id = id => id \in v5' BY <1>1 DEF Hub!InUse
<1>7. ASSUME NEW a \in v4, a.pc = "run" PROVE v3'[a.id] = v3[a.id] \/ a.id \in v5'
  <2>1. CASE a.id = id BY <1>5, <1>7, <2>1
  <2>2. CASE a.id # id BY <1>1, <1>2, <2>2, HubTyped
  <2>3. QED BY <2>1, <2>2
<1>8. QED BY <1>1, <1>3, <1>4, <1>5, <1>6, <1>7

LEMMA RequestUnknownHub ==
    ASSUME HubInv, NEW c \in Hub!Conns, NEW id \in Ids, Hub!RequestUnknown(c, id) PROVE HubInv'
<1>1. Hub!TypeOK /\ Registered /\ Apart BY DEF HubInv
<1>2. PICK n : n = [v1[c] EXCEPT !.pc = "refuse", !.id = id] OBVIOUS
<1>3. v4' = v4 /\ v1' = [v1 EXCEPT ![c] = n] /\ Hub!Track(c, id)
  BY <1>1, <1>2 DEF Hub!RequestUnknown, Hub!TypeOK
<1>4. /\ n \in Hub!Conn /\ n.pc = "refuse" /\ n.user = v1[c].user /\ n.alive = v1[c].alive
      /\ n.id = id
  BY <1>1, <1>2, HubTyped DEF Hub!Conn
<1>5. /\ v1' \in [Hub!Conns -> Hub!Conn] /\ ConnsStay
      /\ v1'[c] = n /\ \A d \in Hub!Conns : d # c => v1'[d] = v1[d]
  BY <1>1, <1>3, <1>4, ConnIs
<1>6. /\ v1[c].pc = "read" /\ v2' = v2 /\ v6' = v6
      /\ v3' \in [Ids -> Hub!Conns \cup {None}] /\ v5 \subseteq v5' /\ v5' \subseteq Ids
      /\ \A a \in v4 : a.id = id /\ a.pc # "done" => id \in v5'
      /\ \A a \in v4 : a.pc = "run" => v3'[a.id] = v3[a.id] \/ a.id \in v5'
  BY <1>3, TrackHub
<1>7. Hub!TypeOK' BY <1>1, <1>3, <1>5, <1>6 DEF Hub!TypeOK
<1>8. \A a \in v4 : AskIsFair(a)' BY <1>3, <1>5, <1>6, AsksKept
<1>9. Registered'
  <2>1. \A u \in Accounts : \A i \in DOMAIN v2[u] : v2[u][i] \in Hub!Conns BY <1>1, HubTyped
  <2>2. QED BY <1>1, <1>4, <1>5, <1>6, <2>1 DEF Registered, Is
<1>10. Apart'
  <2>1. ASSUME NEW a \in v4, NEW d \in Hub!Conns,
               v1'[d].pc = "refuse", v1'[d].id = a.id, a.pc # "done"
        PROVE  a.id \in v5'
    <3>1. CASE d = c BY <1>4, <1>5, <1>6, <2>1, <3>1
    <3>2. CASE d # c BY <1>1, <1>5, <1>6, <2>1, <3>2 DEF Apart
    <3>3. QED BY <3>1, <3>2
  <2>2. QED BY <1>1, <1>3, <1>6, <2>1 DEF Apart
<1>11. QED BY <1>3, <1>7, <1>8, <1>9, <1>10 DEF HubInv

\* The part counts as this module does.
LEMMA HubCardinality == \A S : Hub!Cardinality(S) = Cardinality(S)
BY DEF Hub!Cardinality, Cardinality

LEMMA RequestHub ==
    ASSUME HubInv, NEW c \in Hub!Conns, NEW id \in Ids, Hub!Request(c, id) PROVE HubInv'
<1>1. Hub!TypeOK /\ Registered /\ Apart /\ IsFiniteSet(v4) BY DEF HubInv
<1>2. PICK b : b = Hub!NewAsk(c, id) OBVIOUS
<1>3. v4' = v4 \cup {b} /\ v1' = v1 /\ Hub!Track(c, id) /\ Hub!MoreMayCome
  BY <1>2 DEF Hub!Request
<1>4. /\ v1[c].pc = "read" /\ v2' = v2 /\ v6' = v6 /\ v3'[id] = c
      /\ v3' \in [Ids -> Hub!Conns \cup {None}] /\ v5 \subseteq v5' /\ v5' \subseteq Ids
      /\ \A a \in v4 : a.id = id /\ a.pc # "done" => id \in v5'
      /\ \A d \in Hub!Conns : v1[d].id = id => id \in v5'
      /\ \A a \in v4 : a.pc = "run" => v3'[a.id] = v3[a.id] \/ a.id \in v5'
  BY <1>3, TrackHub
<1>5. Cardinality(v4) + 1 \in 1 .. MaxArrivals
  <2>1. Hub!Arrived \subseteq 1 .. MaxConns BY DEF Hub!Arrived, Hub!Conns
  <2>2. MaxConns \in Nat /\ MaxArrivals \in Nat BY BoundsAssumption
  <2>3. IsFiniteSet(1 .. MaxConns) BY <2>2, FS_Interval
  <2>4. IsFiniteSet(Hub!Arrived) BY <2>1, <2>3, FS_Subset
  <2>5. Cardinality(Hub!Arrived) \in Nat /\ Cardinality(v4) \in Nat
    BY <1>1, <2>4, FS_CardinalityType
  <2>6. Cardinality(Hub!Arrived) + Cardinality(v4) < MaxArrivals
    BY <1>3, HubCardinality DEF Hub!MoreMayCome
  <2>7. QED BY <2>2, <2>5, <2>6
<1>6. /\ b \in Hub!Ask /\ b.by = c /\ b.id = id /\ b.pc = "run" /\ b.got = {} /\ b.at = 0
      /\ b.shares = FALSE
  <2>1. <<>> \in Seq(Hub!Conns) OBVIOUS
  <2>2. QED BY <1>2, <1>5, <2>1, HubCardinality DEF Hub!NewAsk, Hub!Ask
<1>7. Hub!TypeOK' BY <1>1, <1>3, <1>4, <1>6 DEF Hub!TypeOK
<1>8. IsFiniteSet(v4') BY <1>1, <1>3, FS_AddElement
<1>9. ConnsStay BY <1>3 DEF ConnsStay
<1>10. \A a \in v4 : AskIsFair(a)' BY <1>4, <1>9, AsksKept
<1>11. AskIsFair(b)' BY <1>3, <1>4, <1>6 DEF AskIsFair
<1>12. Registered' BY <1>1, <1>3, <1>4 DEF Registered, Is
<1>13. Apart'
  <2>1. \A a \in v4 : a.id = b.id /\ a.pc # "done" => a.id \in v5' BY <1>4, <1>6
  <2>2. \A d \in Hub!Conns : v1[d].id = b.id => b.id \in v5' BY <1>4, <1>6
  <2>3. QED BY <1>1, <1>3, <1>4, <2>1, <2>2 DEF Apart
<1>14. QED BY <1>3, <1>7, <1>8, <1>10, <1>11, <1>12, <1>13 DEF HubInv

\* A walk that saw the array change: it still is one of connections of the account, and
\* misses the asker only if connections moved.
LEMMA SeenIsFair ==
    ASSUME Hub!TypeOK, NEW a \in Hub!Ask, AskIsFair(a), a.shares, ConnsStay, v5' = v5, v6' = v6,
           NEW u \in Accounts, u = v1[a.by].user, NEW s \in Seq(Hub!Conns), v2'[u] = s,
           \A i \in DOMAIN s : Is(s[i], u)',
           NEW b \in Hub!Ask, b.by = a.by, b.id = a.id, b.got = a.got, b.pc = a.pc, b.at = a.at,
           a.moved => b.moved, Len(b.walk) = Len(a.walk),
           \A i \in 1 .. Len(b.walk) : b.walk[i] = IF i <= Len(s) THEN s[i] ELSE a.walk[i],
           ~ b.moved => Len(v2[u]) <= Len(s) /\ \A i \in 1 .. Len(v2[u]) : s[i] = v2[u][i]
    PROVE  AskIsFair(b)'
<1>1. /\ a.by \in Hub!Conns /\ a.got \subseteq Hub!Conns /\ a.walk \in Seq(Hub!Conns)
      /\ Len(a.walk) \in Nat /\ \A i \in 1 .. Len(a.walk) : a.walk[i] \in Hub!Conns
      /\ Len(s) \in Nat /\ v2[u] \in Seq(Hub!Conns) /\ Len(v2[u]) \in Nat
  BY HubTyped DEF Hub!Ask
<1>2. a.pc = "spread" /\ v1[a.by].pc # "out" /\ WalkIsFair(a) BY DEF AskIsFair
<1>3. v1'[a.by].pc # "out" /\ v1'[a.by].user = u BY <1>1, <1>2 DEF ConnsStay
<1>4. \A c \in Hub!Conns : Is(c, u) => Is(c, u)' BY DEF Is, ConnsStay
<1>5. Has(a) => Has(b)' BY <1>1, <1>2 DEF Has, ConnsStay
<1>6. \A i \in 1 .. Len(b.walk) : Is(b.walk[i], u)'
  <2>1. ASSUME NEW i \in 1 .. Len(b.walk) PROVE Is(b.walk[i], u)'
    <3>1. CASE i <= Len(s) BY <1>1, <2>1, <3>1
    <3>2. CASE ~ (i <= Len(s))
      <4>1. Is(a.walk[i], u)' BY <1>1, <1>2, <1>4, <2>1 DEF WalkIsFair
      <4>2. QED BY <2>1, <3>2, <4>1
    <3>3. QED BY <3>1, <3>2
  <2>2. QED BY <2>1
<1>7. Has(b)' \/ b.moved \/ \E i \in 1 .. Len(b.walk) : i > b.at /\ b.walk[i] = b.by
  <2>1. ASSUME ~ a.moved, ~ b.moved, NEW i \in 1 .. Len(a.walk), i > a.at, a.walk[i] = a.by
        PROVE  b.walk[i] = b.by
    <3>1. i <= Len(v2[u]) /\ a.walk[i] = v2[u][i] BY <1>1, <1>2, <2>1 DEF WalkIsFair
    <3>2. i \in 1 .. Len(v2[u]) /\ i \in 1 .. Len(b.walk) BY <1>1, <3>1
    <3>3. Len(v2[u]) <= Len(s) /\ \A j \in 1 .. Len(v2[u]) : s[j] = v2[u][j] BY <2>1
    <3>4. i <= Len(s) /\ s[i] = v2[u][i] BY <1>1, <3>2, <3>3
    <3>5. b.walk[i] = s[i] BY <3>2, <3>4
    <3>6. QED BY <2>1, <3>1, <3>4, <3>5
  <2>2. QED BY <1>2, <1>5, <2>1 DEF WalkIsFair
<1>8. b.shares /\ ~ b.moved =>
          Len(b.walk) <= Len(s) /\ \A i \in 1 .. Len(b.walk) : b.walk[i] = s[i]
  BY <1>1, <1>2 DEF WalkIsFair
<1>9. WalkIsFair(b)' BY <1>2, <1>3, <1>6, <1>7, <1>8 DEF WalkIsFair
<1>10. \A c \in b.got : c = b.by \/ b.id \in v5' \/ (v6' /\ Is(c, u)')
  BY <1>1, <1>4 DEF AskIsFair
<1>11. u # Anonymous /\ (b.id \in v5' \/ v6') BY <1>2 DEF AskIsFair
<1>12. QED BY <1>2, <1>3, <1>9, <1>10, <1>11 DEF AskIsFair

\* Each answer becomes one that is fair, with its id and at its stage.
LEMMA AsksMap ==
    ASSUME HubInv, NEW g \in [v4 -> Hub!Ask], v4' = {g[a] : a \in v4}, v5' = v5,
           \A a \in v4 : g[a].id = a.id /\ g[a].pc = a.pc /\ AskIsFair(g[a])',
           \A d \in Hub!Conns : v1'[d].pc = "refuse" =>
               v1[d].pc = "refuse" /\ v1'[d].id = v1[d].id
    PROVE  v4' \subseteq Hub!Ask /\ IsFiniteSet(v4') /\ Apart' /\ \A b \in v4' : AskIsFair(b)'
<1>1. g \in Surjection(v4, v4') BY DEF Surjection
<1>2. IsFiniteSet(v4') BY <1>1, FS_Surjection DEF HubInv
<1>3. Apart' BY DEF HubInv, Apart
<1>4. \A b \in v4' : AskIsFair(b)'
  <2>1. ASSUME NEW b \in v4' PROVE AskIsFair(b)'
    <3>1. PICK a \in v4 : b = g[a] OBVIOUS
    <3>2. QED BY <3>1
  <2>2. QED BY <2>1
<1>5. QED BY <1>2, <1>3, <1>4

LEMMA EnterHub ==
    ASSUME HubInv, NEW c \in Hub!Conns, NEW u \in Accounts, v1[c].pc = "out", ConnsStay,
           v1' = [v1 EXCEPT ![c] = Hub!Local("read", u, None)], Hub!Enter(c, u), v5' = v5, v6' = v6,
           v3' = v3,
           \A d \in Hub!Conns : v1'[d].pc = "refuse" =>
               v1[d].pc = "refuse" /\ v1'[d].id = v1[d].id
    PROVE  v4' \subseteq Hub!Ask /\ IsFiniteSet(v4') /\ Apart' /\ \A b \in v4' : AskIsFair(b)'
<1>1. Hub!TypeOK /\ Registered /\ v4 \subseteq Hub!Ask BY HubTyped DEF HubInv
<1>2. v2[u] \in Seq(Hub!Conns) /\ Len(v2[u]) \in Nat BY <1>1, HubTyped
<1>3. PICK s : s = Append(v2[u], c) OBVIOUS
<1>4. /\ s \in Seq(Hub!Conns) /\ Len(s) = Len(v2[u]) + 1 /\ s[Len(v2[u]) + 1] = c
      /\ \A i \in 1 .. Len(v2[u]) : s[i] = v2[u][i]
  BY <1>2, <1>3
<1>5. /\ v2' = [v2 EXCEPT ![u] = s]
      /\ v4' = {Hub!Sees(a, u, s) : a \in v4} \/ v4' = {Hub!Copied(a, u) : a \in v4}
  BY <1>3 DEF Hub!Enter
<1>6. v2'[u] = s /\ \A w \in Accounts \ {u} : v2'[w] = v2[w] BY <1>1, <1>5, HubTyped
<1>7. ASSUME NEW a \in v4, ~ a.shares \/ v1[a.by].user # u PROVE AskIsFair(a)'
  <2>1. AskIsFair(a) /\ a \in Hub!Ask /\ v1[a.by].user \in Accounts \cup {Anonymous}
    BY <1>1, HubTyped DEF HubInv
  <2>2. a.shares => v2'[v1[a.by].user] = v2[v1[a.by].user]
    BY <1>6, <1>7, <2>1 DEF AskIsFair
  <2>3. QED BY <1>1, <2>1, <2>2, AskKept
<1>8. CASE v4' = {Hub!Sees(a, u, s) : a \in v4}
  <2>1. PICK g : g = [a \in v4 |-> Hub!Sees(a, u, s)] OBVIOUS
  <2>2. g \in [v4 -> Hub!Ask] /\ v4' = {g[a] : a \in v4} BY <1>1, <1>4, <1>8, <2>1, SeesIs
  <2>3. ASSUME NEW a \in v4 PROVE g[a].id = a.id /\ g[a].pc = a.pc /\ AskIsFair(g[a])'
    <3>1. CASE a.shares /\ v1[a.by].user = u
      <4>1. AskIsFair(a) /\ a \in Hub!Ask BY <1>1 DEF HubInv
      <4>2. PICK w \in Seq(Hub!Conns) :
               /\ g[a] = [a EXCEPT !.walk = w] /\ Len(w) = Len(a.walk)
               /\ \A i \in 1 .. Len(w) : w[i] = IF i <= Len(s) THEN s[i] ELSE a.walk[i]
        BY <1>4, <2>1, <3>1, <4>1, SeesIs
      <4>3. PICK b : b = g[a] OBVIOUS
      <4>4. /\ b \in Hub!Ask /\ b.by = a.by /\ b.id = a.id /\ b.got = a.got /\ b.pc = a.pc
            /\ b.at = a.at /\ b.moved = a.moved /\ b.walk = w
        BY <4>1, <4>2, <4>3 DEF Hub!Ask
      <4>5. \A i \in DOMAIN s : Is(s[i], u)'
        <5>1. Is(c, u)'
          <6>1. v1'[c] = Hub!Local("read", u, None) BY <1>1, HubTyped
          <6>2. QED BY <6>1 DEF Is, Hub!Local
        <5>2. ASSUME NEW i \in 1 .. Len(v2[u]) PROVE Is(s[i], u)'
          <6>1. s[i] = v2[u][i] /\ s[i] \in Hub!Conns BY <1>2, <1>4
          <6>2. Is(s[i], u) BY <1>1, <1>2, <6>1 DEF Registered
          <6>3. QED BY <6>1, <6>2 DEF Is, ConnsStay
        <5>3. \A i \in 1 .. Len(s) : Is(s[i], u)'
          <6>1. \A i \in 1 .. Len(s) : i \in 1 .. Len(v2[u]) \/ s[i] = c BY <1>2, <1>4
          <6>2. QED BY <5>1, <5>2, <6>1
        <5>4. QED BY <1>4, <5>3
      <4>6. ~ b.moved => Len(v2[u]) <= Len(s) /\ \A i \in 1 .. Len(v2[u]) : s[i] = v2[u][i]
        BY <1>2, <1>4
      <4>7. /\ a.shares /\ u = v1[a.by].user /\ (a.moved => b.moved) /\ Len(b.walk) = Len(a.walk)
            /\ \A i \in 1 .. Len(b.walk) : b.walk[i] = IF i <= Len(s) THEN s[i] ELSE a.walk[i]
            /\ s \in Seq(Hub!Conns) /\ v2'[u] = s
        BY <1>4, <1>6, <3>1, <4>2, <4>4
      <4>8. AskIsFair(b)' BY <1>1, <4>1, <4>4, <4>5, <4>6, <4>7, SeenIsFair
      <4>9. QED BY <4>3, <4>4, <4>8
    <3>2. CASE ~ (a.shares /\ v1[a.by].user = u)
      <4>1. g[a] = a BY <1>1, <1>4, <2>1, <3>2, SeesIs
      <4>2. QED BY <1>7, <3>2, <4>1
    <3>3. QED BY <3>1, <3>2
  <2>4. QED BY <2>2, <2>3, AsksMap
<1>9. CASE v4' = {Hub!Copied(a, u) : a \in v4}
  <2>1. PICK g : g = [a \in v4 |-> Hub!Copied(a, u)] OBVIOUS
  <2>2. ASSUME NEW a \in v4
        PROVE  g[a] \in Hub!Ask /\ g[a].id = a.id /\ g[a].pc = a.pc /\ AskIsFair(g[a])'
    <3>1. AskIsFair(a) /\ a \in Hub!Ask BY <1>1 DEF HubInv
    <3>2. CASE v1[a.by].user = u
      <4>1. PICK b : b = [a EXCEPT !.shares = FALSE] OBVIOUS
      <4>2. g[a] = b BY <2>1, <3>2, <4>1 DEF Hub!Copied, Hub!User
      <4>3. /\ b \in Hub!Ask /\ b.by = a.by /\ b.id = a.id /\ b.got = a.got /\ b.pc = a.pc
            /\ b.at = a.at /\ b.moved = a.moved /\ b.walk = a.walk /\ b.shares = FALSE
            /\ b.to = a.to
        BY <3>1, <4>1 DEF Hub!Ask
      <4>4. AskIsFair(b) BY <3>1, <4>3 DEF AskIsFair, WalkIsFair, Has
      <4>5. AskIsFair(b)' BY <1>1, <4>3, <4>4, AskKept
      <4>6. QED BY <4>2, <4>3, <4>5
    <3>3. CASE v1[a.by].user # u
      <4>1. g[a] = a BY <2>1, <3>3 DEF Hub!Copied, Hub!User
      <4>2. QED BY <1>7, <3>1, <3>3, <4>1
    <3>4. QED BY <3>2, <3>3
  <2>3. g \in [v4 -> Hub!Ask] /\ v4' = {g[a] : a \in v4} BY <1>9, <2>1, <2>2
  <2>4. QED BY <2>2, <2>3, AsksMap
<1>10. QED BY <1>5, <1>8, <1>9

LEMMA ConnectHub ==
    ASSUME HubInv, NEW c \in Hub!Conns, NEW u \in Accounts \cup {Anonymous}, Hub!Connect(c, u)
    PROVE  HubInv'
<1>1. Hub!TypeOK /\ Registered /\ Apart BY DEF HubInv
<1>2. PICK n : n = Hub!Local("read", u, None) OBVIOUS
<1>3. /\ v1[c].pc = "out" /\ v1' = [v1 EXCEPT ![c] = n] /\ UNCHANGED <<v3, v5, v6>>
      /\ IF u = Anonymous THEN UNCHANGED <<v2, v4>> ELSE Hub!Enter(c, u)
  BY <1>2 DEF Hub!Connect
<1>4. n \in Hub!Conn /\ n.pc = "read" /\ n.user = u
  BY <1>2 DEF Hub!Local, Hub!Conn
<1>5. /\ v1' \in [Hub!Conns -> Hub!Conn] /\ ConnsStay
      /\ v1'[c] = n /\ \A d \in Hub!Conns : d # c => v1'[d] = v1[d]
  BY <1>1, <1>3, <1>4, ConnIs
<1>6. \A d \in Hub!Conns : v1'[d].pc = "refuse" =>
          v1[d].pc = "refuse" /\ v1'[d].id = v1[d].id
  BY <1>4, <1>5
<1>7. CASE u = Anonymous
  <2>1. UNCHANGED <<v2, v4>> BY <1>3, <1>7
  <2>2. Hub!TypeOK' BY <1>1, <1>3, <1>5, <2>1 DEF Hub!TypeOK
  <2>3. \A a \in v4 : AskIsFair(a)' BY <1>3, <1>5, <2>1, AsksKept
  <2>4. Registered'
    <3>1. \A w \in Accounts : \A i \in DOMAIN v2[w] : v2[w][i] \in Hub!Conns BY <1>1, HubTyped
    <3>2. QED BY <1>1, <1>3, <1>4, <1>5, <1>7, <2>1, <3>1 DEF Registered, Is
  <2>5. Apart' BY <1>1, <1>3, <1>6, <2>1 DEF Apart
  <2>6. QED BY <2>1, <2>2, <2>3, <2>4, <2>5 DEF HubInv
<1>8. CASE u # Anonymous
  <2>1. u \in Accounts /\ Hub!Enter(c, u) BY <1>3, <1>8
  <2>2. v4' \subseteq Hub!Ask /\ IsFiniteSet(v4') /\ Apart' /\ \A b \in v4' : AskIsFair(b)'
    BY <1>2, <1>3, <1>5, <1>6, <2>1, EnterHub
  <2>3. v2[u] \in Seq(Hub!Conns) /\ Len(v2[u]) \in Nat BY <1>1, <2>1, HubTyped
  <2>4. PICK s : s = Append(v2[u], c) OBVIOUS
  <2>5. v2' = [v2 EXCEPT ![u] = s] BY <2>1, <2>4 DEF Hub!Enter
  <2>6. /\ s \in Seq(Hub!Conns) /\ Len(s) = Len(v2[u]) + 1 /\ s[Len(v2[u]) + 1] = c
        /\ \A i \in 1 .. Len(v2[u]) : s[i] = v2[u][i]
    BY <2>3, <2>4
  <2>7. /\ v2' \in [Accounts -> Seq(Hub!Conns)]
        /\ v2'[u] = s /\ \A w \in Accounts : w # u => v2'[w] = v2[w]
    BY <1>1, <2>1, <2>5, <2>6, HubTyped
  <2>8. Hub!TypeOK' BY <1>1, <1>3, <1>5, <2>2, <2>7 DEF Hub!TypeOK
  <2>9. ASSUME NEW d \in Hub!Conns
        PROVE  /\ v1'[d].pc = "refuse" => v1'[d].id \in Ids
               /\ v1'[d].pc = "gone" => ~ v1'[d].alive
               /\ v1'[d].pc \in {"read", "refuse"} /\ v1'[d].user # Anonymous =>
                     \E i \in DOMAIN v2'[v1'[d].user] : v2'[v1'[d].user][i] = d
    <3>1. CASE d = c
      <4>1. Len(v2[u]) + 1 \in DOMAIN s BY <2>3, <2>6
      <4>2. QED BY <1>4, <1>5, <2>6, <2>7, <3>1, <4>1
    <3>2. CASE d # c
      <4>1. v1'[d] = v1[d] BY <1>5, <3>2
      <4>2. ASSUME v1[d].user = u, NEW i \in DOMAIN v2[u], v2[u][i] = d
            PROVE  \E j \in DOMAIN s : s[j] = d
        <5>1. i \in DOMAIN s /\ s[i] = d BY <2>3, <2>6, <4>2
        <5>2. QED BY <5>1
      <4>3. v1[d].user \in Accounts \cup {Anonymous} BY <1>1, HubTyped
      <4>4. QED BY <1>1, <2>7, <4>1, <4>2, <4>3 DEF Registered
    <3>3. QED BY <3>1, <3>2
  <2>10. ASSUME NEW w \in Accounts, NEW i \in DOMAIN v2'[w] PROVE Is(v2[w][i], w)'
    <3>1. CASE w = u
      <4>1. CASE s[i] = c BY <1>4, <1>5, <2>7, <3>1, <4>1 DEF Is
      <4>2. CASE s[i] # c
        <5>1. i \in DOMAIN v2[u] /\ s[i] = v2[u][i] BY <2>3, <2>6, <2>7, <2>10, <3>1, <4>2
        <5>2. Is(s[i], u) /\ s[i] \in Hub!Conns BY <1>1, <2>1, <2>3, <5>1 DEF Registered
        <5>3. QED BY <1>5, <2>7, <3>1, <5>2 DEF Is, ConnsStay
      <4>3. QED BY <4>1, <4>2
    <3>2. CASE w # u
      <4>1. v2'[w] = v2[w] /\ v2[w] \in Seq(Hub!Conns) BY <1>1, <2>7, <3>2, HubTyped
      <4>2. Is(v2[w][i], w) /\ v2[w][i] \in Hub!Conns BY <1>1, <2>10, <4>1 DEF Registered
      <4>3. QED BY <1>5, <4>1, <4>2 DEF Is, ConnsStay
    <3>3. QED BY <3>1, <3>2
  <2>11. Registered' BY <2>9, <2>10 DEF Registered
  <2>12. QED BY <2>2, <2>8, <2>11 DEF HubInv
<1>9. QED BY <1>7, <1>8

LEMMA ExitHub ==
    ASSUME HubInv, NEW c \in Hub!Conns, NEW u \in Accounts, ConnsStay, Hub!Exit(c, u),
           v5' = v5, v6' = v6, v3' = v3, \E i \in DOMAIN v2[u] : v2[u][i] = c,
           \A d \in Hub!Conns : v1'[d].pc = "refuse" =>
               v1[d].pc = "refuse" /\ v1'[d].id = v1[d].id
    PROVE  v4' \subseteq Hub!Ask /\ IsFiniteSet(v4') /\ Apart' /\ \A b \in v4' : AskIsFair(b)'
<1>1. Hub!TypeOK /\ Registered /\ v4 \subseteq Hub!Ask BY HubTyped DEF HubInv
<1>2. v2[u] \in Seq(Hub!Conns) BY <1>1, HubTyped
<1>3. PICK s : s = Hub!Without(v2[u], c) OBVIOUS
<1>4. s \in Seq(Hub!Conns) /\ \A j \in DOMAIN s : \E i \in DOMAIN v2[u] : s[j] = v2[u][i]
  BY <1>2, <1>3, WithoutOne
<1> DEFINE Moved(a) == IF a.shares /\ v1[a.by].user = u THEN [a EXCEPT !.moved = TRUE] ELSE a
<1>5. /\ v2' = [v2 EXCEPT ![u] = s]
      /\ v4' = {Moved(Hub!Sees(a, u, s)) : a \in v4}
  BY <1>3 DEF Hub!Exit, Hub!User
<1>6. v2'[u] = s /\ \A w \in Accounts \ {u} : v2'[w] = v2[w] BY <1>1, <1>5, HubTyped
<1>7. \A i \in DOMAIN s : Is(s[i], u)'
  <2>1. ASSUME NEW i \in DOMAIN s PROVE Is(s[i], u)'
    <3>1. s[i] \in Hub!Conns /\ Is(s[i], u) BY <1>1, <1>2, <1>4 DEF Registered
    <3>2. QED BY <3>1 DEF Is, ConnsStay
  <2>2. QED BY <2>1
<1>8. PICK g : g = [a \in v4 |-> Moved(Hub!Sees(a, u, s))] OBVIOUS
<1>9. ASSUME NEW a \in v4
      PROVE  g[a] \in Hub!Ask /\ g[a].id = a.id /\ g[a].pc = a.pc /\ AskIsFair(g[a])'
  <2>1. AskIsFair(a) /\ a \in Hub!Ask /\ v1[a.by].user \in Accounts \cup {Anonymous}
    BY <1>1, HubTyped DEF HubInv
  <2>2. CASE a.shares /\ v1[a.by].user = u
    <3>1. PICK w \in Seq(Hub!Conns) :
             /\ Hub!Sees(a, u, s) = [a EXCEPT !.walk = w] /\ Len(w) = Len(a.walk)
             /\ \A i \in 1 .. Len(w) : w[i] = IF i <= Len(s) THEN s[i] ELSE a.walk[i]
      BY <1>4, <2>1, <2>2, SeesIs
    <3>2. PICK b : b = [a EXCEPT !.walk = w, !.moved = TRUE] OBVIOUS
    <3>3. /\ b \in Hub!Ask /\ b.by = a.by /\ b.id = a.id /\ b.got = a.got /\ b.pc = a.pc
          /\ b.at = a.at /\ b.moved = TRUE /\ b.walk = w
      BY <2>1, <3>1, <3>2 DEF Hub!Ask
    <3>4. g[a] = b
      <4>1. PICK e : e = [a EXCEPT !.walk = w] OBVIOUS
      <4>2. e.shares = a.shares /\ e.by = a.by BY <2>1, <4>1 DEF Hub!Ask
      <4>3. Moved(e) = [e EXCEPT !.moved = TRUE] BY <2>2, <4>2
      <4>4. g[a] = Moved(e) BY <1>8, <3>1, <4>1
      <4>5. [e EXCEPT !.moved = TRUE] = b BY <3>2, <4>1
      <4>6. QED BY <4>3, <4>4, <4>5
    <3>5. /\ a.shares /\ u = v1[a.by].user /\ (a.moved => b.moved) /\ Len(b.walk) = Len(a.walk)
          /\ \A i \in 1 .. Len(b.walk) : b.walk[i] = IF i <= Len(s) THEN s[i] ELSE a.walk[i]
          /\ s \in Seq(Hub!Conns) /\ v2'[u] = s
      BY <1>4, <1>6, <2>2, <3>1, <3>3
    <3>6. ~ b.moved => Len(v2[u]) <= Len(s) /\ \A i \in 1 .. Len(v2[u]) : s[i] = v2[u][i]
      BY <3>3
    <3>7. AskIsFair(b)' BY <1>1, <1>7, <2>1, <3>3, <3>5, <3>6, SeenIsFair
    <3>8. QED BY <3>3, <3>4, <3>7
  <2>3. CASE ~ (a.shares /\ v1[a.by].user = u)
    <3>1. g[a] = a
      <4>1. Hub!Sees(a, u, s) = a BY <1>4, <2>1, <2>3, SeesIs
      <4>2. QED BY <1>8, <2>3, <4>1
    <3>2. a.shares => v2'[v1[a.by].user] = v2[v1[a.by].user]
      BY <1>6, <2>1, <2>3 DEF AskIsFair
    <3>3. AskIsFair(a)' BY <1>1, <2>1, <3>2, AskKept
    <3>4. QED BY <2>1, <3>1, <3>3
  <2>4. QED BY <2>2, <2>3
<1> HIDE DEF Moved
<1>10. g \in [v4 -> Hub!Ask] /\ v4' = {g[a] : a \in v4} BY <1>5, <1>8, <1>9
<1>11. QED BY <1>9, <1>10, AsksMap

LEMMA LeaveHub ==
    ASSUME HubInv, NEW c \in Hub!Conns, Hub!Leave(c) PROVE HubInv'
<1>1. Hub!TypeOK /\ Registered /\ Apart BY DEF HubInv
<1>2. PICK n : n = [v1[c] EXCEPT !.pc = "gone"] OBVIOUS
<1>u. PICK u : u = v1[c].user OBVIOUS
<1>3. /\ v1[c].pc = "read" /\ ~ v1[c].alive /\ v1' = [v1 EXCEPT ![c] = n]
      /\ UNCHANGED <<v3, v5, v6>>
      /\ IF u = Anonymous THEN UNCHANGED <<v2, v4>> ELSE Hub!Exit(c, u)
  BY <1>1, <1>2, <1>u DEF Hub!Leave, Hub!User, Hub!TypeOK
<1>4. n \in Hub!Conn /\ n.pc = "gone" /\ n.user = u /\ n.alive = v1[c].alive
  BY <1>1, <1>2, <1>u, HubTyped DEF Hub!Conn
<1>5. /\ v1' \in [Hub!Conns -> Hub!Conn] /\ ConnsStay
      /\ v1'[c] = n /\ \A d \in Hub!Conns : d # c => v1'[d] = v1[d]
  BY <1>1, <1>3, <1>4, <1>u, ConnIs
<1>6. \A d \in Hub!Conns : v1'[d].pc = "refuse" =>
          v1[d].pc = "refuse" /\ v1'[d].id = v1[d].id
  BY <1>4, <1>5
<1>7. CASE u = Anonymous
  <2>1. UNCHANGED <<v2, v4>> BY <1>3, <1>7
  <2>2. Hub!TypeOK' BY <1>1, <1>3, <1>5, <2>1 DEF Hub!TypeOK
  <2>3. \A a \in v4 : AskIsFair(a)' BY <1>3, <1>5, <2>1, AsksKept
  <2>4. Registered'
    <3>1. \A w \in Accounts : \A i \in DOMAIN v2[w] : v2[w][i] \in Hub!Conns BY <1>1, HubTyped
    <3>2. QED BY <1>1, <1>3, <1>4, <1>5, <1>u, <2>1, <3>1 DEF Registered, Is
  <2>5. Apart' BY <1>1, <1>3, <1>6, <2>1 DEF Apart
  <2>6. QED BY <2>1, <2>2, <2>3, <2>4, <2>5 DEF HubInv
<1>8. CASE u # Anonymous
  <2>1. u \in Accounts /\ Hub!Exit(c, u) BY <1>1, <1>3, <1>8, <1>u, HubTyped
  <2>2. \E i \in DOMAIN v2[u] : v2[u][i] = c BY <1>1, <1>3, <1>8, <1>u DEF Registered
  <2>3. v4' \subseteq Hub!Ask /\ IsFiniteSet(v4') /\ Apart' /\ \A b \in v4' : AskIsFair(b)'
    BY <1>3, <1>5, <1>6, <2>1, <2>2, ExitHub
  <2>4. v2[u] \in Seq(Hub!Conns) BY <1>1, <2>1, HubTyped
  <2>5. PICK s : s = Hub!Without(v2[u], c) OBVIOUS
  <2>6. v2' = [v2 EXCEPT ![u] = s] BY <2>1, <2>5 DEF Hub!Exit
  <2>7. /\ s \in Seq(Hub!Conns)
        /\ \A j \in DOMAIN s : \E i \in DOMAIN v2[u] : s[j] = v2[u][i]
        /\ \A i \in DOMAIN v2[u] : v2[u][i] # c => \E j \in DOMAIN s : s[j] = v2[u][i]
    BY <2>2, <2>4, <2>5, WithoutOne
  <2>8. /\ v2' \in [Accounts -> Seq(Hub!Conns)]
        /\ v2'[u] = s /\ \A w \in Accounts : w # u => v2'[w] = v2[w]
    BY <1>1, <2>1, <2>6, <2>7, HubTyped
  <2>9. Hub!TypeOK' BY <1>1, <1>3, <1>5, <2>3, <2>8 DEF Hub!TypeOK
  <2>10. ASSUME NEW d \in Hub!Conns
        PROVE  /\ v1'[d].pc = "refuse" => v1'[d].id \in Ids
               /\ v1'[d].pc = "gone" => ~ v1'[d].alive
               /\ v1'[d].pc \in {"read", "refuse"} /\ v1'[d].user # Anonymous =>
                     \E i \in DOMAIN v2'[v1'[d].user] : v2'[v1'[d].user][i] = d
    <3>1. CASE d = c BY <1>3, <1>4, <1>5, <3>1
    <3>2. CASE d # c
      <4>1. v1'[d] = v1[d] BY <1>5, <3>2
      <4>2. ASSUME v1[d].user = u, NEW i \in DOMAIN v2[u], v2[u][i] = d
            PROVE  \E j \in DOMAIN s : s[j] = d
        BY <2>7, <3>2, <4>2
      <4>3. v1[d].user \in Accounts \cup {Anonymous} BY <1>1, HubTyped
      <4>4. QED BY <1>1, <2>8, <4>1, <4>2, <4>3 DEF Registered
    <3>3. QED BY <3>1, <3>2
  <2>11. ASSUME NEW w \in Accounts, NEW i \in DOMAIN v2'[w] PROVE Is(v2[w][i], w)'
    <3>1. CASE w = u
      <4>1. i \in DOMAIN s BY <2>8, <2>11, <3>1
      <4>2. Is(s[i], u) /\ s[i] \in Hub!Conns BY <1>1, <2>1, <2>4, <2>7, <4>1 DEF Registered
      <4>3. QED BY <1>5, <2>8, <3>1, <4>2 DEF Is, ConnsStay
    <3>2. CASE w # u
      <4>1. v2'[w] = v2[w] /\ v2[w] \in Seq(Hub!Conns) BY <1>1, <2>8, <3>2, HubTyped
      <4>2. Is(v2[w][i], w) /\ v2[w][i] \in Hub!Conns BY <1>1, <2>11, <4>1 DEF Registered
      <4>3. QED BY <1>5, <4>1, <4>2 DEF Is, ConnsStay
    <3>3. QED BY <3>1, <3>2
  <2>12. Registered' BY <2>10, <2>11 DEF Registered
  <2>13. QED BY <2>3, <2>9, <2>12 DEF HubInv
<1>9. QED BY <1>7, <1>8

LEMMA HubInit == Hub!Init => HubInv
<1>1. ASSUME Hub!Init PROVE HubInv
  <2>1. v1 = [c \in Hub!Conns |-> Hub!Local("out", Anonymous, None)] /\ v2 = [u \in Accounts |-> <<>>]
    BY <1>1 DEF Hub!Init
  <2>2. v3 = [id \in Ids |-> None] /\ v4 = {} /\ v5 = {} /\ v6 = FALSE
    BY <1>1 DEF Hub!Init
  <2>3. <<>> \in Seq(Hub!Conns) /\ DOMAIN <<>> = {} OBVIOUS
  <2>4. Hub!Local("out", Anonymous, None) \in Hub!Conn BY DEF Hub!Local, Hub!Conn
  <2>5. Hub!TypeOK BY <2>1, <2>2, <2>3, <2>4 DEF Hub!TypeOK
  <2>6. IsFiniteSet(v4) BY <2>2, FS_EmptySet
  <2>7. Registered
    <3>1. \A c \in Hub!Conns : v1[c].pc = "out" BY <2>1 DEF Hub!Local
    <3>2. \A u \in Accounts : DOMAIN v2[u] = {} BY <2>1, <2>3
    <3>3. QED BY <3>1, <3>2 DEF Registered
  <2>8. Apart /\ \A a \in v4 : AskIsFair(a) BY <2>2 DEF Apart
  <2>9. QED BY <2>5, <2>6, <2>7, <2>8 DEF HubInv
<1>2. QED BY <1>1

LEMMA HubNext == HubInv /\ (Hub!Next \/ UNCHANGED <<v1, v2, v3, v4, v5, v6>>) => HubInv'
<1>1. ASSUME HubInv, NEW c \in Hub!Conns, Hub!HandleClientConn(c) PROVE HubInv'
  BY <1>1, ConnectHub, BreakHub, LeaveHub, RefuseHub, RequestHub, RequestUnknownHub
     DEF Hub!HandleClientConn
<1>2. ASSUME HubInv, NEW a \in v4, Hub!Reply(a) PROVE HubInv'
  BY <1>2, LookupHub, SendReplyHub, ForgetHub, FallbackHub, SpreadHub, EndSpreadHub
     DEF Hub!Reply
<1>3. ASSUME HubInv, UNCHANGED <<v1, v2, v3, v4, v5, v6>> PROVE HubInv'
  BY <1>3 DEF HubInv, Hub!TypeOK, Registered, Apart, AskIsFair, WalkIsFair, Has, Is
<1>4. QED BY <1>1, <1>2, <1>3, CleanHub DEF Hub!Next

\* The stages and the register, carried to what was promised.
LEMMA HubPromises == HubInv => Hub!RepliesGoHome /\ Hub!AskerIsAnswered
<1>1. ASSUME HubInv, NEW a \in v4
      PROVE  /\ \A c \in a.got : c = a.by \/ a.id \in v5 \/ (v6 /\ v1[c].user = v1[a.by].user)
             /\ a.pc = "done" =>
                   \/ a.by \in a.got \/ ~ v1[a.by].alive \/ a.id \in v5
                   \/ v6 /\ (v1[a.by].user = Anonymous \/ a.moved)
  <2>1. AskIsFair(a) BY <1>1 DEF HubInv
  <2>2. QED BY <2>1 DEF AskIsFair, Is, Has
<1>2. QED BY <1>1 DEF Hub!RepliesGoHome, Hub!AskerIsAnswered, Hub!User

LEMMA HubHolds == Spec => [](under = "hub" => HubInv)
<1>1. Init => (under = "hub" => HubInv) BY HubInit DEF Init
<1>2. (under = "hub" => HubInv) /\ [Next]_vars => (under = "hub" => HubInv)'
  <2>1. ASSUME under = "hub" => HubInv, [Next]_vars, under' = "hub" PROVE HubInv'
    BY <2>1, StepOfPart, HubNext
  <2>2. QED BY <2>1
<1>3. QED BY <1>1, <1>2, PTL DEF Spec

\* For any number of accounts, connections and requests: an answer goes to the socket that
\* asked, or its id was sent again too early, or connMap was cleaned, and then it goes to
\* sockets of the account only, also while these come and go (hub.go, Reply and ReplyError).
THEOREM RepliesDoGoHome == Spec => []RepliesGoHome
<1>1. (under = "hub" => HubInv) => RepliesGoHome BY HubPromises DEF RepliesGoHome
<1>2. QED BY <1>1, HubHolds, PTL

\* For any number of them: who asked and is still connected is answered, but for an id
\* that was sent again too early, and for a cleaned connMap when the connection has no
\* account or another of the account closed during the fallback (hub.go, lines 177-185).
THEOREM AskersAreAnswered == Spec => []AskerIsAnswered
<1>1. (under = "hub" => HubInv) => AskerIsAnswered BY HubPromises DEF AskerIsAnswered
<1>2. QED BY <1>1, HubHolds, PTL
-----------------------------------------------------------------------------
(* The cookie of a session *)

\* Rows, cookie and requests hold numbers that were drawn, each row its own; a tab without
\* a request holds nothing, and one whose request is not answered has no answer.
Drawn ==
    /\ \A r \in v3 : r.id <= v5 /\ r.token <= v5
    /\ \A r, q \in v3 : r.id = q.id \/ r.token = q.token => r = q
    /\ \A t \in Actors :
          /\ v4[t].pc = "idle" => v4[t] = Web!Idle
          /\ v4[t].token <= v5 /\ v4[t].id <= v5 /\ v4[t].answer.id <= v5
          /\ \A j \in v4[t].answer.jar : j <= v5
          /\ v4[t].pc \in {"sent", "rotate"} => v4[t].answer = Web!Plain

\* The session that the answer to a login tells of is known to nobody else.
Private(t) ==
    v4[t].pc = "answered" /\ v4[t].kind = "login" /\ v4[t].answer.id # 0 =>
        LET k == v4[t].answer.id
        IN /\ v4[t].answer.jar = {k} /\ k <= v5 /\ v1 # k
           /\ \A r \in v3 : r.id = k \/ r.token = k => r.id = k /\ r.token = k
           /\ \A s \in Actors \ {t} :
                 v4[s].token # k /\ v4[s].id # k /\ k \notin v4[s].answer.jar

\* What the cookie and the session given last are when the answer has come.
JarAfter(t) == IF v4[t].answer.jar = {} THEN {v1} ELSE v4[t].answer.jar
MineAfter(t) == IF v4[t].answer.id # 0 THEN v4[t].answer.id ELSE v6

\* One tab at a time: its request has the cookie, which it replaces only if there is one,
\* or by a login.
Alone ==
    /\ \A s, t \in Actors : v4[s].pc # "idle" /\ v4[t].pc # "idle" => s = t
    /\ \A t \in Actors :
          /\ v4[t].pc \in {"sent", "rotate"} => v4[t].token = v1
          /\ v4[t].pc = "rotate" => v1 # 0
          /\ v4[t].pc = "answered" /\ v4[t].kind # "login" =>
                v1 # 0 \/ v4[t].answer.jar \subseteq {0}

Waits == \A t \in Actors : v4[t].pc \in {"idle", "sent"}

\* The session given last, if it is open, is the one that the cookie opens.
Opens(id, token) == \A r \in v3 : r.id = id => r.token = token

MineIsOpened ==
    /\ Waits => Opens(v6, v1)
    /\ \A t \in Actors :
          /\ v4[t].pc = "rotate" => \A r \in v3 : r.id = v6 => r.id = v4[t].id
          /\ v4[t].pc = "answered" => \A j \in JarAfter(t) : Opens(MineAfter(t), j)

\* The cookie opens a session.
Works(token) == token = 0 \/ \E r \in v3 : r.token = token

CookieWorks ==
    /\ Waits => Works(v1)
    /\ \A t \in Actors :
          /\ v4[t].pc = "rotate" => \E r \in v3 : r.id = v4[t].id
          /\ v4[t].pc = "answered" => \A j \in JarAfter(t) : Works(j)

WebInv == /\ Web!TypeOK /\ Drawn /\ \A t \in Actors : Private(t)
          /\ "overlap" \notin v7 => Alone
          /\ v7 \cap {"overlap", "fault"} = {} => MineIsOpened
          /\ v7 = {} => CookieWorks

LEMMA WebTyped ==
    ASSUME Web!TypeOK
    PROVE  /\ MaxTokens \in Nat /\ v5 \in Nat /\ v5 <= MaxTokens
           /\ v1 \in Nat /\ v1 <= v5 /\ v6 \in Nat /\ v6 <= v5
           /\ v3 \subseteq Web!Row /\ v4 \in [Actors -> Web!Call] /\ v7 \subseteq Web!Causes
           /\ \A r \in v3 : r.id \in Nat \ {0} /\ r.token \in Nat \ {0}
           /\ \A t \in Actors :
                 /\ v4[t].pc \in {"idle", "sent", "rotate", "answered"}
                 /\ v4[t].token \in Nat /\ v4[t].id \in Nat /\ v4[t].answer.id \in Nat
                 /\ v4[t].answer.jar \subseteq Nat /\ v4[t].bearer \in BOOLEAN
<1>1. MaxTokens \in Nat BY BoundsAssumption
<1>2. QED BY <1>1 DEF Web!TypeOK, Web!Row, Web!Token, Web!Call, Web!Answer

LEMMA CallIs ==
    ASSUME Web!TypeOK, NEW t \in Actors, NEW n \in Web!Call, v4' = [v4 EXCEPT ![t] = n]
    PROVE  /\ v4' \in [Actors -> Web!Call]
           /\ v4'[t] = n /\ \A s \in Actors : s # t => v4'[s] = v4[s]
BY WebTyped

LEMMA PlainAnswers ==
    /\ Web!Plain \in Web!Answer /\ Web!Plain.jar = {} /\ Web!Plain.id = 0
    /\ Web!Cleared \in Web!Answer /\ Web!Cleared.jar = {0} /\ Web!Cleared.id = 0
    /\ Web!Idle \in Web!Call /\ Web!Idle.pc = "idle" /\ Web!Idle.token = 0 /\ Web!Idle.id = 0
    /\ Web!Idle.answer = Web!Plain
<1>1. MaxTokens \in Nat BY BoundsAssumption
<1>2. Web!Plain \in Web!Answer /\ Web!Plain.jar = {} /\ Web!Plain.id = 0
  BY <1>1 DEF Web!Plain, Web!Answer
<1>3. Web!Cleared \in Web!Answer /\ Web!Cleared.jar = {0} /\ Web!Cleared.id = 0
  BY <1>1 DEF Web!Cleared, Web!Answer
<1>4. /\ Web!Idle \in Web!Call /\ Web!Idle.pc = "idle" /\ Web!Idle.token = 0 /\ Web!Idle.id = 0
      /\ Web!Idle.answer = Web!Plain
  BY <1>1, <1>2 DEF Web!Idle, Web!Call
<1>5. QED BY <1>2, <1>3, <1>4

\* The rows afterwards are some of those before, but for one with the token just drawn:
\* it is new, or the one that the request has read.
OpenRowsMove(t) ==
    \A r \in v3' : \/ r \in v3
                  \/ /\ v5' = v5 + 1 /\ r.token = v5'
                     /\ r.id = v5' \/ (v4[t].id # 0 /\ r.id = v4[t].id)

\* A handler answers.
LEMMA RespondWeb ==
    ASSUME WebInv, NEW t \in Actors, v4[t].pc \in {"sent", "rotate"}, NEW a \in Web!Answer,
           Web!Respond(t, a), UNCHANGED <<v1, v2, v6>>,
           v5' = v5 \/ v5' = v5 + 1, v5' <= MaxTokens, v7 \subseteq v7', v7' \subseteq Web!Causes,
           v3' \subseteq Web!Row, \A r \in v3' : r.id <= v5' /\ r.token <= v5',
           \A r, q \in v3' : r.id = q.id \/ r.token = q.token => r = q, OpenRowsMove(t),
           a.jar \subseteq {0} \/ (v5' = v5 + 1 /\ a.jar = {v5'}), a.id <= v5',
           v4[t].kind = "login" /\ a.id # 0 =>
               /\ v5' = v5 + 1 /\ a.id = v5' /\ a.jar = {v5'}
               /\ \A r \in v3' : r.id = v5' \/ r.token = v5' => r.id = v5' /\ r.token = v5',
           "overlap" \notin v7' /\ v4[t].kind # "login" => v1 # 0 \/ a.jar \subseteq {0},
           v7' \cap {"overlap", "fault"} = {} =>
               \A j \in IF a.jar = {} THEN {v1} ELSE a.jar : \A r \in v3' :
                   r.id = (IF a.id # 0 THEN a.id ELSE v6) => r.token = j,
           v7' = {} => \A j \in IF a.jar = {} THEN {v1} ELSE a.jar :
                           j = 0 \/ \E r \in v3' : r.token = j
    PROVE  WebInv'
<1>1. Web!TypeOK /\ Drawn BY DEF WebInv
<1>2. PICK n : n = [v4[t] EXCEPT !.pc = "answered", !.answer = a, !.token = 0, !.id = 0] OBVIOUS
<1>3. v4' = [v4 EXCEPT ![t] = n] BY <1>1, <1>2, WebTyped DEF Web!Respond
<1>4. /\ n \in Web!Call /\ n.pc = "answered" /\ n.answer = a /\ n.token = 0 /\ n.id = 0
      /\ n.kind = v4[t].kind
  <2>1. v4[t] \in Web!Call BY <1>1, WebTyped
  <2>2. 0 \in 0 .. MaxTokens BY <1>1, WebTyped
  <2>3. QED BY <1>2, <2>1, <2>2 DEF Web!Call
<1>5. /\ v4' \in [Actors -> Web!Call]
      /\ v4'[t] = n /\ \A s \in Actors : s # t => v4'[s] = v4[s]
  BY <1>1, <1>3, <1>4, CallIs
<1>6. /\ MaxTokens \in Nat /\ v5 \in Nat /\ v5' \in Nat /\ v5 <= v5'
      /\ v1 \in 0 .. v5' /\ v6 \in 0 .. v5'
  BY <1>1, WebTyped
<1>7. Web!TypeOK' BY <1>1, <1>5, <1>6 DEF Web!TypeOK
<1>8. Drawn'
  <2>1. \A s \in Actors :
          /\ v4[s].token \in Nat /\ v4[s].id \in Nat /\ v4[s].answer.id \in Nat
          /\ v4[s].answer.jar \subseteq Nat
    BY <1>1, WebTyped
  <2>2. \A j \in a.jar : j <= v5' BY <1>6
  <2>3. \A s \in Actors :
          /\ v4'[s].pc = "idle" => v4'[s] = Web!Idle
          /\ v4'[s].token <= v5' /\ v4'[s].id <= v5' /\ v4'[s].answer.id <= v5'
          /\ \A j \in v4'[s].answer.jar : j <= v5'
          /\ v4'[s].pc \in {"sent", "rotate"} => v4'[s].answer = Web!Plain
    BY <1>1, <1>4, <1>5, <1>6, <2>1, <2>2 DEF Drawn
  <2>4. QED BY <2>3 DEF Drawn
<1>9. ASSUME NEW s \in Actors PROVE Private(s)'
  <2>1. CASE s = t
    <3>1. \A q \in Actors : q # t =>
             v4[q].token # v5 + 1 /\ v4[q].id # v5 + 1 /\ v5 + 1 \notin v4[q].answer.jar
      <4>1. \A q \in Actors :
              /\ v4[q].token \in Nat /\ v4[q].id \in Nat /\ v4[q].answer.jar \subseteq Nat
        BY <1>1, WebTyped
      <4>2. QED BY <1>1, <1>6, <4>1 DEF Drawn
    <3>2. v1 # v5 + 1 BY <1>1, WebTyped
    <3>3. QED BY <1>4, <1>5, <1>6, <2>1, <3>1, <3>2 DEF Private
  <2>2. CASE s # t
    <3>1. PICK k : k = v4[s].answer.id OBVIOUS
    <3>2. ASSUME v4[s].pc = "answered", v4[s].kind = "login", k # 0
          PROVE  /\ v4[s].answer.jar = {k} /\ k <= v5' /\ v1 # k
                 /\ \A r \in v3' : r.id = k \/ r.token = k => r.id = k /\ r.token = k
                 /\ \A q \in Actors \ {s} :
                       v4'[q].token # k /\ v4'[q].id # k /\ k \notin v4'[q].answer.jar
      <4>1. /\ v4[s].answer.jar = {k} /\ k <= v5 /\ v1 # k
            /\ \A r \in v3 : r.id = k \/ r.token = k => r.id = k /\ r.token = k
            /\ \A q \in Actors \ {s} :
                  v4[q].token # k /\ v4[q].id # k /\ k \notin v4[q].answer.jar
        BY <3>1, <3>2 DEF WebInv, Private
      <4>2. k \in Nat /\ k # v5 + 1 BY <1>1, <1>6, <3>1, <4>1, WebTyped
      <4>3. \A r \in v3' : r.id = k \/ r.token = k => r.id = k /\ r.token = k
        BY <2>2, <4>1, <4>2 DEF OpenRowsMove
      <4>4. k \notin a.jar BY <3>2, <4>2
      <4>5. QED BY <1>4, <1>5, <1>6, <3>2, <4>1, <4>2, <4>3, <4>4
    <3>3. QED BY <1>5, <2>2, <3>1, <3>2 DEF Private
  <2>3. QED BY <2>1, <2>2
<1>10. "overlap" \notin v7' => Alone'
  BY <1>4, <1>5 DEF WebInv, Alone
<1>11. ASSUME "overlap" \notin v7' PROVE \A s \in Actors : s # t => v4'[s].pc = "idle"
  BY <1>5, <1>11, WebTyped DEF WebInv, Alone
<1>12. ASSUME v7' \cap {"overlap", "fault"} = {} PROVE MineIsOpened'
  <2>1. \A s \in Actors : s # t => v4'[s].pc = "idle" BY <1>11, <1>12
  <2>2. \A j \in JarAfter(t)' : Opens(MineAfter(t), j)'
    BY <1>4, <1>5, <1>12 DEF JarAfter, MineAfter, Opens
  <2>3. QED BY <1>4, <1>5, <2>1, <2>2 DEF MineIsOpened, Waits
<1>13. ASSUME v7' = {} PROVE CookieWorks'
  <2>1. \A s \in Actors : s # t => v4'[s].pc = "idle" BY <1>11, <1>13
  <2>2. \A j \in JarAfter(t)' : Works(j)' BY <1>4, <1>5, <1>13 DEF JarAfter, Works
  <2>3. QED BY <1>4, <1>5, <2>1, <2>2 DEF CookieWorks, Waits
<1>14. QED BY <1>7, <1>8, <1>9, <1>10, <1>12, <1>13 DEF WebInv

\* What a request finds that is not answered yet.
LEMMA BeforeAnswer ==
    ASSUME WebInv, NEW t \in Actors, v4[t].pc \in {"sent", "rotate"}
    PROVE  /\ "overlap" \notin v7 => /\ v4[t].token = v1
                                     /\ v4[t].pc = "rotate" => v1 # 0
           /\ v4[t].pc = "sent" /\ v7 \cap {"overlap", "fault"} = {} => Opens(v6, v1)
           /\ v4[t].pc = "sent" /\ v7 = {} => Works(v1)
<1>1. ASSUME "overlap" \notin v7 PROVE \A s \in Actors : s # t => v4[s].pc = "idle"
  BY <1>1 DEF WebInv, Alone
<1>2. v4[t].pc = "sent" /\ "overlap" \notin v7 => Waits BY <1>1 DEF Waits
<1>3. "overlap" \notin v7 => /\ v4[t].token = v1
                             /\ v4[t].pc = "rotate" => v1 # 0
  BY DEF WebInv, Alone
<1>4. v4[t].pc = "sent" /\ v7 \cap {"overlap", "fault"} = {} => Opens(v6, v1)
  BY <1>2 DEF WebInv, MineIsOpened
<1>5. v4[t].pc = "sent" /\ v7 = {} => Works(v1)
  BY <1>2 DEF WebInv, CookieWorks
<1>6. QED BY <1>3, <1>4, <1>5

\* A handler changes nothing and leaves the cookie.
LEMMA LeavesCookie ==
    ASSUME WebInv, NEW t \in Actors, v4[t].pc \in {"sent", "rotate"},
           Web!Respond(t, Web!Plain), UNCHANGED <<v1, v2, v3, v6>>,
           v5' = v5 \/ v5' = v5 + 1, v5' <= MaxTokens, v7 \subseteq v7', v7' \subseteq Web!Causes,
           v4[t].pc = "sent" \/ "fault" \in v7'
    PROVE  WebInv'
<1>1. Web!TypeOK /\ Drawn BY DEF WebInv
<1>2. v3' \subseteq Web!Row /\ \A r \in v3' : r.id <= v5' /\ r.token <= v5'
  BY <1>1, WebTyped DEF Drawn
<1>3. \A r, q \in v3' : r.id = q.id \/ r.token = q.token => r = q BY <1>1 DEF Drawn
<1>4. OpenRowsMove(t) BY DEF OpenRowsMove
<1>5. Web!Plain \in Web!Answer /\ Web!Plain.jar = {} /\ Web!Plain.id = 0 BY PlainAnswers
<1>6. Web!Plain.id <= v5' BY <1>1, <1>5, WebTyped
<1>7. v7' \cap {"overlap", "fault"} = {} =>
          \A j \in IF Web!Plain.jar = {} THEN {v1} ELSE Web!Plain.jar : \A r \in v3' :
              r.id = (IF Web!Plain.id # 0 THEN Web!Plain.id ELSE v6) => r.token = j
  BY <1>5, BeforeAnswer DEF Opens
<1>8. v7' = {} => \A j \in IF Web!Plain.jar = {} THEN {v1} ELSE Web!Plain.jar :
                      j = 0 \/ \E r \in v3' : r.token = j
  BY <1>5, BeforeAnswer DEF Works
<1>9. QED BY <1>2, <1>3, <1>4, <1>5, <1>6, <1>7, <1>8, RespondWeb

\* A handler clears the cookie.
LEMMA ClearsCookie ==
    ASSUME WebInv, NEW t \in Actors, v4[t].pc \in {"sent", "rotate"},
           Web!Respond(t, Web!Cleared), UNCHANGED <<v1, v2, v5, v6>>,
           v7 \subseteq v7', v7' \subseteq Web!Causes, v3' \subseteq v3,
           v7' \cap {"overlap", "fault"} = {} => \A r \in v3' : r.id # v6
    PROVE  WebInv'
<1>1. Web!TypeOK /\ Drawn BY DEF WebInv
<1>2. v3' \subseteq Web!Row /\ \A r \in v3' : r.id <= v5' /\ r.token <= v5'
  BY <1>1, WebTyped DEF Drawn
<1>3. \A r, q \in v3' : r.id = q.id \/ r.token = q.token => r = q BY <1>1 DEF Drawn
<1>4. OpenRowsMove(t) BY DEF OpenRowsMove
<1>5. Web!Cleared \in Web!Answer /\ Web!Cleared.jar = {0} /\ Web!Cleared.id = 0 BY PlainAnswers
<1>6. Web!Cleared.id <= v5' /\ v5' = v5 /\ v5' <= MaxTokens BY <1>1, <1>5, WebTyped
<1>7. v7' \cap {"overlap", "fault"} = {} =>
          \A j \in IF Web!Cleared.jar = {} THEN {v1} ELSE Web!Cleared.jar : \A r \in v3' :
              r.id = (IF Web!Cleared.id # 0 THEN Web!Cleared.id ELSE v6) => r.token = j
  BY <1>5
<1>8. v7' = {} => \A j \in IF Web!Cleared.jar = {} THEN {v1} ELSE Web!Cleared.jar :
                      j = 0 \/ \E r \in v3' : r.token = j
  BY <1>5
<1>9. QED BY <1>2, <1>3, <1>4, <1>5, <1>6, <1>7, <1>8, RespondWeb

LEMMA FaultIs ==
    ASSUME Web!TypeOK, UNCHANGED v7 \/ Web!Fault
    PROVE  /\ v7 \subseteq v7' /\ v7' \subseteq Web!Causes
           /\ Web!Fault => "fault" \in v7'
           /\ UNCHANGED v7 \/ "fault" \in v7'
BY WebTyped DEF Web!Fault, Web!Because, Web!Causes

LEMMA SignedInIs ==
    ASSUME Web!TypeOK, NEW k \in 0 .. MaxTokens, NEW i \in 0 .. MaxTokens
    PROVE  /\ Web!SignedIn(k, i) \in Web!Answer
           /\ Web!SignedIn(k, i).jar = {k} /\ Web!SignedIn(k, i).id = i
BY DEF Web!SignedIn, Web!Answer

LEMMA LoginWeb == ASSUME WebInv, NEW t \in Actors, Web!Login(t) PROVE WebInv'
<1>1. Web!TypeOK /\ Drawn BY DEF WebInv
<1>2. v4[t].pc \in {"sent", "rotate"} /\ v4[t].pc = "sent" /\ v4[t].kind = "login"
  BY DEF Web!Login, Web!Serves
<1>3. UNCHANGED <<v1, v2, v6, v7>> BY DEF Web!Login, Web!cookies
<1>4. v7 \subseteq v7' /\ v7' \subseteq Web!Causes BY <1>1, <1>3, WebTyped
<1>5. CASE Web!Respond(t, Web!Plain) /\ UNCHANGED <<v3, v5>>
  <2>1. v5' = v5 /\ v5' <= MaxTokens BY <1>1, <1>5, WebTyped
  <2>2. QED BY <1>2, <1>3, <1>4, <1>5, <2>1, LeavesCookie
<1>6. CASE /\ Web!Draw /\ v3' = v3 \cup {[id |-> v5', token |-> v5']}
           /\ Web!Respond(t, Web!SignedIn(v5', v5'))
  <2>1. PICK k : k = v5' OBVIOUS
  <2>2. /\ v5 \in Nat /\ MaxTokens \in Nat /\ v5' = v5 + 1 /\ v5' <= MaxTokens
        /\ k = v5 + 1 /\ k \in 0 .. MaxTokens /\ k # 0
    BY <1>1, <1>6, <2>1, WebTyped DEF Web!Draw
  <2>3. PICK a : a = Web!SignedIn(k, k) OBVIOUS
  <2>4. a \in Web!Answer /\ a.jar = {k} /\ a.id = k BY <1>1, <2>2, <2>3, SignedInIs
  <2>5. Web!Respond(t, a) BY <1>6, <2>1, <2>3
  <2>6. PICK n : n = [id |-> k, token |-> k] OBVIOUS
  <2>7. n \in Web!Row /\ n.id = k /\ n.token = k BY <2>2, <2>6 DEF Web!Row, Web!Token
  <2>8. v3' = v3 \cup {n} BY <1>6, <2>1, <2>6
  <2>9. \A r \in v3 : /\ r.id \in Nat /\ r.token \in Nat /\ r.id <= v5 /\ r.token <= v5
                      /\ r.id # k /\ r.token # k
    BY <1>1, <2>2, WebTyped DEF Drawn
  <2>10. v3' \subseteq Web!Row BY <1>1, <2>7, <2>8, WebTyped
  <2>11. \A r \in v3' : r.id <= v5' /\ r.token <= v5' BY <2>2, <2>7, <2>8, <2>9
  <2>12. \A r, q \in v3' : r.id = q.id \/ r.token = q.token => r = q
    BY <1>1, <2>7, <2>8, <2>9 DEF Drawn
  <2>13. OpenRowsMove(t) BY <2>1, <2>2, <2>7, <2>8 DEF OpenRowsMove
  <2>14. a.jar \subseteq {0} \/ (v5' = v5 + 1 /\ a.jar = {v5'}) BY <2>1, <2>2, <2>4
  <2>15. a.id <= v5' BY <2>1, <2>2, <2>4
  <2>16. v4[t].kind = "login" /\ a.id # 0 =>
             /\ v5' = v5 + 1 /\ a.id = v5' /\ a.jar = {v5'}
             /\ \A r \in v3' : r.id = v5' \/ r.token = v5' => r.id = v5' /\ r.token = v5'
    BY <2>1, <2>2, <2>4, <2>7, <2>8, <2>9
  <2>17. "overlap" \notin v7' /\ v4[t].kind # "login" => v1 # 0 \/ a.jar \subseteq {0}
    BY <1>2
  <2>18. v7' \cap {"overlap", "fault"} = {} =>
            \A j \in IF a.jar = {} THEN {v1} ELSE a.jar : \A r \in v3' :
                r.id = (IF a.id # 0 THEN a.id ELSE v6) => r.token = j
    BY <2>2, <2>4, <2>7, <2>8, <2>9
  <2>19. v7' = {} => \A j \in IF a.jar = {} THEN {v1} ELSE a.jar :
                         j = 0 \/ \E r \in v3' : r.token = j
    BY <2>4, <2>7, <2>8
  <2>20. QED
    BY <1>2, <1>3, <1>4, <2>2, <2>4, <2>5, <2>10, <2>11, <2>12, <2>13, <2>14, <2>15, <2>16,
       <2>17, <2>18, <2>19, RespondWeb
<1>7. QED BY <1>5, <1>6 DEF Web!Login

\* The row that a request has read gets the token just drawn, or stays as it was, and then
\* a statement has failed.
LEMMA RotateWeb == ASSUME WebInv, NEW t \in Actors, Web!Rotate(t) PROVE WebInv'
<1>1. Web!TypeOK /\ Drawn BY DEF WebInv
<1>2. v4[t].pc \in {"sent", "rotate"} /\ v4[t].pc = "rotate" BY DEF Web!Rotate
<1>3. UNCHANGED <<v1, v2, v6>> BY DEF Web!Rotate, Web!cookies
<1>4. /\ v7 \subseteq v7' /\ v7' \subseteq Web!Causes
      /\ UNCHANGED v7 \/ "fault" \in v7'
  <2>1. UNCHANGED v7 \/ Web!Fault BY DEF Web!Rotate
  <2>2. QED BY <1>1, <2>1, FaultIs
<1>5. PICK k : k = v5' OBVIOUS
<1>6. /\ v5 \in Nat /\ MaxTokens \in Nat /\ v5' = v5 + 1 /\ v5' <= MaxTokens
      /\ k = v5 + 1 /\ k \in 0 .. MaxTokens /\ k # 0 /\ k \in Web!Token
  BY <1>1, <1>5, WebTyped DEF Web!Rotate, Web!Draw, Web!Token
<1>7. PICK i : i = v4[t].id OBVIOUS
<1>8. \A r \in v3 : /\ r.id \in Nat \ {0} /\ r.token \in Nat /\ r.id <= v5 /\ r.token <= v5
                    /\ r.id # k /\ r.token # k /\ r \in Web!Row
  BY <1>1, <1>6, WebTyped DEF Drawn
<1>9. DEFINE New(r) == IF r.id = i THEN [r EXCEPT !.token = k] ELSE r
<1>10. \A r \in v3 : /\ New(r) \in Web!Row /\ New(r).id = r.id
                     /\ New(r).token = IF r.id = i THEN k ELSE r.token
                     /\ r.id # i => New(r) = r
  BY <1>6, <1>8 DEF Web!Row
<1>11. Web!UpdateSession(i, k) => v3' = {New(r) : r \in v3} BY DEF Web!UpdateSession
<1> HIDE DEF New
<1>12. /\ Web!UpdateSession(i, k) \/ UNCHANGED v3
       /\ \/ Web!UpdateSession(i, k) /\ Web!Respond(t, Web!SignedIn(k, 0))
          \/ "fault" \in v7' /\ (Web!Respond(t, Web!SignedIn(k, 0)) \/ Web!Respond(t, Web!Plain))
  <2>1. Web!Fault => "fault" \in v7' BY <1>1, FaultIs
  <2>2. QED BY <1>5, <1>7, <2>1 DEF Web!Rotate
<1>13. /\ v3' \subseteq Web!Row
       /\ \A r \in v3' : r.id <= v5' /\ r.token <= v5'
       /\ \A r, q \in v3' : r.id = q.id \/ r.token = q.token => r = q
       /\ OpenRowsMove(t)
  <2>1. \A r, q \in v3 : r.id = q.id \/ r.token = q.token => r = q BY <1>1 DEF Drawn
  <2>2. CASE Web!UpdateSession(i, k)
    <3>1. \A r \in v3' : \E q \in v3 : r = New(q) BY <1>11, <2>2
    <3>2. v3' \subseteq Web!Row BY <1>10, <3>1
    <3>3. \A r \in v3' : r.id <= v5' /\ r.token <= v5' BY <1>6, <1>8, <1>10, <3>1
    <3>4. ASSUME NEW r \in v3, NEW q \in v3,
                 New(r).id = New(q).id \/ New(r).token = New(q).token
          PROVE  r = q
      BY <1>8, <1>10, <2>1, <3>4
    <3>5. \A r, q \in v3' : r.id = q.id \/ r.token = q.token => r = q BY <3>1, <3>4
    <3>6. ASSUME NEW q \in v3
          PROVE  \/ New(q) \in v3
                 \/ /\ v5' = v5 + 1 /\ New(q).token = v5'
                    /\ New(q).id = v5' \/ (v4[t].id # 0 /\ New(q).id = v4[t].id)
      BY <1>5, <1>6, <1>7, <1>8, <1>10
    <3>7. OpenRowsMove(t) BY <3>1, <3>6 DEF OpenRowsMove
    <3>8. QED BY <3>2, <3>3, <3>5, <3>7
  <2>3. CASE UNCHANGED v3
    <3>1. OpenRowsMove(t) BY <2>3 DEF OpenRowsMove
    <3>2. QED BY <1>6, <1>8, <2>1, <2>3, <3>1
  <2>4. QED BY <1>12, <2>2, <2>3
<1>14. CASE Web!Respond(t, Web!SignedIn(k, 0))
  <2>1. PICK a : a = Web!SignedIn(k, 0) OBVIOUS
  <2>2. a \in Web!Answer /\ a.jar = {k} /\ a.id = 0 BY <1>1, <1>6, <2>1, SignedInIs
  <2>3. Web!Respond(t, a) BY <1>14, <2>1
  <2>4. Web!UpdateSession(i, k) \/ "fault" \in v7' BY <1>12
  <2>5. a.jar \subseteq {0} \/ (v5' = v5 + 1 /\ a.jar = {v5'}) BY <1>5, <1>6, <2>2
  <2>6. a.id <= v5' BY <1>6, <2>2
  <2>7. v4[t].kind = "login" /\ a.id # 0 =>
            /\ v5' = v5 + 1 /\ a.id = v5' /\ a.jar = {v5'}
            /\ \A r \in v3' : r.id = v5' \/ r.token = v5' => r.id = v5' /\ r.token = v5'
    BY <2>2
  <2>8. "overlap" \notin v7' /\ v4[t].kind # "login" => v1 # 0 \/ a.jar \subseteq {0}
    BY <1>2, <1>4, BeforeAnswer
  <2>9. ASSUME v7' \cap {"overlap", "fault"} = {}
        PROVE  \A r \in v3' : r.id = v6 => r.token = k
    <3>1. v7 \cap {"overlap", "fault"} = {} BY <1>4, <2>9
    <3>2. \A r \in v3 : r.id = v6 => r.id = i
      BY <1>2, <1>7, <3>1 DEF WebInv, MineIsOpened
    <3>3. \A r \in v3' : \E q \in v3 : r = New(q) BY <1>11, <2>4, <2>9
    <3>4. QED BY <1>10, <3>2, <3>3
  <2>10. v7' \cap {"overlap", "fault"} = {} =>
            \A j \in IF a.jar = {} THEN {v1} ELSE a.jar : \A r \in v3' :
                r.id = (IF a.id # 0 THEN a.id ELSE v6) => r.token = j
    BY <2>2, <2>9
  <2>11. ASSUME v7' = {} PROVE \E r \in v3' : r.token = k
    <3>1. v7 = {} BY <1>4, <2>11
    <3>2. PICK q \in v3 : q.id = i BY <1>2, <1>7, <3>1 DEF WebInv, CookieWorks
    <3>3. New(q) \in v3' BY <1>11, <2>4, <2>11, <3>2
    <3>4. QED BY <1>10, <3>2, <3>3
  <2>12. v7' = {} => \A j \in IF a.jar = {} THEN {v1} ELSE a.jar :
                         j = 0 \/ \E r \in v3' : r.token = j
    BY <2>2, <2>11
  <2>13. QED
    BY <1>2, <1>3, <1>4, <1>6, <1>13, <2>2, <2>3, <2>5, <2>6, <2>7, <2>8, <2>10, <2>12,
       RespondWeb
<1>15. CASE "fault" \in v7' /\ Web!Respond(t, Web!Plain)
  <2>1. PICK a : a = Web!Plain OBVIOUS
  <2>2. a \in Web!Answer /\ a.jar = {} /\ a.id = 0 BY <2>1, PlainAnswers
  <2>3. Web!Respond(t, a) /\ "fault" \in v7' BY <1>15, <2>1
  <2>4. a.jar \subseteq {0} BY <2>2
  <2>5. a.id <= v5' BY <1>6, <2>2
  <2>6. v7' \cap {"overlap", "fault"} # {} /\ v7' # {} BY <2>3
  <2>7. QED
    BY <1>2, <1>3, <1>4, <1>6, <1>13, <2>2, <2>3, <2>4, <2>5, <2>6, RespondWeb
<1>16. QED BY <1>12, <1>14, <1>15

LEMMA LookUpWeb == ASSUME WebInv, NEW t \in Actors, Web!GetSessionByToken(t) PROVE WebInv'
<1>1. Web!TypeOK /\ Drawn BY DEF WebInv
<1>2. v4[t].pc \in {"sent", "rotate"} /\ v4[t].pc = "sent"
  BY DEF Web!GetSessionByToken, Web!Serves
<1>3. UNCHANGED <<v1, v2, v3, v5, v6>> BY DEF Web!GetSessionByToken, Web!cookies
<1>4. v5 <= MaxTokens /\ v5' = v5 BY <1>1, <1>3, WebTyped
<1>5. UNCHANGED v7 \/ Web!Fault BY DEF Web!GetSessionByToken
<1>6. /\ v7 \subseteq v7' /\ v7' \subseteq Web!Causes
      /\ Web!Fault => "fault" \in v7'
  BY <1>1, <1>5, FaultIs
<1>7. CASE Web!NoSession(t) /\ (Web!Fault \/ ~ \E r \in v3 : r.token = v4[t].token)
  <2>1. CASE Web!Respond(t, Web!Plain)
    BY <1>2, <1>3, <1>4, <1>6, <2>1, LeavesCookie
  <2>2. CASE Web!Respond(t, Web!Cleared)
    <3>1. ASSUME v7' \cap {"overlap", "fault"} = {} PROVE \A r \in v3' : r.id # v6
      <4>1. v7 \cap {"overlap", "fault"} = {} BY <1>6, <3>1
      <4>2. Opens(v6, v1) /\ v4[t].token = v1 BY <1>2, <4>1, BeforeAnswer
      <4>3. QED BY <1>3, <1>6, <1>7, <3>1, <4>2 DEF Opens
    <3>2. QED BY <1>2, <1>3, <1>6, <2>2, <3>1, ClearsCookie
  <2>3. QED BY <1>7, <2>1, <2>2 DEF Web!NoSession
<1>8. CASE /\ UNCHANGED v7
           /\ \E r \in v3 : /\ r.token = v4[t].token
                            /\ v4' = [v4 EXCEPT ![t].pc = "rotate", ![t].id = r.id]
  <2>1. PICK r \in v3 : /\ r.token = v4[t].token
                        /\ v4' = [v4 EXCEPT ![t].pc = "rotate", ![t].id = r.id]
    BY <1>8
  <2>2. /\ v3 \subseteq Web!Row /\ r.id \in Nat \ {0} /\ r.token \in Nat \ {0} /\ r.id <= v5
        /\ r.id \in 0 .. MaxTokens
    BY <1>1, WebTyped DEF Drawn
  <2>3. PICK i : i = r.id OBVIOUS
  <2>4. PICK n : n = [v4[t] EXCEPT !.pc = "rotate", !.id = i] OBVIOUS
  <2>5. v4[t] \in Web!Call /\ v4[t].answer = Web!Plain BY <1>1, <1>2, WebTyped DEF Drawn
  <2>6. /\ n \in Web!Call /\ n.pc = "rotate" /\ n.id = i /\ n.token = v4[t].token
        /\ n.answer = Web!Plain
    BY <2>2, <2>3, <2>4, <2>5 DEF Web!Call
  <2>7. v4' = [v4 EXCEPT ![t] = n] BY <1>1, <2>1, <2>3, <2>4, WebTyped
  <2>8. /\ v4' \in [Actors -> Web!Call]
        /\ v4'[t] = n /\ \A s \in Actors : s # t => v4'[s] = v4[s]
    BY <1>1, <2>6, <2>7, CallIs
  <2>9. Web!TypeOK' BY <1>1, <1>3, <1>6, <2>8 DEF Web!TypeOK
  <2>10. v4[t].token <= v5 /\ i <= v5 /\ n.answer.id <= v5 /\ n.answer.jar = {}
    BY <1>1, <2>2, <2>3, <2>6, PlainAnswers, WebTyped DEF Drawn
  <2>11. Drawn' BY <1>1, <1>3, <2>6, <2>8, <2>10 DEF Drawn
  <2>12. ASSUME NEW s \in Actors PROVE Private(s)'
    <3>1. CASE s = t BY <2>6, <2>8, <3>1 DEF Private
    <3>2. CASE s # t
      <4>1. Private(s) BY DEF WebInv
      <4>2. QED BY <1>3, <2>1, <2>3, <2>6, <2>8, <2>10, <3>2, <4>1 DEF Private
    <3>3. QED BY <3>1, <3>2
  <2>13. ASSUME "overlap" \notin v7'
         PROVE  /\ Alone /\ v4[t].token = v1 /\ v1 # 0
                /\ \A s \in Actors : s # t => v4[s].pc = "idle"
    BY <1>2, <1>6, <2>1, <2>2, <2>13 DEF WebInv, Alone
  <2>14. "overlap" \notin v7' => Alone' BY <1>2, <1>3, <2>6, <2>8, <2>13 DEF Alone
  <2>15. ASSUME v7' \cap {"overlap", "fault"} = {} PROVE MineIsOpened'
    <3>1. \A s \in Actors : s # t => v4[s].pc = "idle" BY <2>13, <2>15
    <3>2. Opens(v6, v1) BY <1>2, <1>6, <2>15, BeforeAnswer
    <3>3. \A q \in v3 : q.id = v6 => q.id = i
      BY <1>1, <2>1, <2>3, <2>13, <2>15, <3>2 DEF Opens, Drawn
    <3>4. QED BY <1>3, <2>6, <2>8, <3>1, <3>3 DEF MineIsOpened, Waits
  <2>16. ASSUME v7' = {} PROVE CookieWorks'
    <3>1. \A s \in Actors : s # t => v4[s].pc = "idle" BY <2>13, <2>16
    <3>2. QED BY <1>3, <2>3, <2>6, <2>8, <3>1 DEF CookieWorks, Waits
  <2>17. QED BY <2>9, <2>11, <2>12, <2>14, <2>15, <2>16 DEF WebInv
<1>9. QED BY <1>7, <1>8 DEF Web!GetSessionByToken

LEMMA LogoutWeb ==
    ASSUME WebInv, NEW t \in Actors,
           Web!SessionOfBearer(t) \/ Web!Logout(t) \/ Web!LogoutAll(t)
    PROVE  WebInv'
<1>1. Web!TypeOK /\ Drawn BY DEF WebInv
<1>2. v4[t].pc \in {"sent", "rotate"} /\ v4[t].pc = "sent"
  BY DEF Web!SessionOfBearer, Web!Logout, Web!LogoutAll, Web!Serves
<1>3. UNCHANGED <<v1, v2, v5, v6>> /\ (UNCHANGED v7 \/ Web!Fault)
  BY DEF Web!SessionOfBearer, Web!Logout, Web!LogoutAll, Web!cookies
<1>4. v5 <= MaxTokens /\ v5' = v5 BY <1>1, <1>3, WebTyped
<1>5. /\ v7 \subseteq v7' /\ v7' \subseteq Web!Causes
      /\ Web!Fault => "fault" \in v7'
  BY <1>1, <1>3, FaultIs
<1>6. CASE Web!Respond(t, Web!Plain) /\ UNCHANGED v3
  BY <1>2, <1>3, <1>4, <1>5, <1>6, LeavesCookie
<1>7. CASE /\ Web!Respond(t, Web!Cleared)
           /\ \/ v3' = {r \in v3 : r.token # v4[t].token} \/ v3' = {}
              \/ Web!Fault /\ UNCHANGED v3
  <2>1. v3' \subseteq v3 BY <1>7
  <2>2. ASSUME v7' \cap {"overlap", "fault"} = {} PROVE \A r \in v3' : r.id # v6
    <3>1. v7 \cap {"overlap", "fault"} = {} BY <1>5, <2>2
    <3>2. Opens(v6, v1) /\ v4[t].token = v1 BY <1>2, <3>1, BeforeAnswer
    <3>3. QED BY <1>5, <1>7, <2>2, <3>2 DEF Opens
  <2>3. QED BY <1>2, <1>3, <1>5, <1>7, <2>1, <2>2, ClearsCookie
<1>8. QED BY <1>6, <1>7 DEF Web!SessionOfBearer, Web!Logout, Web!LogoutAll

LEMMA SendWeb == ASSUME WebInv, NEW t \in Actors, NEW kind \in Web!Kinds, Web!Send(t, kind)
                 PROVE  WebInv'
<1>1. Web!TypeOK /\ Drawn BY DEF WebInv
<1>2. UNCHANGED <<v1, v2, v3, v5, v6>> BY DEF Web!Send, Web!cookies
<1>3. /\ MaxTokens \in Nat /\ v1 \in Nat /\ v1 <= v5 /\ v5 \in Nat /\ v5 <= MaxTokens
      /\ v1 \in 0 .. MaxTokens /\ v7 \subseteq Web!Causes
  BY <1>1, WebTyped
<1>4. v7 \subseteq v7' /\ v7' \subseteq Web!Causes
  BY <1>3 DEF Web!Send, Web!Because, Web!Causes
<1>5. PICK n : n = [Web!Idle EXCEPT !.pc = "sent", !.kind = kind, !.token = v1,
                                    !.bearer = t \in v2]
  OBVIOUS
<1>6. /\ n \in Web!Call /\ n.pc = "sent" /\ n.token = v1 /\ n.id = 0 /\ n.answer = Web!Plain
  <2>1. Web!Idle \in Web!Call /\ Web!Idle.id = 0 /\ Web!Idle.answer = Web!Plain
    BY PlainAnswers
  <2>2. PICK b : b = (t \in v2) OBVIOUS
  <2>3. b \in BOOLEAN BY <2>2
  <2>4. n = [Web!Idle EXCEPT !.pc = "sent", !.kind = kind, !.token = v1, !.bearer = b]
    BY <1>5, <2>2
  <2>5. QED BY <1>3, <2>1, <2>3, <2>4 DEF Web!Call, Web!Kinds
<1>7. v4' = [v4 EXCEPT ![t] = n] BY <1>5 DEF Web!Send
<1>8. /\ v4' \in [Actors -> Web!Call]
      /\ v4'[t] = n /\ \A s \in Actors : s # t => v4'[s] = v4[s]
  BY <1>1, <1>6, <1>7, CallIs
<1>9. Web!TypeOK' BY <1>1, <1>2, <1>4, <1>8 DEF Web!TypeOK
<1>10. Web!Plain.jar = {} /\ Web!Plain.id = 0 BY PlainAnswers
<1>11. Drawn' BY <1>1, <1>2, <1>3, <1>6, <1>8, <1>10 DEF Drawn
<1>12. ASSUME NEW s \in Actors PROVE Private(s)'
  <2>1. CASE s = t BY <1>6, <1>8, <2>1 DEF Private
  <2>2. CASE s # t
    <3>1. Private(s) BY DEF WebInv
    <3>2. QED BY <1>2, <1>6, <1>8, <1>10, <2>2, <3>1 DEF Private
  <2>3. QED BY <2>1, <2>2
<1>13. ASSUME "overlap" \notin v7' PROVE \A s \in Actors : v4[s].pc = "idle"
  <2>1. Web!InFlight = {} BY <1>3, <1>13 DEF Web!Send, Web!Because
  <2>2. QED BY <2>1, PlainAnswers DEF Web!InFlight
<1>14. "overlap" \notin v7' => Alone' BY <1>2, <1>6, <1>8, <1>13 DEF Alone
<1>15. ASSUME v7' \cap {"overlap", "fault"} = {} PROVE MineIsOpened'
  <2>1. \A s \in Actors : v4[s].pc = "idle" BY <1>13, <1>15
  <2>2. Opens(v6, v1) BY <1>4, <1>15, <2>1 DEF WebInv, MineIsOpened, Waits
  <2>3. Opens(v6, v1)' BY <1>2, <2>2 DEF Opens
  <2>4. QED BY <1>6, <1>8, <2>1, <2>3 DEF MineIsOpened
<1>16. ASSUME v7' = {} PROVE CookieWorks'
  <2>1. \A s \in Actors : v4[s].pc = "idle" BY <1>13, <1>16
  <2>2. Works(v1) BY <1>4, <1>16, <2>1 DEF WebInv, CookieWorks, Waits
  <2>3. Works(v1)' BY <1>2, <2>2 DEF Works
  <2>4. QED BY <1>6, <1>8, <2>1, <2>3 DEF CookieWorks
<1>17. QED BY <1>9, <1>11, <1>12, <1>14, <1>15, <1>16 DEF WebInv

\* A request has ended, one way or the other.
LEMMA IdleWeb ==
    ASSUME Web!TypeOK, NEW t \in Actors, v4' = [v4 EXCEPT ![t] = Web!Idle]
    PROVE  /\ v4' \in [Actors -> Web!Call]
           /\ v4'[t] = Web!Idle /\ v4'[t].pc = "idle" /\ v4'[t].token = 0 /\ v4'[t].id = 0
           /\ v4'[t].answer = Web!Plain /\ v4'[t].answer.jar = {} /\ v4'[t].answer.id = 0
           /\ \A s \in Actors : s # t => v4'[s] = v4[s]
BY PlainAnswers, CallIs

LEMMA ReceiveWeb == ASSUME WebInv, NEW t \in Actors, Web!Receive(t) PROVE WebInv'
<1>1. Web!TypeOK /\ Drawn BY DEF WebInv
<1>2. /\ UNCHANGED <<v3, v5>> /\ v4[t].pc = "answered" /\ v4' = [v4 EXCEPT ![t] = Web!Idle]
      /\ v1' \in JarAfter(t) /\ v6' = MineAfter(t)
      /\ v7' = IF Web!Anew(t) THEN {} ELSE v7
  BY DEF Web!Receive, JarAfter, MineAfter
<1>3. v2' \subseteq Actors
  <2>1. v2' = v2 \cup {t} \/ v2' = v2 \ {t} \/ v2' = v2 BY DEF Web!Receive
  <2>2. QED BY <1>1, <2>1 DEF Web!TypeOK
<1>4. /\ v4' \in [Actors -> Web!Call]
      /\ v4'[t] = Web!Idle /\ v4'[t].pc = "idle" /\ v4'[t].token = 0 /\ v4'[t].id = 0
      /\ v4'[t].answer = Web!Plain /\ v4'[t].answer.jar = {} /\ v4'[t].answer.id = 0
      /\ \A s \in Actors : s # t => v4'[s] = v4[s]
  BY <1>1, <1>2, IdleWeb
<1>5. /\ v1 \in 0 .. v5 /\ v6 \in 0 .. v5 /\ v5 \in Nat /\ v4[t].answer.jar \subseteq Nat
      /\ v4[t].answer.id \in Nat /\ v4[t].answer.id <= v5
      /\ \A j \in v4[t].answer.jar : j <= v5
      /\ v7' \subseteq Web!Causes /\ \A r \in v3 : r.id # 0
  BY <1>1, <1>2, WebTyped DEF Drawn
<1>6. v1' \in 0 .. v5 /\ v6' \in 0 .. v5 BY <1>2, <1>5 DEF JarAfter, MineAfter
<1>7. Web!TypeOK' BY <1>1, <1>2, <1>3, <1>4, <1>5, <1>6 DEF Web!TypeOK
<1>8. Drawn' BY <1>1, <1>2, <1>4, <1>5 DEF Drawn
<1>9. ASSUME NEW s \in Actors PROVE Private(s)'
  <2>1. CASE s = t BY <1>4, <2>1 DEF Private
  <2>2. CASE s # t
    <3>1. Private(s) BY DEF WebInv
    <3>2. QED BY <1>2, <1>4, <2>2, <3>1 DEF Private, JarAfter
  <2>3. QED BY <2>1, <2>2
<1>10. ASSUME "overlap" \notin v7' PROVE \A s \in Actors : v4'[s].pc = "idle"
  <2>1. CASE Web!Anew(t)
    <3>1. \A s \in Actors : s # t => v4[s] = Web!Idle BY <2>1 DEF Web!Anew, Web!InFlight
    <3>2. QED BY <1>4, <3>1
  <2>2. CASE ~ Web!Anew(t)
    BY <1>2, <1>4, <1>10, <2>2 DEF WebInv, Alone
  <2>3. QED BY <2>1, <2>2
<1>11. "overlap" \notin v7' => Alone' BY <1>10 DEF Alone
<1>12. ASSUME Web!Anew(t)
       PROVE  Opens(v6', v1') /\ (\E r \in v3 : r.token = v1')
  <2>1. v4[t].kind = "login" /\ \E r \in v3 : r.id = v4[t].answer.id
    BY <1>12 DEF Web!Anew
  <2>2. v4[t].answer.id # 0 BY <1>5, <2>1
  <2>3. PICK k : k = v4[t].answer.id OBVIOUS
  <2>4. /\ v4[t].answer.jar = {k}
        /\ \A r \in v3 : r.id = k \/ r.token = k => r.id = k /\ r.token = k
    BY <1>2, <2>1, <2>2, <2>3 DEF WebInv, Private
  <2>5. v1' = k /\ v6' = k BY <1>2, <2>2, <2>3, <2>4 DEF JarAfter, MineAfter
  <2>6. QED BY <2>1, <2>3, <2>4, <2>5 DEF Opens
<1>13. ASSUME v7' \cap {"overlap", "fault"} = {} PROVE MineIsOpened'
  <2>1. Opens(v6', v1')
    <3>1. CASE ~ Web!Anew(t) BY <1>2, <1>13, <3>1 DEF WebInv, MineIsOpened
    <3>2. QED BY <1>12, <3>1
  <2>2. Opens(v6, v1)' BY <1>2, <2>1 DEF Opens
  <2>3. QED BY <1>10, <1>13, <2>2 DEF MineIsOpened
<1>14. ASSUME v7' = {} PROVE CookieWorks'
  <2>1. Works(v1')
    <3>1. CASE ~ Web!Anew(t) BY <1>2, <1>14, <3>1 DEF WebInv, CookieWorks
    <3>2. QED BY <1>12, <3>1 DEF Works
  <2>2. Works(v1)' BY <1>2, <2>1 DEF Works
  <2>3. QED BY <1>10, <1>14, <2>2 DEF CookieWorks
<1>15. QED BY <1>7, <1>8, <1>9, <1>11, <1>13, <1>14 DEF WebInv

LEMMA LoseWeb == ASSUME WebInv, NEW t \in Actors, Web!Lose(t) PROVE WebInv'
<1>1. Web!TypeOK /\ Drawn BY DEF WebInv
<1>2. UNCHANGED <<v1, v2, v3, v5, v6>> /\ v4' = [v4 EXCEPT ![t] = Web!Idle] /\ Web!Fault
  BY DEF Web!Lose, Web!cookies
<1>3. /\ v4' \in [Actors -> Web!Call]
      /\ v4'[t] = Web!Idle /\ v4'[t].pc = "idle" /\ v4'[t].token = 0 /\ v4'[t].id = 0
      /\ v4'[t].answer = Web!Plain /\ v4'[t].answer.jar = {} /\ v4'[t].answer.id = 0
      /\ \A s \in Actors : s # t => v4'[s] = v4[s]
  BY <1>1, <1>2, IdleWeb
<1>4. v7 \subseteq v7' /\ v7' \subseteq Web!Causes /\ "fault" \in v7'
  BY <1>1, <1>2, FaultIs
<1>5. v5 \in Nat BY <1>1, WebTyped
<1>6. Web!TypeOK' BY <1>1, <1>2, <1>3, <1>4 DEF Web!TypeOK
<1>7. Drawn' BY <1>1, <1>2, <1>3, <1>5 DEF Drawn
<1>8. ASSUME NEW s \in Actors PROVE Private(s)'
  <2>1. CASE s = t BY <1>3, <2>1 DEF Private
  <2>2. CASE s # t
    <3>1. Private(s) BY DEF WebInv
    <3>2. QED BY <1>2, <1>3, <2>2, <3>1 DEF Private
  <2>3. QED BY <2>1, <2>2
<1>9. "overlap" \notin v7' => Alone' BY <1>2, <1>3, <1>4 DEF WebInv, Alone
<1>10. QED BY <1>4, <1>6, <1>7, <1>8, <1>9 DEF WebInv

LEMMA ExpiresWeb == ASSUME WebInv, NEW t \in Actors, Web!AccessExpires(t) PROVE WebInv'
<1>1. Web!TypeOK BY DEF WebInv
<1>2. UNCHANGED <<v1, v3, v4, v5, v6, v7>> /\ v2' \subseteq v2 BY DEF Web!AccessExpires
<1>3. Web!TypeOK' BY <1>1, <1>2 DEF Web!TypeOK
<1>4. QED
  BY <1>2, <1>3 DEF WebInv, Drawn, Private, Alone, MineIsOpened, CookieWorks, Waits, Opens,
                    Works, JarAfter, MineAfter

LEMMA CloseWeb == ASSUME WebInv, Web!CloseElsewhere PROVE WebInv'
<1>1. Web!TypeOK /\ Drawn BY DEF WebInv
<1>2. UNCHANGED <<v1, v2, v4, v5, v6>> /\ v3' \subseteq v3
  BY DEF Web!CloseElsewhere, Web!cookies
<1>3. v7 \subseteq v7' /\ v7' \subseteq Web!Causes /\ "closed" \in v7'
  BY <1>1, WebTyped DEF Web!CloseElsewhere, Web!Because, Web!Causes
<1>4. Web!TypeOK' BY <1>1, <1>2, <1>3 DEF Web!TypeOK
<1>5. Drawn' BY <1>1, <1>2 DEF Drawn
<1>6. ASSUME NEW s \in Actors PROVE Private(s)'
  <2>1. Private(s) BY DEF WebInv
  <2>2. QED BY <1>2, <2>1 DEF Private
<1>7. "overlap" \notin v7' => Alone' BY <1>2, <1>3 DEF WebInv, Alone
<1>8. ASSUME v7' \cap {"overlap", "fault"} = {} PROVE MineIsOpened'
  <2>1. MineIsOpened BY <1>3, <1>8 DEF WebInv
  <2>2. QED BY <1>2, <2>1 DEF MineIsOpened, Waits, Opens, JarAfter, MineAfter
<1>9. QED BY <1>3, <1>4, <1>5, <1>6, <1>7, <1>8 DEF WebInv

LEMMA WebInit == Web!Init => WebInv
<1> SUFFICES ASSUME Web!Init PROVE WebInv
  OBVIOUS
<1>1. MaxTokens \in Nat BY BoundsAssumption
<1>2. \A t \in Actors : /\ v4[t] = Web!Idle /\ v4[t].pc = "idle" /\ v4[t].token = 0
                        /\ v4[t].id = 0 /\ v4[t].answer.jar = {} /\ v4[t].answer.id = 0
  BY PlainAnswers DEF Web!Init
<1>3. Web!TypeOK
  <2>1. v4 \in [Actors -> Web!Call] BY PlainAnswers DEF Web!Init
  <2>2. QED BY <1>1, <2>1 DEF Web!Init, Web!TypeOK
<1>4. Drawn /\ Alone BY <1>2 DEF Web!Init, Drawn, Alone
<1>5. \A t \in Actors : Private(t) BY <1>2 DEF Private
<1>6. MineIsOpened /\ CookieWorks
  BY <1>2 DEF Web!Init, MineIsOpened, CookieWorks, Waits, Opens, Works
<1>7. QED BY <1>3, <1>4, <1>5, <1>6 DEF WebInv

LEMMA WebNext == WebInv /\ Web!Next => WebInv'
<1>1. ASSUME WebInv, NEW t \in Actors, Web!Handle(t) PROVE WebInv'
  BY <1>1, LoginWeb, LookUpWeb, RotateWeb, LogoutWeb DEF Web!Handle
<1>2. QED
  BY <1>1, SendWeb, ReceiveWeb, LoseWeb, ExpiresWeb, CloseWeb DEF Web!Next

LEMMA WebHolds == Spec => [](under = "web" => WebInv)
<1>1. Init => (under = "web" => WebInv) BY WebInit DEF Init
<1>2. (under = "web" => WebInv) /\ [Next]_vars => (under = "web" => WebInv)'
  <2>1. ASSUME WebInv, UNCHANGED <<v1, v2, v3, v4, v5, v6, v7>> PROVE WebInv'
    BY <2>1 DEF WebInv, Web!TypeOK, Drawn, Private, Alone, MineIsOpened, CookieWorks, Waits,
                Opens, Works, JarAfter, MineAfter
  <2>2. QED BY <2>1, StepOfPart, WebNext
<1>3. QED BY <1>1, <1>2, PTL DEF Spec

\* For any number of tabs and tokens: when nothing is in flight the cookie opens a session,
\* and a browser without one has left none open, unless tabs overlapped, an answer was lost
\* or a statement failed, or, for the first, the session was closed elsewhere
\* (handlers/auth.go, Refresh, Session and Logout).
THEOREM CookiesHaveSessions == Spec => []CookieHasSession
<1>1. ASSUME WebInv PROVE Web!CookieOpensSession /\ Web!NoCookieNoSession
  <2>1. Web!InFlight = {} => Waits BY PlainAnswers DEF Web!InFlight, Waits
  <2>2. Web!CookieOpensSession
    <3>1. v7 \subseteq Web!Causes BY <1>1, WebTyped DEF WebInv
    <3>2. v7 = {} /\ Waits => Works(v1) BY <1>1 DEF WebInv, CookieWorks
    <3>3. QED BY <2>1, <3>1, <3>2 DEF Web!CookieOpensSession, Works, Web!Causes
  <2>3. Web!NoCookieNoSession
    <3>1. \A r \in v3 : r.token # 0 BY <1>1, WebTyped DEF WebInv
    <3>2. v7 \cap {"overlap", "fault"} = {} /\ Waits => Opens(v6, v1)
      BY <1>1 DEF WebInv, MineIsOpened
    <3>3. QED BY <2>1, <3>1, <3>2 DEF Web!NoCookieNoSession, Opens
  <2>4. QED BY <2>2, <2>3
<1>2. (under = "web" => WebInv) => CookieHasSession BY <1>1 DEF CookieHasSession
<1>3. QED BY <1>2, WebHolds, PTL

\* For any number of tabs and tokens: a browser without a cookie gets one by the answer to
\* a login only, unless tabs overlapped (handlers/auth.go, Refresh and Logout).
THEOREM CookiesComeBySigningIn == Spec => CookieBySigningIn
<1>1. ASSUME WebInv, NEW t \in Actors, Web!Receive(t) PROVE Web!SignsIn
  <2>1. /\ v4[t].pc = "answered" /\ v1' \in JarAfter(t) /\ v4' = [v4 EXCEPT ![t] = Web!Idle]
    BY <1>1 DEF Web!Receive, JarAfter
  <2>2. v4'[t] = Web!Idle BY <1>1, <2>1, IdleWeb DEF WebInv
  <2>3. ASSUME v1 = 0, v1' # 0, "overlap" \notin v7 PROVE v4[t].kind = "login"
    BY <1>1, <2>1, <2>3 DEF WebInv, Alone, JarAfter
  <2>4. QED BY <2>1, <2>2, <2>3 DEF Web!SignsIn
<1>2. ASSUME v1' = v1 PROVE Web!SignsIn BY <1>2 DEF Web!SignsIn
<1>3. ASSUME WebInv, Web!Next PROVE Web!SignsIn
  <2>1. ASSUME NEW t \in Actors, Web!Handle(t) PROVE v1' = v1
    BY <2>1 DEF Web!Handle, Web!Login, Web!GetSessionByToken, Web!Rotate, Web!SessionOfBearer,
                Web!Logout, Web!LogoutAll, Web!cookies
  <2>2. ASSUME NEW t \in Actors,
               Web!Lose(t) \/ Web!AccessExpires(t) \/ \E kind \in Web!Kinds : Web!Send(t, kind)
        PROVE  v1' = v1
    BY <2>2 DEF Web!Lose, Web!AccessExpires, Web!Send, Web!cookies
  <2>3. Web!CloseElsewhere => v1' = v1 BY DEF Web!CloseElsewhere, Web!cookies
  <2>4. QED BY <1>1, <1>2, <1>3, <2>1, <2>2, <2>3 DEF Web!Next
<1>4. (under = "web" => WebInv) /\ [Next]_vars => (under = "web" => Web!SignsIn)
  BY <1>2, <1>3, StepOfPart
<1>5. QED BY <1>4, WebHolds, PTL DEF Spec, CookieBySigningIn
-----------------------------------------------------------------------------
(* All parts *)

LEMMA NewsTyped == NewsInv => News!TypeOK
<1> SUFFICES ASSUME NewsInv PROVE News!TypeOK
  OBVIOUS
<1>1. NewsProved!TypeOK BY DEF NewsInv, NewsProved!IInv
<1>2. News!Aside!TypeOK
  BY <1>1 DEF NewsProved!TypeOK, NewsProved!Entry, NewsProved!Request, News!Aside!TypeOK,
              News!Aside!Entry, News!Aside!Request
<1>3. QED BY <1>2 DEF NewsInv, NewsTable, News!TypeOK

LEMMA SugTyped == SugInv => Sug!TypeOK
<1> SUFFICES ASSUME SugInv PROVE Sug!TypeOK
  OBVIOUS
<1>1. SugProved!TypeOK BY DEF SugInv, SugProved!IInv
<1>2. Sug!Aside!TypeOK
  BY <1>1 DEF SugProved!TypeOK, SugProved!Entry, SugProved!Request, Sug!Aside!TypeOK,
              Sug!Aside!Entry, Sug!Aside!Request
<1>3. QED BY <1>2 DEF SugInv, SugTable, Sug!TypeOK

\* The variables of every part are of the types that it declares.
THEOREM TypeCorrect == Spec => []TypeOK
<1>1. Init => under \in Parts BY DEF Init, Parts
<1>2. under \in Parts /\ [Next]_vars => (under \in Parts)' BY StepOfPart
<1>3. Spec => [](under \in Parts) BY <1>1, <1>2, PTL DEF Spec
<1>4. /\ under \in Parts
      /\ under = "hub" => HubInv
      /\ under = "web" => WebInv
      /\ under = "oauth" => OAuthInv
      /\ (under = "noticias" => NewsInv) /\ (under = "sugestoes" => SugInv)
      /\ under = "galeria" => GalInv
      /\ under = "notifications" => ToldInv
      /\ under = "users" => UsersInv
      => TypeOK
  BY NewsTyped, SugTyped
     DEF TypeOK, HubInv, WebInv, OAuthInv, GalInv, ToldInv, UsersInv, MapsInv
<1>5. QED
  BY <1>3, <1>4, HubHolds, WebHolds, OAuthHolds, ListsHold, GalHolds, ToldHolds, UsersHold, PTL
=============================================================================
