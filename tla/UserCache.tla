-------------------------------- MODULE UserCache --------------------------------
(***************************************************************************)
(* The cache of accounts that the process keeps, pkg/services/              *)
(* auth_service.go: two maps, by id and by UUID, to entries that live for   *)
(* fifteen minutes.  setUser is called with what six queries return, and    *)
(* they do not return the same columns; deleteUserCache is called when an   *)
(* e-mail is verified and at a logout, and not when a profile is updated.   *)
(*                                                                         *)
(* An account is its is_verified and its profile, the display name and the  *)
(* avatar of social_profiles.  Which session or token brings a request here *)
(* is in Sessions and Accounts: whoever may call a handler calls it.        *)
(***************************************************************************)
CONSTANTS Users,
          Profiles,
          Blank,      \* no display name and no avatar; a member of Profiles
          Google,     \* those that Google tells; a member of Profiles
          Procs, None

VARIABLES row,      \* tables users and social_profiles
          byID,     \* the entries by id
          byUUID,   \* the entries by UUID
          req,
          late,     \* history: what has changed in the row since a request read it
          drift     \* history: what has changed since the cached entry was read

maps == <<byID, byUUID>>
vars == <<row, maps, req, late, drift>>

-----------------------------------------------------------------------------
User == [verified : BOOLEAN, profile : Profiles]

Account(v, x) == [verified |-> v, profile |-> x]

Fields == {"verified", "profile"}

Sources == {"row", "login", "register", "session", "google"}

\* live: the fifteen minutes are not over.
Entry == [user : User, source : Sources, live : BOOLEAN]

Request == [pc : {"idle", "upsert", "store", "drop"}, of : Users \cup {None},
            source : Sources \cup {"none"}, user : User \cup {None}]

Local(pc, u, source, user) == [pc |-> pc, of |-> u, source |-> source, user |-> user]

Idle == Local("idle", None, "none", None)

At(p, pc) == req[p].pc = pc

Become(p, r) == req' = [req EXCEPT ![p] = r]

Hit(m, u) == m[u] # None /\ m[u].live

Init == /\ row = [u \in Users |-> None]
        /\ byID = [u \in Users |-> None] /\ byUUID = [u \in Users |-> None]
        /\ req = [p \in Procs |-> Idle]
        /\ late = {} /\ drift = {}

-----------------------------------------------------------------------------
(* The maps *)

SetUser(u, e) == /\ byID' = [byID EXCEPT ![u] = e]
                 /\ byUUID' = [byUUID EXCEPT ![u] = e]

\* Mutated form: the entry by UUID stays.
DeleteUserByID(u) == byID' = [byID EXCEPT ![u] = None] /\ UNCHANGED byUUID

\* The UUID is found in the entry by id.
DeleteUserCache(u) ==
    /\ byID' = [byID EXCEPT ![u] = None]
    /\ byUUID' = IF byID[u] = None THEN byUUID ELSE [byUUID EXCEPT ![u] = None]

\* userCacheTTL passes; where both maps have the entry, it is the same one.
Expire(u) ==
    /\ Hit(byID, u) \/ Hit(byUUID, u)
    /\ byID' = IF Hit(byID, u) THEN [byID EXCEPT ![u].live = FALSE] ELSE byID
    /\ byUUID' = IF Hit(byUUID, u) THEN [byUUID EXCEPT ![u].live = FALSE] ELSE byUUID
    /\ UNCHANGED <<row, req, late, drift>>

CleanupUsers(u) ==
    /\ byID[u] # None /\ ~ byID[u].live
    /\ DeleteUserCache(u)
    /\ UNCHANGED <<row, req, late, drift>>

-----------------------------------------------------------------------------
(* Changes of the row *)

\* Requests that have read the row of u, and not yet stored it, are late.
Behind(u) == {p \in Procs : req[p].of = u /\ (At(p, "upsert") \/ At(p, "store"))}

Change(u, new, f) ==
    /\ row' = [row EXCEPT ![u] = new]
    /\ late' = late \cup (Behind(u) \X {f})

\* The maps are not told.
UpdateProfile(u, x) ==
    /\ row[u] # None
    /\ Change(u, [row[u] EXCEPT !.profile = x], "profile")
    /\ drift' = drift \cup {<<u, "profile">>}
    /\ UNCHANGED <<maps, req>>

\* Mutated form: the maps are left alone.
VerifyEmailOnly(p, u) ==
    /\ At(p, "idle") /\ row[u] # None
    /\ Change(u, [row[u] EXCEPT !.verified = TRUE], "verified")
    /\ UNCHANGED <<maps, req, drift>>

\* If the statement fails after it took effect, the maps are not cleared.
VerifyEmail(p, u) ==
    /\ At(p, "idle") /\ row[u] # None
    /\ Change(u, [row[u] EXCEPT !.verified = TRUE], "verified")
    /\ \/ Become(p, Local("drop", u, "none", None)) /\ UNCHANGED drift
       \/ drift' = drift \cup {<<u, "verified">>} /\ UNCHANGED req
    /\ UNCHANGED maps

Drop(p) ==
    /\ At(p, "drop")
    /\ DeleteUserCache(req[p].of)
    /\ Become(p, Idle)
    /\ UNCHANGED <<row, late, drift>>

\* Logout and LogoutAll, after their statement.
Logout(u) ==
    /\ DeleteUserCache(u)
    /\ UNCHANGED <<row, req, late, drift>>

-----------------------------------------------------------------------------
(* Requests that read an account and store it *)

Read(p, u, source, user) ==
    /\ Become(p, Local("store", u, source, user))
    /\ UNCHANGED <<maps, drift>>

Lookup(p, u, source, user) ==
    /\ At(p, "idle") /\ row[u] # None
    /\ Read(p, u, source, user)
    /\ UNCHANGED <<row, late>>

\* Mutated form: social_profiles is not joined.
MeAlone(p, u) == ~ Hit(byID, u) /\ Lookup(p, u, "row", Account(row[u].verified, Blank))

\* An entry that lives is the answer.
Me(p, u) == ~ Hit(byID, u) /\ Lookup(p, u, "row", row[u])

GetUserByUUID(p, u) == ~ Hit(byUUID, u) /\ Lookup(p, u, "row", row[u])

\* GetUserByUsername does not read social_profiles.
Login(p, u) == row[u] # None /\ row[u].verified /\ Lookup(p, u, "login", Account(TRUE, Blank))

\* Refresh, and Session: GetSessionByToken does not read is_verified.
GetSessionByToken(p, u) == Lookup(p, u, "session", Account(FALSE, row[u].profile))

\* The statements that come before setUser fail: UpdateSession, in Refresh.
GiveUp(p) ==
    /\ At(p, "store") /\ req[p].source = "session"
    /\ Become(p, Idle)
    /\ late' = late \ ({p} \X Fields)
    /\ UNCHANGED <<row, maps, drift>>

\* Without a token of verification there is nothing to store.
Register(p, u) ==
    /\ At(p, "idle") /\ row[u] = None
    /\ Change(u, Account(FALSE, Blank), "verified")
    /\ \/ Read(p, u, "register", Account(FALSE, Blank))
       \/ UNCHANGED <<maps, drift, req>>

\* GetOrCreateGoogleUser links the account that has the address, and verifies it, or
\* creates one; or it returns an account as it is: one that is linked, or one whose
\* username was asked for and that is renamed, verified or not (ON CONFLICT).
GoogleUser(p, u) ==
    /\ At(p, "idle")
    /\ \/ /\ Change(u, Account(TRUE, IF row[u] = None THEN Blank ELSE row[u].profile), "verified")
          /\ Become(p, Local("upsert", u, "google", Account(TRUE, Google)))
       \/ /\ row[u] # None /\ UNCHANGED <<row, late>>
          /\ Become(p, Local("upsert", u, "google", Account(row[u].verified, Google)))
    /\ UNCHANGED <<maps, drift>>

\* What the profile lacks is taken from Google, the error is ignored, and the answer
\* has what Google tells in any case.
UpsertSocialProfile(p) ==
    /\ At(p, "upsert")
    /\ LET u == req[p].of
       IN /\ \/ row[u].profile = Blank /\ Change(u, Account(row[u].verified, Google), "profile")
             \/ UNCHANGED <<row, late>>
          /\ Read(p, u, "google", req[p].user)

Store(p) ==
    /\ At(p, "store")
    /\ LET u == req[p].of
       IN /\ SetUser(u, [user |-> req[p].user, source |-> req[p].source, live |-> TRUE])
          /\ drift' = (drift \ ({u} \X Fields)) \cup {<<u, f>> : f \in {g \in Fields : <<p, g>> \in late}}
    /\ late' = late \ ({p} \X Fields)
    /\ Become(p, Idle)
    /\ UNCHANGED row

-----------------------------------------------------------------------------
\* The process starts with empty maps.
Restart ==
    /\ byID' = [u \in Users |-> None] /\ byUUID' = [u \in Users |-> None]
    /\ req' = [p \in Procs |-> Idle]
    /\ late' = {} /\ drift' = {}
    /\ UNCHANGED row

Next ==
    \/ \E p \in Procs :
          \/ \E u \in Users : \/ Me(p, u) \/ GetUserByUUID(p, u) \/ Login(p, u)
                              \/ GetSessionByToken(p, u) \/ Register(p, u)
                              \/ GoogleUser(p, u) \/ VerifyEmail(p, u)
          \/ UpsertSocialProfile(p) \/ Store(p) \/ GiveUp(p) \/ Drop(p)
    \/ \E u \in Users : \/ Expire(u) \/ CleanupUsers(u) \/ Logout(u)
                        \/ \E x \in Profiles : UpdateProfile(u, x)
    \/ Restart

Spec == Init /\ [][Next]_vars

-----------------------------------------------------------------------------
(* Properties *)

\* The row and the entries are accounts, and each request is of one of its kinds.
TypeOK ==
    /\ row \in [Users -> User \cup {None}]
    /\ byID \in [Users -> Entry \cup {None}]
    /\ byUUID \in [Users -> Entry \cup {None}]
    /\ req \in [Procs -> Request]
    /\ late \subseteq Procs \X Fields
    /\ drift \subseteq Users \X Fields

\* Whoever asks by id and whoever asks by UUID is told the same: the maps are changed
\* together, and expire together (setUser, deleteUserCache, cleanupUsers).
MapsAgree == \A u \in Users : Hit(byID, u) \/ Hit(byUUID, u) => byID[u] = byUUID[u]

\* An e-mail is being verified, or Google has told the account, and the entry is about
\* to go or to be replaced.
Renewing(u) == \E p \in Procs : req[p].of = u /\ (At(p, "drop") \/ req[p].source = "google")

\* The cache does not say that an account is verified when it is not.  It says that
\* one is not verified when it is, only if the account was read with its session
\* (GetSessionByToken), or the reader was overtaken by the verification, or the entry
\* is about to go.
VerifiedHasCause ==
    \A u \in Users : Hit(byID, u) /\ byID[u].user.verified # row[u].verified =>
        /\ row[u].verified
        /\ \/ byID[u].source = "session" \/ <<u, "verified">> \in drift \/ Renewing(u)

\* The cache has another display name or avatar than the profile only if the query
\* that it came from does not read them (Register, Login), or it is what Google told
\* (GoogleCallback), or the profile was updated since it was read, or the entry is
\* about to be replaced.
ProfileHasCause ==
    \A u \in Users : Hit(byID, u) /\ byID[u].user.profile # row[u].profile =>
        \/ byID[u].source \in {"register", "login", "google"}
        \/ <<u, "profile">> \in drift \/ Renewing(u)
=============================================================================
