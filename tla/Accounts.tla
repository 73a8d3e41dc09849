------------------------------- MODULE Accounts -------------------------------
(***************************************************************************)
(* How an account comes to be and to be verified: Register, VerifyEmail and *)
(* the account of a Google login, pkg/services/auth_service.go over the     *)
(* statements of pkg/repository/auth_repository.go.                         *)
(*                                                                         *)
(* As in Sessions, a request is a goroutine, a SQL statement is one atomic  *)
(* action, and other requests run between two statements of a handler.  The *)
(* three statements of GetOrCreateGoogleUser are no transaction, and each   *)
(* is tried after any error of the one before.                              *)
(*                                                                         *)
(* Abstractions.  An account registers once and gets one verification token *)
(* then, so the token is named by its account.  A user name that got a      *)
(* random suffix is Renamed: nobody asks for it.  username, email and       *)
(* google_id are unique, as the ER diagram of README.md says, and names and *)
(* addresses have one case.  Passwords, social_profiles (an upsert that     *)
(* keeps what is there) and the cache of users are left out.                *)
(***************************************************************************)
EXTENDS Naturals, FiniteSets

CONSTANTS Names,        \* user names that are asked for
          Emails,
          Profiles,     \* what Google may say of the one who logs in: an identity may
                        \* change its address, and an address may pass to another
          NoIdentity,   \* google_id IS NULL
          Renamed,      \* any user name with a random suffix
          Procs,        \* request goroutines that may be in flight at once
          MaxAccounts,  \* bound on the accounts ever inserted
          MaxFaults     \* bound on failed statements and restarts

Identities == {g.sub : g \in Profiles}

ASSUME ProfilesAssumption ==
    \A g \in Profiles : g.email \in Emails /\ g.name \in Names /\ g.sub # NoIdentity
ASSUME BoundsAssumption == MaxAccounts \in Nat /\ MaxFaults \in Nat
ASSUME RenamedAssumption == Renamed \notin Names

VARIABLES users,     \* table users
          tokens,    \* table email_verification_tokens
          req,       \* the requests in flight
          faults,    \* statements that failed and restarts so far
          refused    \* history: accounts whose link was used in time and turned away

vars == <<users, tokens, req, faults, refused>>

-----------------------------------------------------------------------------
(* Tables and requests *)

Ids == 1 .. MaxAccounts

User == [id : Ids, name : Names \cup {Renamed}, email : Emails,
         google : Identities \cup {NoIdentity}, verified : BOOLEAN]

Token == [user : Ids, expired : BOOLEAN]

\* user is the account the handler holds; profile is what Google said.
Local(pc, u, g) == [pc |-> pc, user |-> u, profile |-> g]

NoProfile == [sub |-> NoIdentity]

Idle == Local("idle", 0, NoProfile)

Request == {Idle}
           \cup [pc : {"token", "drop", "verify", "consume"}, user : Ids, profile : {NoProfile}]
           \cup [pc : {"find", "link", "create"}, user : {0}, profile : Profiles]
           \cup [pc : {"signin"}, user : Ids, profile : Profiles]

Start(p, r) == req[p] = Idle /\ req' = [req EXCEPT ![p] = r]

Goto(p, pc) == req' = [req EXCEPT ![p] = Local(pc, @.user, @.profile)]

Return(p) == req' = [req EXCEPT ![p] = Idle]

Fault == faults < MaxFaults /\ faults' = faults + 1

Init == /\ users = {} /\ tokens = {} /\ refused = {}
        /\ req = [p \in Procs |-> Idle]
        /\ faults = 0

\* The serial of the table.
NewId == Cardinality(users) + 1

Row(id, name, email, google, verified) ==
    [id |-> id, name |-> name, email |-> email, google |-> google, verified |-> verified]

Insert(name, email, google, verified) ==
    NewId \in Ids /\ users' = users \cup {Row(NewId, name, email, google, verified)}

Named(name) == {u \in users : u.name = name}

WithEmail(email) == {u \in users : u.email = email}

\* The account of an identity.
LinkedTo(sub) == {u \in users : u.google = sub}

SetRow(u, row) == users' = (users \ {u}) \cup {row}

Verified(u) == Row(u.id, u.name, u.email, u.google, TRUE)

Linked(u, sub) == Row(u.id, u.name, u.email, sub, TRUE)

WithNewName(u) == Row(u.id, Renamed, u.email, u.google, u.verified)

-----------------------------------------------------------------------------
(* Register *)

\* CreateUser; a name or an address that is taken answers Conflict.
Register(p, name, email) ==
    /\ Named(name) = {} /\ WithEmail(email) = {}
    /\ Insert(name, email, NoIdentity, FALSE)
    /\ Start(p, Local("token", NewId, NoProfile))
    /\ UNCHANGED <<tokens, faults, refused>>

\* If it fails the request ends, and the account stays.
CreateEmailVerificationToken(p) ==
    /\ req[p].pc = "token"
    /\ \/ /\ tokens' = tokens \cup {[user |-> req[p].user, expired |-> FALSE]}
          /\ UNCHANGED faults
       \/ Fault /\ UNCHANGED tokens
    /\ Return(p)
    /\ UNCHANGED <<users, refused>>

-----------------------------------------------------------------------------
(* VerifyEmail *)

\* Mutated form: the account is not marked as verified.
VerifyEmailUnmarked(p) ==
    /\ \E t \in tokens :
          Start(p, Local(IF t.expired THEN "consume" ELSE "drop", t.user, NoProfile))
    /\ UNCHANGED <<users, tokens, faults, refused>>

\* The token was read.  The comparison at lines 296-299 is that of ResetPassword: a
\* token in time is taken for expired, and one past its time is accepted.
VerifyEmail(p) ==
    /\ \E t \in tokens :
          Start(p, Local(IF t.expired THEN "verify" ELSE "drop", t.user, NoProfile))
    /\ UNCHANGED <<users, tokens, faults, refused>>

DeleteToken(p) == tokens' = {t \in tokens : t.user # req[p].user}

\* The error is ignored.
DropToken(p) ==
    /\ req[p].pc = "drop"
    /\ \/ DeleteToken(p) /\ refused' = refused \cup {req[p].user} /\ UNCHANGED faults
       \/ Fault /\ UNCHANGED <<tokens, refused>>
    /\ Return(p)
    /\ UNCHANGED users

\* An error here ends the request.
SetVerified(p) ==
    /\ req[p].pc = "verify"
    /\ \/ /\ \E u \in users : u.id = req[p].user /\ SetRow(u, Verified(u))
          /\ Goto(p, "consume") /\ UNCHANGED faults
       \/ Fault /\ Return(p) /\ UNCHANGED users
    /\ UNCHANGED <<tokens, refused>>

\* The error is ignored.
ConsumeToken(p) ==
    /\ req[p].pc = "consume"
    /\ \/ DeleteToken(p) /\ UNCHANGED faults
       \/ Fault /\ UNCHANGED tokens
    /\ Return(p)
    /\ UNCHANGED <<users, refused>>

-----------------------------------------------------------------------------
(* GoogleCallback: GetOrCreateGoogleUser *)

GoogleCallback(p, g) ==
    /\ Start(p, Local("find", 0, g))
    /\ UNCHANGED <<users, tokens, faults, refused>>

SignIn(p, id) == req' = [req EXCEPT ![p] = Local("signin", id, @.profile)]

\* Mutated form: an account with the address will do, and is not linked.
FindByEmail(p) ==
    /\ req[p].pc = "find"
    /\ IF WithEmail(req[p].profile.email) = {} THEN Goto(p, "link")
       ELSE \E u \in WithEmail(req[p].profile.email) : SignIn(p, u.id)
    /\ UNCHANGED <<users, tokens, refused, faults>>

\* Mutated form: the error is not looked at, and the account is the zero value.
FindAnyhow(p) ==
    /\ req[p].pc = "find"
    /\ \/ (\E u \in LinkedTo(req[p].profile.sub) : SignIn(p, u.id)) /\ UNCHANGED faults
       \/ LinkedTo(req[p].profile.sub) = {} /\ Goto(p, "link") /\ UNCHANGED faults
       \/ Fault /\ Goto(p, "signin")
    /\ UNCHANGED <<users, tokens, refused>>

\* 1. "Existing Google-linked account": an error is taken for none.
Find(p) ==
    /\ req[p].pc = "find"
    /\ \/ (\E u \in LinkedTo(req[p].profile.sub) : SignIn(p, u.id)) /\ UNCHANGED faults
       \/ LinkedTo(req[p].profile.sub) = {} /\ Goto(p, "link") /\ UNCHANGED faults
       \/ Fault /\ Goto(p, "link")
    /\ UNCHANGED <<users, tokens, refused>>

\* Mutated form: the account is looked up by the name of the profile.
LinkByName(p) ==
    /\ req[p].pc = "link"
    /\ IF Named(req[p].profile.name) = {} THEN Goto(p, "create") /\ UNCHANGED users
       ELSE \E u \in Named(req[p].profile.name) :
               /\ SetRow(u, Linked(u, req[p].profile.sub))
               /\ SignIn(p, u.id)
    /\ UNCHANGED <<tokens, refused, faults>>

\* 2. "Account with same email": the UPDATE finds none, fails, or would give the
\* identity of another account.  It does not ask whether the account is linked already.
Link(p) ==
    /\ req[p].pc = "link"
    /\ LET g == req[p].profile IN
       \/ /\ \E u \in WithEmail(g.email) :
                /\ LinkedTo(g.sub) \subseteq {u}
                /\ SetRow(u, Linked(u, g.sub))
                /\ SignIn(p, u.id)
          /\ UNCHANGED faults
       \/ /\ \A u \in WithEmail(g.email) : ~ LinkedTo(g.sub) \subseteq {u}
          /\ Goto(p, "create") /\ UNCHANGED <<users, faults>>
       \/ Fault /\ Goto(p, "create") /\ UNCHANGED users
    /\ UNCHANGED <<tokens, refused>>

\* 3. "Brand new user": ON CONFLICT (username) the account that has the name gets
\* another one, and is what the statement returns.  An insert beyond MaxAccounts fails:
\* it is the bound of the model.
Create(p) ==
    /\ req[p].pc = "create"
    /\ LET g == req[p].profile IN
       \/ /\ \E u \in Named(g.name) : SetRow(u, WithNewName(u)) /\ SignIn(p, u.id)
          /\ UNCHANGED faults
       \/ /\ Named(g.name) = {} /\ WithEmail(g.email) = {} /\ LinkedTo(g.sub) = {}
          /\ Insert(g.name, g.email, g.sub, TRUE)
          /\ SignIn(p, NewId) /\ UNCHANGED faults
       \/ /\ Named(g.name) = {}
          /\ WithEmail(g.email) \cup LinkedTo(g.sub) # {} \/ NewId \notin Ids
          /\ Return(p) /\ UNCHANGED <<users, faults>>
       \/ Fault /\ Return(p) /\ UNCHANGED users
    /\ UNCHANGED <<tokens, refused>>

\* The session of the account is Sessions' concern.
CreateSessionAndRespond(p) ==
    /\ req[p].pc = "signin"
    /\ Return(p)
    /\ UNCHANGED <<users, tokens, faults, refused>>

-----------------------------------------------------------------------------
\* The 24 hours of a token pass.  Nothing purges the table.
TokenExpires(t) ==
    /\ ~ t.expired
    /\ tokens' = (tokens \ {t}) \cup {[user |-> t.user, expired |-> TRUE]}
    /\ UNCHANGED <<users, req, faults, refused>>

\* The server stops and starts again: the requests in flight are lost.
Restart ==
    /\ Fault
    /\ req' = [p \in Procs |-> Idle]
    /\ UNCHANGED <<users, tokens, refused>>

Continue(p) ==
    \/ CreateEmailVerificationToken(p)
    \/ DropToken(p) \/ SetVerified(p) \/ ConsumeToken(p)
    \/ Find(p) \/ Link(p) \/ Create(p) \/ CreateSessionAndRespond(p)

Next ==
    \/ \E p \in Procs :
          \/ Continue(p) \/ VerifyEmail(p)
          \/ \E name \in Names, email \in Emails : Register(p, name, email)
          \/ \E g \in Profiles : GoogleCallback(p, g)
    \/ \E t \in tokens : TokenExpires(t)
    \/ Restart

Spec == Init /\ [][Next]_vars

-----------------------------------------------------------------------------
(* Properties *)

\* The tables hold rows of their columns, and a request the locals of its handler.
TypeOK ==
    /\ users \subseteq User
    /\ tokens \subseteq Token
    /\ req \in [Procs -> Request]
    /\ faults \in 0 .. MaxFaults
    /\ refused \subseteq Ids

\* An account that is not verified can be: its token is there or about to be.
\* Otherwise a statement failed or the server stopped between the two inserts of
\* Register, or its link was used in time and refused (lines 153 and 296-303).
UnverifiedCanVerify ==
    \A u \in users :
        \/ u.verified
        \/ \E t \in tokens : t.user = u.id
        \/ \E p \in Procs : req[p].pc = "token" /\ req[p].user = u.id
        \/ faults > 0
        \/ u.id \in refused

\* Ids are those of the serial, and requests and tokens refer to accounts inserted.
Serial ==
    /\ IsFiniteSet(users)
    /\ \A u, w \in users : u.id = w.id => u = w
    /\ \A u \in users : u.id <= Cardinality(users)
    /\ \A p \in Procs : req[p].user <= Cardinality(users)
    /\ \A t \in tokens : t.user <= Cardinality(users)

\* What is left to VerifyEmail after its UPDATE is to delete the token of an account
\* that is verified.
ConsumesVerified ==
    \A p \in Procs : req[p].pc = "consume" =>
        \A u \in users : u.id = req[p].user => u.verified

\* A linked account has an address that Google gave to its identity.
LinkedByEmail ==
    \A u \in users : u.google # NoIdentity =>
        \E g \in Profiles : g.sub = u.google /\ g.email = u.email

\* The inductive invariant of AccountsProofs.
IInv == TypeOK /\ Serial /\ ConsumesVerified /\ LinkedByEmail /\ UnverifiedCanVerify

\* Google gives the address of u to both identities.
ShareAddress(u, sub1, sub2) ==
    \E g, h \in Profiles : /\ g.sub = sub1 /\ h.sub = sub2
                          /\ g.email = u.email /\ h.email = u.email

\* Once an account is linked to Google it stays so, and to the same identity unless
\* Google has given the address of the account to another one as well: whatever callbacks
\* of this and other identities overlap and fail half-way, and although an identity comes
\* back with another address (GetOrCreateGoogleUser, lines 174-178).
LinkFollowsAddress ==
    [][\A u \in users : u.google # NoIdentity =>
          \E w \in users' :
             /\ w.id = u.id /\ w.google # NoIdentity
             /\ w.google # u.google => ShareAddress(u, u.google, w.google)]_vars

SignsIn(p) == req[p].pc # "signin" /\ req'[p].pc = "signin"

Signed(p) == {u \in users' : u.id = req'[p].user}

\* Who logs in with Google gets the account linked to that identity, unless the name
\* was taken: then it is the account that had the name, and was renamed.
SignsInToLinkedOrRenamed ==
    [][\A p \in Procs : SignsIn(p) =>
          \E u \in Signed(p) : u.google = req[p].profile.sub \/ u.name = Renamed]_vars

\* "finds a user by google_id or email, creating one if needed"
\* (auth_repository.go:151): the account is linked to the identity in any case.
SignsInToLinked ==
    [][\A p \in Procs : SignsIn(p) =>
          \E u \in Signed(p) : u.google = req[p].profile.sub]_vars
=============================================================================
