--------------------------- MODULE AccountsProofs ---------------------------
(***************************************************************************)
(* Theorems about Accounts.tla, for every set of names, addresses, profiles *)
(* and requests and every value of the bounds.                              *)
(***************************************************************************)
EXTENDS Accounts, FiniteSetTheorems, TLAPS

-----------------------------------------------------------------------------
(* What a step does to the table of accounts *)

LinkOK(row) ==
    row.google # NoIdentity => \E g \in Profiles : g.sub = row.google /\ g.email = row.email

\* An UPDATE of u: its verification stays, and it stays linked, to the same identity or
\* to another one with its address.
Keeps(u, row) ==
    /\ row \in User /\ row.id = u.id /\ LinkOK(row)
    /\ u.verified = TRUE => row.verified = TRUE
    /\ u.google # NoIdentity => /\ row.google # NoIdentity
                                /\ row.google # u.google =>
                                      ShareAddress(u, u.google, row.google)

Updates == \E u \in users : \E row \in User : Keeps(u, row) /\ SetRow(u, row)

Inserts == NewId \in Ids /\ \E row \in User : /\ row.id = NewId /\ LinkOK(row)
                                              /\ users' = users \cup {row}

UsersStep == users' = users \/ Updates \/ Inserts

LEMMA VerifyUpdates ==
    ASSUME TypeOK, LinkedByEmail, NEW u \in users
    PROVE  Verified(u) \in User /\ Keeps(u, Verified(u)) /\ Verified(u).verified = TRUE
<1>1. u \in User BY DEF TypeOK
<1>2. /\ u.id \in Ids /\ u.name \in Names \cup {Renamed} /\ u.email \in Emails
      /\ u.google \in Identities \cup {NoIdentity}
  BY <1>1 DEF User
<1>3. LinkOK(u) BY DEF LinkedByEmail, LinkOK
<1>4. QED BY <1>2, <1>3 DEF Verified, Row, User, Keeps, LinkOK

LEMMA RenameUpdates ==
    ASSUME TypeOK, LinkedByEmail, NEW u \in users
    PROVE  WithNewName(u) \in User /\ Keeps(u, WithNewName(u))
<1>1. u \in User BY DEF TypeOK
<1>2. /\ u.id \in Ids /\ u.verified \in BOOLEAN /\ u.email \in Emails
      /\ u.google \in Identities \cup {NoIdentity}
  BY <1>1 DEF User
<1>3. LinkOK(u) BY DEF LinkedByEmail, LinkOK
<1>4. QED BY <1>2, <1>3 DEF WithNewName, Row, User, Keeps, LinkOK

\* Whoever has the address that Google gives is linked to no identity, to this one, or to
\* another one to which Google gave the address.
LEMMA LinkUpdates ==
    ASSUME TypeOK, LinkedByEmail, NEW g \in Profiles, NEW u \in WithEmail(g.email)
    PROVE  Linked(u, g.sub) \in User /\ Keeps(u, Linked(u, g.sub))
<1>1. u \in User /\ u \in users /\ u.email = g.email BY DEF TypeOK, WithEmail
<1>2. /\ u.id \in Ids /\ u.name \in Names \cup {Renamed} /\ u.email \in Emails
      /\ g.sub \in Identities /\ g.sub # NoIdentity
  BY <1>1, ProfilesAssumption DEF User, Identities
<1>3. u.google # NoIdentity => ShareAddress(u, u.google, g.sub)
  BY <1>1 DEF LinkedByEmail, ShareAddress
<1>4. QED BY <1>1, <1>2, <1>3 DEF Linked, Row, User, Keeps, LinkOK

LEMMA CreateInserts ==
    ASSUME NEW g \in Profiles, Insert(g.name, g.email, g.sub, TRUE)
    PROVE  Inserts
<1>1. g.name \in Names /\ g.email \in Emails /\ g.sub \in Identities
  BY ProfilesAssumption DEF Identities
<1>2. QED BY <1>1 DEF Insert, Inserts, LinkOK, Row, User

LEMMA RegisterInserts ==
    ASSUME NEW name \in Names, NEW email \in Emails, Insert(name, email, NoIdentity, FALSE)
    PROVE  Inserts
BY DEF Insert, Inserts, LinkOK, Row, User

\* A request at a statement of GetOrCreateGoogleUser has a profile.
LEMMA HasProfile ==
    ASSUME TypeOK, NEW p \in Procs, req[p].pc \in {"find", "link", "create"}
    PROVE  req[p].profile \in Profiles
<1>1. req[p] \in Request BY DEF TypeOK
<1>2. QED BY <1>1 DEF Request, Idle, Local

LEMMA UsersSteps == TypeOK /\ LinkedByEmail /\ [Next]_vars => UsersStep
<1> SUFFICES ASSUME TypeOK, LinkedByEmail, [Next]_vars PROVE UsersStep
  OBVIOUS
<1>1. ASSUME NEW p \in Procs, NEW name \in Names, NEW email \in Emails, Register(p, name, email)
      PROVE  UsersStep
  BY <1>1, RegisterInserts DEF Register, UsersStep
<1>2. ASSUME NEW p \in Procs, SetVerified(p)
      PROVE  UsersStep
  BY <1>2, VerifyUpdates DEF SetVerified, UsersStep, Updates
<1>3. ASSUME NEW p \in Procs, Link(p)
      PROVE  UsersStep
  <2> DEFINE g == req[p].profile
  <2>1. g \in Profiles BY <1>3, HasProfile DEF Link
  <2>2. CASE \E u \in WithEmail(g.email) : SetRow(u, Linked(u, g.sub))
    <3>1. PICK u \in WithEmail(g.email) : SetRow(u, Linked(u, g.sub))
      BY <2>2
    <3>2. u \in users BY DEF WithEmail
    <3>3. QED BY <2>1, <3>1, <3>2, LinkUpdates DEF UsersStep, Updates
  <2>3. CASE users' = users
    BY <2>3 DEF UsersStep
  <2>4. QED BY <1>3, <2>2, <2>3 DEF Link
<1>4. ASSUME NEW p \in Procs, Create(p)
      PROVE  UsersStep
  BY <1>4, HasProfile, RenameUpdates, CreateInserts
     DEF Create, UsersStep, Updates, Named
<1>5. ASSUME NEW p \in Procs,
             \/ CreateEmailVerificationToken(p) \/ DropToken(p) \/ ConsumeToken(p) \/ Find(p)
             \/ CreateSessionAndRespond(p) \/ VerifyEmail(p)
             \/ \E g \in Profiles : GoogleCallback(p, g)
      PROVE  UsersStep
  BY <1>5 DEF CreateEmailVerificationToken, DropToken, ConsumeToken, Find,
              CreateSessionAndRespond, VerifyEmail, GoogleCallback, UsersStep
<1>6. (\E t \in tokens : TokenExpires(t)) \/ Restart \/ UNCHANGED vars => UsersStep
  BY DEF TokenExpires, Restart, vars, UsersStep
<1>7. QED BY <1>1, <1>2, <1>3, <1>4, <1>5, <1>6 DEF Next, Continue

LEMMA LinksKept ==
    TypeOK /\ LinkedByEmail /\ UsersStep => LinkedByEmail' /\ users' \subseteq User
BY DEF TypeOK, LinkedByEmail, UsersStep, Updates, Inserts, Keeps, LinkOK, SetRow

-----------------------------------------------------------------------------
(* Typing *)

ReqOK(r) == r \in [Procs -> Request]

LEMMA RequestTypes ==
    /\ Idle \in Request
    /\ \A pc \in {"token", "drop", "verify", "consume"}, u \in Ids :
          Local(pc, u, NoProfile) \in Request
    /\ \A pc \in {"find", "link", "create"}, g \in Profiles : Local(pc, 0, g) \in Request
    /\ \A u \in Ids, g \in Profiles : Local("signin", u, g) \in Request
BY DEF Request, Local

\* What a request holds, by where it is.
LEMMA Holds ==
    ASSUME TypeOK, NEW p \in Procs
    PROVE  /\ req[p] \in Request
           /\ req[p].pc \in {"token", "drop", "verify", "consume"} =>
                 req[p].user \in Ids /\ req[p].profile = NoProfile
           /\ req[p].pc \in {"find", "link", "create"} =>
                 req[p].user = 0 /\ req[p].profile \in Profiles
<1>1. req[p] \in Request BY DEF TypeOK
<1>2. QED BY <1>1 DEF Request, Idle, Local

LEMMA ReqMoves ==
    ASSUME TypeOK, NEW p \in Procs
    PROVE  /\ Return(p) => ReqOK(req')
           /\ \A r \in Request : Start(p, r) => ReqOK(req')
           /\ req[p].pc = "verify" /\ Goto(p, "consume") => ReqOK(req')
           /\ req[p].pc = "find" /\ Goto(p, "link") => ReqOK(req')
           /\ req[p].pc = "link" /\ Goto(p, "create") => ReqOK(req')
           /\ \A u \in Ids : req[p].pc \in {"find", "link", "create"} /\ SignIn(p, u)
                                => ReqOK(req')
<1>1. req \in [Procs -> Request] BY DEF TypeOK
<1>2. QED BY <1>1, Holds, RequestTypes DEF Return, Start, Goto, SignIn, ReqOK

LEMMA TypeStep == TypeOK /\ LinkedByEmail /\ [Next]_vars => TypeOK'
<1> SUFFICES ASSUME TypeOK, LinkedByEmail, [Next]_vars PROVE TypeOK'
  OBVIOUS
<1>u. users' \subseteq User BY UsersSteps, LinksKept
<1>f. faults \in 0 .. MaxFaults /\ (Fault => faults' \in 0 .. MaxFaults)
  BY BoundsAssumption DEF TypeOK, Fault
<1>i. /\ tokens \subseteq Token /\ refused \subseteq Ids /\ req \in [Procs -> Request]
      /\ \A u \in users : u.id \in Ids
      /\ \A t \in tokens : t.user \in Ids
  BY DEF TypeOK, User, Token
<1>1. ASSUME NEW p \in Procs, NEW name \in Names, NEW email \in Emails, Register(p, name, email)
      PROVE  TypeOK'
  <2>1. NewId \in Ids BY <1>1 DEF Register, Insert
  <2>2. ReqOK(req') BY <1>1, <2>1, RequestTypes, ReqMoves DEF Register
  <2>3. QED BY <1>1, <1>u, <1>f, <1>i, <2>2 DEF Register, TypeOK, ReqOK
<1>2. ASSUME NEW p \in Procs, CreateEmailVerificationToken(p)
      PROVE  TypeOK'
  <2>1. [user |-> req[p].user, expired |-> FALSE] \in Token
    BY <1>2, Holds DEF CreateEmailVerificationToken, Token
  <2>2. tokens' \subseteq Token BY <1>2, <1>i, <2>1 DEF CreateEmailVerificationToken
  <2>3. ReqOK(req') BY <1>2, ReqMoves DEF CreateEmailVerificationToken
  <2>4. QED BY <1>2, <1>u, <1>f, <1>i, <2>2, <2>3
            DEF CreateEmailVerificationToken, TypeOK, ReqOK
<1>3. ASSUME NEW p \in Procs, VerifyEmail(p)
      PROVE  TypeOK'
  <2>1. PICK t \in tokens :
           Start(p, Local(IF t.expired THEN "verify" ELSE "drop", t.user, NoProfile))
    BY <1>3 DEF VerifyEmail
  <2>2. ReqOK(req') BY <2>1, <1>i, RequestTypes, ReqMoves
  <2>3. QED BY <1>3, <1>u, <1>f, <1>i, <2>2 DEF VerifyEmail, TypeOK, ReqOK
<1>4. ASSUME NEW p \in Procs, DropToken(p) \/ ConsumeToken(p)
      PROVE  TypeOK'
  <2>1. ReqOK(req') BY <1>4, ReqMoves DEF DropToken, ConsumeToken
  <2>2. tokens' \subseteq Token BY <1>4, <1>i DEF DropToken, ConsumeToken, DeleteToken
  <2>3. refused' \subseteq Ids BY <1>4, <1>i, Holds DEF DropToken, ConsumeToken
  <2>4. QED BY <1>4, <1>u, <1>f, <2>1, <2>2, <2>3 DEF DropToken, ConsumeToken, TypeOK, ReqOK
<1>5. ASSUME NEW p \in Procs, SetVerified(p)
      PROVE  TypeOK'
  <2>1. ReqOK(req') BY <1>5, ReqMoves DEF SetVerified
  <2>2. QED BY <1>5, <1>u, <1>f, <1>i, <2>1 DEF SetVerified, TypeOK, ReqOK
<1>6. ASSUME NEW p \in Procs, NEW g \in Profiles, GoogleCallback(p, g)
      PROVE  TypeOK'
  <2>1. ReqOK(req') BY <1>6, RequestTypes, ReqMoves DEF GoogleCallback
  <2>2. QED BY <1>6, <1>u, <1>f, <1>i, <2>1 DEF GoogleCallback, TypeOK, ReqOK
<1>7. ASSUME NEW p \in Procs, Find(p)
      PROVE  TypeOK'
  <2>1. ReqOK(req') BY <1>7, <1>i, ReqMoves DEF Find, LinkedTo
  <2>2. QED BY <1>7, <1>u, <1>f, <1>i, <2>1 DEF Find, TypeOK, ReqOK
<1>8. ASSUME NEW p \in Procs, Link(p)
      PROVE  TypeOK'
  <2>1. ReqOK(req') BY <1>8, <1>i, ReqMoves DEF Link, WithEmail
  <2>2. QED BY <1>8, <1>u, <1>f, <1>i, <2>1 DEF Link, TypeOK, ReqOK
<1>9. ASSUME NEW p \in Procs, Create(p)
      PROVE  TypeOK'
  <2>1. ReqOK(req') BY <1>9, <1>i, ReqMoves DEF Create, Named, Insert
  <2>2. QED BY <1>9, <1>u, <1>f, <1>i, <2>1 DEF Create, TypeOK, ReqOK
<1>10. ASSUME NEW p \in Procs, CreateSessionAndRespond(p)
       PROVE  TypeOK'
  <2>1. ReqOK(req') BY <1>10, ReqMoves DEF CreateSessionAndRespond
  <2>2. QED BY <1>10, <1>u, <1>f, <1>i, <2>1 DEF CreateSessionAndRespond, TypeOK, ReqOK
<1>11. ASSUME NEW t \in tokens, TokenExpires(t)
       PROVE  TypeOK'
  <2>1. [user |-> t.user, expired |-> TRUE] \in Token BY <1>i DEF Token
  <2>2. QED BY <1>11, <1>u, <1>f, <1>i, <2>1 DEF TokenExpires, TypeOK
<1>12. CASE Restart
  <2>1. req' \in [Procs -> Request] BY <1>12, RequestTypes DEF Restart
  <2>2. QED BY <1>12, <1>u, <1>f, <1>i, <2>1 DEF Restart, TypeOK
<1>13. CASE UNCHANGED vars
  BY <1>13, <1>i, <1>u, <1>f DEF vars, TypeOK
<1>14. QED
  BY <1>1, <1>2, <1>3, <1>4, <1>5, <1>6, <1>7, <1>8, <1>9, <1>10, <1>11, <1>12, <1>13
     DEF Next, Continue

LEMMA InitOK == Init => TypeOK /\ LinkedByEmail
BY BoundsAssumption, RequestTypes DEF Init, TypeOK, LinkedByEmail

LEMMA TypedAndLinked == Spec => [](TypeOK /\ LinkedByEmail)
<1>1. TypeOK /\ LinkedByEmail /\ [Next]_vars => (TypeOK /\ LinkedByEmail)'
  BY TypeStep, UsersSteps, LinksKept
<1>2. QED BY <1>1, InitOK, PTL DEF Spec

\* Every step of register, verify and Google's callback leaves the tables rows of
\* their columns, and the requests the locals of their handlers.
THEOREM TypeCorrect == Spec => []TypeOK
BY TypedAndLinked, PTL

\* However the callbacks of identities overlap, fail and change their address, a linked
\* account stays linked, and passes from one identity to another only if Google gave the
\* address of the account to both.
THEOREM LinksFollowAddresses == Spec => LinkFollowsAddress
<1>1. TypeOK /\ LinkedByEmail /\ [Next]_vars =>
         [\A u \in users : u.google # NoIdentity =>
             \E w \in users' :
                /\ w.id = u.id /\ w.google # NoIdentity
                /\ w.google # u.google => ShareAddress(u, u.google, w.google)]_vars
  BY UsersSteps DEF UsersStep, Updates, Inserts, Keeps, SetRow
<1>2. QED BY <1>1, TypedAndLinked, PTL DEF Spec, LinkFollowsAddress

-----------------------------------------------------------------------------
(* Logging in *)

\* Whoever logs in with Google gets an account that is linked to this identity, or
\* one that was renamed because its name was taken.
THEOREM SignInsAreLinkedOrRenamed == Spec => SignsInToLinkedOrRenamed
<1> DEFINE Right(p) == \E u \in Signed(p) : u.google = req[p].profile.sub \/ u.name = Renamed
<1>1. TypeOK /\ [Next]_vars => [\A p \in Procs : SignsIn(p) => Right(p)]_vars
  <2> SUFFICES ASSUME TypeOK, Next, NEW q \in Procs, SignsIn(q) PROVE Right(q)
    OBVIOUS
  <2> USE DEF SignsIn
  <2>r. req \in [Procs -> Request] BY DEF TypeOK
  <2>1. ASSUME NEW p \in Procs, NEW name \in Names, NEW email \in Emails,
               Register(p, name, email)
        PROVE  Right(q)
    BY <2>1, <2>r DEF Register, Start, Local
  <2>2. ASSUME NEW p \in Procs,
               \/ CreateEmailVerificationToken(p) \/ DropToken(p) \/ ConsumeToken(p)
               \/ CreateSessionAndRespond(p) \/ SetVerified(p)
        PROVE  Right(q)
    BY <2>2, <2>r DEF CreateEmailVerificationToken, DropToken, ConsumeToken,
                      CreateSessionAndRespond, SetVerified, Return, Goto, Idle, Local
  <2>3. ASSUME NEW p \in Procs, VerifyEmail(p) \/ \E g \in Profiles : GoogleCallback(p, g)
        PROVE  Right(q)
    BY <2>3, <2>r DEF VerifyEmail, GoogleCallback, Start, Local
  <2>4. ASSUME NEW p \in Procs, Find(p)
        PROVE  Right(q)
    <3>1. PICK u \in LinkedTo(req[p].profile.sub) : SignIn(p, u.id) /\ q = p
      BY <2>4, <2>r DEF Find, Goto, SignIn, Local
    <3>2. users' = users BY <2>4 DEF Find
    <3>3. u \in Signed(q) /\ u.google = req[q].profile.sub
      BY <3>1, <3>2, <2>r DEF SignIn, Signed, LinkedTo, Local
    <3>4. QED BY <3>3
  <2>5. ASSUME NEW p \in Procs, Link(p)
        PROVE  Right(q)
    <3> DEFINE g == req[p].profile
    <3>1. PICK u \in WithEmail(g.email) :
             SetRow(u, Linked(u, g.sub)) /\ SignIn(p, u.id) /\ q = p
      BY <2>5, <2>r DEF Link, Goto, SignIn, Local
    <3>2. Linked(u, g.sub) \in Signed(q) /\ Linked(u, g.sub).google = g.sub
      BY <3>1, <2>r DEF SignIn, Signed, SetRow, Linked, Row, Local
    <3>3. QED BY <3>1, <3>2
  <2>6. ASSUME NEW p \in Procs, Create(p)
        PROVE  Right(q)
    <3> DEFINE g == req[p].profile
    <3>1. \/ \E u \in Named(g.name) : SetRow(u, WithNewName(u)) /\ SignIn(p, u.id)
          \/ Insert(g.name, g.email, g.sub, TRUE) /\ SignIn(p, NewId)
      <4>1. ~ Return(p) BY <2>r DEF Return, Idle, Local
      <4>2. QED BY <2>6, <4>1 DEF Create
    <3>q. q = p
      BY <3>1, <2>r DEF SignIn
    <3>2. CASE \E u \in Named(g.name) : SetRow(u, WithNewName(u)) /\ SignIn(p, u.id)
      <4>1. PICK u \in Named(g.name) : SetRow(u, WithNewName(u)) /\ SignIn(p, u.id)
        BY <3>2
      <4>2. WithNewName(u) \in Signed(q) /\ WithNewName(u).name = Renamed
        BY <4>1, <3>q, <2>r DEF SignIn, Signed, SetRow, WithNewName, Row, Local
      <4>3. QED BY <4>2
    <3>3. CASE Insert(g.name, g.email, g.sub, TRUE) /\ SignIn(p, NewId)
      <4> DEFINE u == Row(NewId, g.name, g.email, g.sub, TRUE)
      <4>1. u \in Signed(q) /\ u.google = g.sub
        BY <3>3, <3>q, <2>r DEF Insert, SignIn, Signed, Row, Local
      <4>2. QED BY <4>1, <3>q
    <3>4. QED BY <3>1, <3>2, <3>3
  <2>7. ASSUME (\E t \in tokens : TokenExpires(t)) \/ Restart
        PROVE  Right(q)
    BY <2>7, <2>r DEF TokenExpires, Restart, Idle, Local
  <2>8. QED BY <2>1, <2>2, <2>3, <2>4, <2>5, <2>6, <2>7 DEF Next, Continue
<1>2. QED BY <1>1, TypeCorrect, PTL DEF Spec, SignsInToLinkedOrRenamed

-----------------------------------------------------------------------------
(* Verifying *)

Rows == /\ IsFiniteSet(users)
        /\ \A u, w \in users : u.id = w.id => u = w
        /\ \A u \in users : u.id <= Cardinality(users)

\* The table grows, and its ids stay those of the serial.
LEMMA RowsStep ==
    ASSUME TypeOK, LinkedByEmail, Rows, [Next]_vars
    PROVE  Rows' /\ Cardinality(users) \in Nat /\ Cardinality(users) <= Cardinality(users')
<1>c. IsFiniteSet(users) /\ Cardinality(users) \in Nat BY FS_CardinalityType DEF Rows
<1>i. \A u \in users : u.id \in Ids /\ u.id \in Nat BY BoundsAssumption DEF TypeOK, User, Ids
<1>1. CASE users' = users
  BY <1>1, <1>c DEF Rows
<1>2. CASE Updates
  <2>1. PICK u \in users, row \in User : row.id = u.id /\ users' = (users \ {u}) \cup {row}
    BY <1>2 DEF Updates, Keeps, SetRow
  <2>2. row \notin users \ {u} BY <2>1 DEF Rows
  <2>3. IsFiniteSet(users \ {u}) /\ Cardinality(users \ {u}) = Cardinality(users) - 1
    BY <1>c, FS_RemoveElement
  <2>4. IsFiniteSet(users') /\ Cardinality(users') = Cardinality(users)
    BY <1>c, <2>1, <2>2, <2>3, FS_AddElement
  <2>5. \A v, w \in users' : v.id = w.id => v = w
    BY <2>1 DEF Rows
  <2>6. \A v \in users' : v.id <= Cardinality(users')
    BY <2>1, <2>4 DEF Rows
  <2>7. QED BY <1>c, <2>4, <2>5, <2>6 DEF Rows
<1>3. CASE Inserts
  <2>1. PICK row \in User : row.id = Cardinality(users) + 1 /\ users' = users \cup {row}
    BY <1>3 DEF Inserts, NewId
  <2>2. \A u \in users : u.id < row.id /\ u.id # row.id BY <1>c, <1>i, <2>1 DEF Rows
  <2>3. IsFiniteSet(users') /\ Cardinality(users') = Cardinality(users) + 1
    BY <1>c, <2>1, <2>2, FS_AddElement
  <2>4. \A v, w \in users' : v.id = w.id => v = w
    BY <2>1, <2>2 DEF Rows
  <2>5. \A v \in users' : v.id <= Cardinality(users')
    BY <1>c, <1>i, <2>1, <2>2, <2>3 DEF Rows
  <2>6. QED BY <1>c, <2>3, <2>4, <2>5 DEF Rows
<1>4. QED BY <1>1, <1>2, <1>3, UsersSteps DEF UsersStep

\* Its token is there or about to be, or what may have happened to it did.
Chance(id) == \/ \E t \in tokens : t.user = id
              \/ \E p \in Procs : req[p].pc = "token" /\ req[p].user = id
              \/ faults > 0
              \/ id \in refused

\* A row after a step was there before, or was inserted verified or by Register.
LEMMA OldRows ==
    ASSUME TypeOK, LinkedByEmail, Next, NEW w \in users'
    PROVE  \/ \E u \in users : u.id = w.id /\ (u.verified = TRUE => w.verified = TRUE)
           \/ w.id = NewId /\ (w.verified = TRUE \/ Chance(w.id)')
<1> DEFINE Goal == \/ \E u \in users : u.id = w.id /\ (u.verified = TRUE => w.verified = TRUE)
                   \/ w.id = NewId /\ (w.verified = TRUE \/ Chance(w.id)')
<1>1. CASE users' = users
  BY <1>1
<1>2. CASE Updates
  BY <1>2 DEF Updates, Keeps, SetRow
<1>3. ASSUME NEW p \in Procs, NEW name \in Names, NEW email \in Emails, Register(p, name, email)
      PROVE  Goal
  <2>1. /\ users' = users \cup {Row(NewId, name, email, NoIdentity, FALSE)}
        /\ Row(NewId, name, email, NoIdentity, FALSE).id = NewId
    BY <1>3 DEF Register, Insert, Row
  <2>2. req'[p].pc = "token" /\ req'[p].user = NewId
    BY <1>3 DEF Register, Start, Local, TypeOK
  <2>3. QED BY <2>1, <2>2 DEF Chance
<1>4. ASSUME NEW p \in Procs, NEW g \in Profiles, Insert(g.name, g.email, g.sub, TRUE)
      PROVE  Goal
  <2>1. LET row == Row(NewId, g.name, g.email, g.sub, TRUE)
        IN  users' = users \cup {row} /\ row.id = NewId /\ row.verified = TRUE
    BY <1>4 DEF Insert, Row
  <2>2. QED BY <2>1
<1>5. ASSUME NEW p \in Procs, SetVerified(p)
      PROVE  Goal
  BY <1>5, <1>1, <1>2, VerifyUpdates DEF SetVerified, Updates
<1>6. ASSUME NEW p \in Procs, Link(p)
      PROVE  Goal
  <2> DEFINE g == req[p].profile
  <2>1. g \in Profiles BY <1>6, HasProfile DEF Link
  <2>2. ASSUME NEW u \in WithEmail(g.email), SetRow(u, Linked(u, g.sub))
        PROVE  Updates
    <3>1. u \in users BY DEF WithEmail
    <3>2. QED BY <2>1, <2>2, <3>1, LinkUpdates DEF Updates
  <2>3. QED BY <1>6, <1>1, <1>2, <2>2 DEF Link
<1>7. ASSUME NEW p \in Procs, Create(p)
      PROVE  Goal
  <2> DEFINE g == req[p].profile
  <2>1. g \in Profiles BY <1>7, HasProfile DEF Create
  <2>2. ASSUME NEW u \in Named(g.name), SetRow(u, WithNewName(u))
        PROVE  Updates
    <3>1. u \in users BY DEF Named
    <3>2. QED BY <2>2, <3>1, RenameUpdates DEF Updates
  <2>3. QED BY <1>7, <1>1, <1>2, <1>4, <2>1, <2>2 DEF Create
<1>8. ASSUME NEW p \in Procs,
             \/ CreateEmailVerificationToken(p) \/ DropToken(p) \/ ConsumeToken(p) \/ Find(p)
             \/ CreateSessionAndRespond(p) \/ VerifyEmail(p)
             \/ \E g \in Profiles : GoogleCallback(p, g)
      PROVE  users' = users
  BY <1>8 DEF CreateEmailVerificationToken, DropToken, ConsumeToken, Find,
              CreateSessionAndRespond, VerifyEmail, GoogleCallback
<1>9. (\E t \in tokens : TokenExpires(t)) \/ Restart => users' = users
  BY DEF TokenExpires, Restart
<1>10. QED BY <1>1, <1>3, <1>5, <1>6, <1>7, <1>8, <1>9 DEF Next, Continue

\* An account that is not verified keeps its chance.
LEMMA ChanceKept ==
    ASSUME TypeOK, ConsumesVerified, Next,
           NEW u \in users, u.verified # TRUE, Chance(u.id)
    PROVE  Chance(u.id)'
<1>r. req \in [Procs -> Request] BY DEF TypeOK
<1>f. /\ faults \in Nat /\ (Fault => faults' > 0)
      /\ faults > 0 /\ (faults' = faults \/ Fault) => faults' > 0
  BY DEF TypeOK, Fault
<1>1. ASSUME NEW p \in Procs, NEW name \in Names, NEW email \in Emails, Register(p, name, email)
      PROVE  Chance(u.id)'
  BY <1>1, <1>r DEF Register, Start, Idle, Local, Chance
<1>2. ASSUME NEW p \in Procs, CreateEmailVerificationToken(p)
      PROVE  Chance(u.id)'
  <2>1. CASE Fault
    BY <2>1, <1>f DEF Chance
  <2>2. CASE tokens' = tokens \cup {[user |-> req[p].user, expired |-> FALSE]} /\ faults' = faults
    <3>1. [user |-> req[p].user, expired |-> FALSE] \in tokens'
          /\ [user |-> req[p].user, expired |-> FALSE].user = req[p].user
      BY <2>2
    <3>2. tokens \subseteq tokens' /\ refused' = refused
      BY <1>2, <2>2 DEF CreateEmailVerificationToken
    <3>3. \A q \in Procs : q # p => req'[q] = req[q]
      BY <1>2, <1>r DEF CreateEmailVerificationToken, Return
    <3>4. CASE req[p].user = u.id
      BY <3>1, <3>4 DEF Chance
    <3>5. CASE req[p].user # u.id
      BY <2>2, <3>2, <3>3, <3>5 DEF Chance
    <3>6. QED BY <3>4, <3>5
  <2>3. QED BY <1>2, <2>1, <2>2 DEF CreateEmailVerificationToken
<1>3. ASSUME NEW p \in Procs, VerifyEmail(p) \/ \E g \in Profiles : GoogleCallback(p, g)
      PROVE  Chance(u.id)'
  BY <1>3, <1>r DEF VerifyEmail, GoogleCallback, Start, Idle, Local, Chance
<1>4. ASSUME NEW p \in Procs, DropToken(p) \/ ConsumeToken(p)
      PROVE  Chance(u.id)'
  <2>1. CASE Fault
    BY <2>1, <1>f DEF Chance
  <2>2. CASE req[p].user # u.id /\ faults' = faults
    BY <1>4, <2>2, <1>r DEF DropToken, ConsumeToken, DeleteToken, Return, Chance
  <2>3. CASE req[p].user = u.id /\ faults' = faults
    <3>1. req[p].pc # "consume" BY <2>3 DEF ConsumesVerified
    <3>2. (u.id \in refused') \/ Fault BY <1>4, <2>3, <3>1 DEF DropToken, ConsumeToken
    <3>3. QED BY <2>1, <3>2 DEF Chance
  <2>4. QED BY <1>4, <2>1, <2>2, <2>3 DEF DropToken, ConsumeToken
<1>5. ASSUME NEW p \in Procs, SetVerified(p) \/ Find(p) \/ Link(p) \/ Create(p)
                              \/ CreateSessionAndRespond(p)
      PROVE  Chance(u.id)'
  <2>1. tokens' = tokens /\ refused' = refused /\ req[p].pc # "token"
    BY <1>5 DEF SetVerified, Find, Link, Create, CreateSessionAndRespond
  <2>2. \A q \in Procs : q # p => req'[q] = req[q]
    BY <1>5, <1>r DEF SetVerified, Find, Link, Create, CreateSessionAndRespond,
                      Goto, Return, SignIn
  <2>3. faults' = faults \/ Fault
    BY <1>5 DEF SetVerified, Find, Link, Create, CreateSessionAndRespond
  <2>4. QED BY <1>f, <2>1, <2>2, <2>3 DEF Chance
<1>6. ASSUME NEW t \in tokens, TokenExpires(t)
      PROVE  Chance(u.id)'
  <2>1. [user |-> t.user, expired |-> TRUE] \in tokens'
        /\ [user |-> t.user, expired |-> TRUE].user = t.user
    BY <1>6 DEF TokenExpires
  <2>2. \A v \in tokens : v # t => v \in tokens' BY <1>6 DEF TokenExpires
  <2>3. (\E v \in tokens : v.user = u.id) => \E v \in tokens' : v.user = u.id
    BY <2>1, <2>2
  <2>4. QED BY <1>6, <2>3 DEF TokenExpires, Chance
<1>7. CASE Restart
  BY <1>7, <1>f DEF Restart, Chance
<1>8. QED BY <1>1, <1>2, <1>3, <1>4, <1>5, <1>6, <1>7 DEF Next, Continue

\* Requests and tokens refer to accounts that were inserted.
LEMMA HeldStep ==
    ASSUME TypeOK, LinkedByEmail, Serial, Next
    PROVE  Serial'
<1> DEFINE c == Cardinality(users)
<1>c. Rows' /\ c \in Nat /\ c <= Cardinality(users')
  BY RowsStep DEF Serial, Rows
<1>n. Cardinality(users') \in Nat BY <1>c, FS_CardinalityType DEF Rows
<1>r. req \in [Procs -> Request] BY DEF TypeOK
<1>u. \A u \in users' : u.id <= Cardinality(users') BY <1>c DEF Rows
<1>h. /\ \A q \in Procs : req[q].user \in Nat /\ req[q].user <= Cardinality(users')
      /\ \A t \in tokens : t.user \in Nat /\ t.user <= Cardinality(users')
      /\ \A u \in users : u.id \in Nat /\ u.id <= Cardinality(users')
  <2>1. \A q \in Procs : req[q].user \in Nat
    BY <1>r, BoundsAssumption DEF Request, Idle, Local, Ids
  <2>2. (\A t \in tokens : t.user \in Nat) /\ \A u \in users : u.id \in Nat
    BY BoundsAssumption DEF TypeOK, Token, User, Ids
  <2>3. QED BY <1>c, <1>n, <2>1, <2>2 DEF Serial
<1> DEFINE Held == \A q \in Procs : req'[q].user <= Cardinality(users')
<1> HIDE DEF Held
<1>1. ASSUME NEW p \in Procs, NEW id, id <= Cardinality(users'), req'[p].user = id,
             \A q \in Procs : q # p => req'[q] = req[q]
      PROVE  Held
  BY <1>1, <1>h DEF Held
<1>2. ASSUME NEW p \in Procs, Return(p) \/ \E pc : Goto(p, pc)
      PROVE  Held
  <2>1. /\ req'[p].user = 0 \/ req'[p].user = req[p].user
        /\ \A q \in Procs : q # p => req'[q] = req[q]
    BY <1>2, <1>r DEF Return, Goto, Idle, Local
  <2>2. QED BY <1>1, <1>h, <1>n, <2>1
<1>3. ASSUME NEW p \in Procs, NEW u \in users', SignIn(p, u.id)
      PROVE  Held
  BY <1>1, <1>3, <1>r, <1>u DEF SignIn, Local
<1>4. ASSUME NEW p \in Procs, NEW name \in Names, NEW email \in Emails, Register(p, name, email)
      PROVE  Held /\ tokens' = tokens
  <2>0. LET row == Row(NewId, name, email, NoIdentity, FALSE)
        IN  row \in users' /\ row.id = NewId
    BY <1>4 DEF Register, Insert, Row
  <2>1. PICK row \in users' : row.id = NewId
    BY <2>0
  <2>2. req'[p].user = row.id /\ \A q \in Procs : q # p => req'[q] = req[q]
    BY <1>4, <2>1, <1>r DEF Register, Start, Local
  <2>3. QED BY <1>1, <1>4, <1>u, <2>2 DEF Register
<1>5. ASSUME NEW p \in Procs, VerifyEmail(p) \/ \E g \in Profiles : GoogleCallback(p, g)
      PROVE  Held /\ tokens' = tokens
  <2>1. PICK id \in {t.user : t \in tokens} \cup {0} :
           req'[p].user = id /\ \A q \in Procs : q # p => req'[q] = req[q]
    BY <1>5, <1>r DEF VerifyEmail, GoogleCallback, Start, Local
  <2>2. QED BY <1>1, <1>5, <1>h, <1>n, <2>1 DEF VerifyEmail, GoogleCallback
<1>6. ASSUME NEW p \in Procs, CreateEmailVerificationToken(p) \/ DropToken(p) \/ ConsumeToken(p)
      PROVE  Held /\ \A t \in tokens' : t.user <= Cardinality(users')
  <2>1. Held BY <1>2, <1>6 DEF CreateEmailVerificationToken, DropToken, ConsumeToken
  <2>2. CASE CreateEmailVerificationToken(p)
    <3>1. tokens' \subseteq tokens \cup {[user |-> req[p].user, expired |-> FALSE]}
      BY <2>2 DEF CreateEmailVerificationToken
    <3>2. [user |-> req[p].user, expired |-> FALSE].user <= Cardinality(users')
      BY <1>h
    <3>3. \A t \in tokens' : t.user <= Cardinality(users')
      BY <1>h, <3>1, <3>2
    <3>4. QED BY <2>1, <3>3
  <2>3. CASE DropToken(p) \/ ConsumeToken(p)
    <3>1. tokens' \subseteq tokens BY <2>3 DEF DropToken, ConsumeToken, DeleteToken
    <3>2. QED BY <1>h, <2>1, <3>1
  <2>4. QED BY <1>6, <2>1, <2>2, <2>3
<1>7. ASSUME NEW p \in Procs, SetVerified(p) \/ CreateSessionAndRespond(p)
      PROVE  Held /\ tokens' = tokens
  BY <1>2, <1>7 DEF SetVerified, CreateSessionAndRespond
<1>8. ASSUME NEW p \in Procs, Find(p)
      PROVE  Held /\ tokens' = tokens
  BY <1>2, <1>3, <1>8 DEF Find, LinkedTo
<1>9. ASSUME NEW p \in Procs, Link(p)
      PROVE  Held /\ tokens' = tokens
  <2>1. ASSUME NEW u \in users, NEW row, SetRow(u, row), row.id = u.id, SignIn(p, u.id)
        PROVE  Held
    BY <1>3, <2>1 DEF SetRow
  <2>2. QED BY <1>2, <1>9, <2>1 DEF Link, WithEmail, Linked, Row
<1>10. ASSUME NEW p \in Procs, Create(p)
       PROVE  Held /\ tokens' = tokens
  <2> DEFINE g == req[p].profile
  <2>1. ASSUME NEW u \in users, SetRow(u, WithNewName(u)), SignIn(p, u.id)
        PROVE  Held
    <3>1. WithNewName(u) \in users' /\ WithNewName(u).id = u.id
      BY <2>1 DEF SetRow, WithNewName, Row
    <3>2. QED BY <1>3, <2>1, <3>1
  <2>2. ASSUME Insert(g.name, g.email, g.sub, TRUE), SignIn(p, NewId)
        PROVE  Held
    <3>1. LET row == Row(NewId, g.name, g.email, g.sub, TRUE)
          IN  row \in users' /\ row.id = NewId
      BY <2>2 DEF Insert, Row
    <3>2. PICK row \in users' : row.id = NewId BY <3>1
    <3>3. QED BY <1>3, <2>2, <3>2
  <2>3. QED BY <1>2, <1>10, <2>1, <2>2 DEF Create, Named
<1>11. ASSUME NEW t \in tokens, TokenExpires(t)
       PROVE  Held /\ \A v \in tokens' : v.user <= Cardinality(users')
  BY <1>11, <1>h DEF TokenExpires, Held
<1>12. CASE Restart
  <2>1. \A q \in Procs : req'[q].user = 0 BY <1>12 DEF Restart, Idle, Local
  <2>2. Held /\ tokens' = tokens BY <1>12, <1>n, <2>1 DEF Restart, Held
  <2>3. QED BY <1>c, <1>h, <2>2 DEF Serial, Rows, Held
<1>13. (Held /\ \A t \in tokens' : t.user <= Cardinality(users')) => Serial'
  BY <1>c DEF Serial, Rows, Held
<1>14. QED
  BY <1>4, <1>5, <1>6, <1>7, <1>8, <1>9, <1>10, <1>11, <1>12, <1>13, <1>h DEF Next, Continue

LEMMA ConsumesStep ==
    ASSUME TypeOK, LinkedByEmail, Serial, ConsumesVerified, Next
    PROVE  ConsumesVerified'
<1> SUFFICES ASSUME NEW q \in Procs, req'[q].pc = "consume",
                    NEW w \in users', w.id = req'[q].user
             PROVE  w.verified = TRUE
  <2>1. \A u \in users' : u.verified \in BOOLEAN
    BY UsersSteps, LinksKept DEF User
  <2>2. QED BY <2>1 DEF ConsumesVerified
<1>c. Rows /\ Rows' /\ Cardinality(users) \in Nat
  BY RowsStep DEF Serial, Rows
<1>r. req \in [Procs -> Request] BY DEF TypeOK
<1>1. CASE req'[q] = req[q]
  <2>1. w.id # NewId
    <3>1. req[q].user <= Cardinality(users) /\ req[q].user \in Nat
      BY <1>r, BoundsAssumption DEF Serial, Request, Idle, Local, Ids
    <3>2. QED BY <1>1, <1>c, <3>1 DEF NewId
  <2>2. PICK u \in users : u.id = w.id /\ (u.verified = TRUE => w.verified = TRUE)
    BY <2>1, OldRows
  <2>3. u.verified /\ u.verified \in BOOLEAN
    BY <1>1, <2>2 DEF ConsumesVerified, TypeOK, User
  <2>4. QED BY <2>2, <2>3
<1>m. ASSUME NEW p \in Procs, NEW r, req' = [req EXCEPT ![p] = r], req'[q] # req[q]
      PROVE  q = p /\ req'[q] = r /\ r.pc = "consume"
  BY <1>m, <1>r
<1>2. CASE req'[q] # req[q]
  <2>1. ASSUME NEW p \in Procs, SetVerified(p)
        PROVE  w.verified = TRUE
    <3>1. q = p /\ req'[p].user = req[p].user
      BY <1>m, <1>2, <1>r, <2>1 DEF SetVerified, Goto, Return, Idle, Local
    <3>2. PICK u \in users : u.id = req[p].user /\ SetRow(u, Verified(u))
      BY <1>2, <1>r, <2>1, <3>1 DEF SetVerified, Return, Idle, Local
    <3>3. Verified(u) \in users' /\ Verified(u).id = u.id /\ Verified(u).verified = TRUE
      BY <3>2 DEF SetRow, Verified, Row
    <3>4. w = Verified(u) BY <1>c, <3>1, <3>2, <3>3 DEF Rows
    <3>5. QED BY <3>3, <3>4
  <2>2. ASSUME NEW p \in Procs,
               \/ CreateEmailVerificationToken(p) \/ DropToken(p) \/ ConsumeToken(p)
               \/ Find(p) \/ Link(p) \/ Create(p) \/ CreateSessionAndRespond(p)
        PROVE  FALSE
    <3>1. ~ Return(p) BY <1>2, <1>m DEF Return, Idle, Local
    <3>2. \A id : ~ SignIn(p, id) BY <1>2, <1>m DEF SignIn, Local
    <3>3. ~ Goto(p, "link") /\ ~ Goto(p, "create") BY <1>2, <1>m DEF Goto, Local
    <3>4. QED BY <2>2, <3>1, <3>2, <3>3
              DEF CreateEmailVerificationToken, DropToken, ConsumeToken, Find, Link, Create,
                  CreateSessionAndRespond
  <2>3. ASSUME NEW p \in Procs,
               \/ VerifyEmail(p) \/ \E g \in Profiles : GoogleCallback(p, g)
               \/ \E name \in Names, email \in Emails : Register(p, name, email)
        PROVE  FALSE
    <3>1. \A pc \in {"token", "verify", "drop", "find"} : \A u, g : ~ Start(p, Local(pc, u, g))
      BY <1>2, <1>m DEF Start, Local
    <3>2. QED BY <2>3, <3>1 DEF VerifyEmail, GoogleCallback, Register
  <2>4. (\E t \in tokens : TokenExpires(t)) \/ Restart => FALSE
    BY <1>2, <1>r DEF TokenExpires, Restart, Idle, Local
  <2>5. QED BY <2>1, <2>2, <2>3, <2>4 DEF Next, Continue
<1>3. QED BY <1>1, <1>2

LEMMA UnverifiedStep ==
    ASSUME TypeOK, LinkedByEmail, ConsumesVerified, UnverifiedCanVerify, Next
    PROVE  UnverifiedCanVerify'
<1>1. ASSUME NEW w \in users', w.verified # TRUE
      PROVE  Chance(w.id)'
  <2>1. CASE \E u \in users : u.id = w.id /\ (u.verified = TRUE => w.verified = TRUE)
    <3>1. PICK u \in users : u.id = w.id /\ u.verified # TRUE BY <1>1, <2>1
    <3>2. u.verified \in BOOLEAN BY DEF TypeOK, User
    <3>3. Chance(u.id) BY <3>1, <3>2 DEF UnverifiedCanVerify, Chance
    <3>4. Chance(u.id)' BY <3>1, <3>3, ChanceKept
    <3>5. QED BY <3>1, <3>4 DEF Chance
  <2>2. QED BY <1>1, <2>1, OldRows
<1>2. QED BY <1>1 DEF UnverifiedCanVerify, Chance

LEMMA Inductive == IInv /\ [Next]_vars => IInv'
<1>1. ASSUME IInv, Next PROVE IInv'
  <2>1. TypeOK' /\ LinkedByEmail'
    BY <1>1, TypeStep, UsersSteps, LinksKept DEF IInv
  <2>2. Serial' BY <1>1, HeldStep DEF IInv
  <2>3. ConsumesVerified' BY <1>1, ConsumesStep DEF IInv
  <2>4. UnverifiedCanVerify' BY <1>1, UnverifiedStep DEF IInv
  <2>5. QED BY <2>1, <2>2, <2>3, <2>4 DEF IInv
<1>2. ASSUME IInv, UNCHANGED vars PROVE IInv'
  BY <1>2 DEF IInv, vars, TypeOK, Serial, ConsumesVerified, LinkedByEmail, UnverifiedCanVerify
<1>3. QED BY <1>1, <1>2

\* However requests overlap, an account that is not verified has its token, is about to
\* get it, or a statement or the server failed, or its link was refused in time.
THEOREM UnverifiedCan == Spec => []UnverifiedCanVerify
<1>1. Init => IInv
  <2>1. Init => Serial
    BY FS_EmptySet DEF Init, Serial, Idle, Local
  <2>2. QED BY <2>1, InitOK
            DEF Init, IInv, ConsumesVerified, UnverifiedCanVerify, Idle, Local
<1>2. IInv => UnverifiedCanVerify BY DEF IInv
<1>3. QED BY <1>1, <1>2, Inductive, PTL DEF Spec
=============================================================================
