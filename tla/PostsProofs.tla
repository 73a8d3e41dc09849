---------------------------- MODULE PostsProofs ----------------------------
(***************************************************************************)
(* Theorems about Posts.tla, for every finite set of accounts and of       *)
(* requests, every choice of texts and every value of the bounds.          *)
(***************************************************************************)
EXTENDS Posts, FiniteSetTheorems, TLAPS

-----------------------------------------------------------------------------
(* Requests *)

\* Request p goes on as r.
Moves(p, r) == req' = [req EXCEPT ![p] = r]

RequestOK(r) == /\ r.pc # "idle" => r.user \in Users /\ r.post \in Ids
                /\ r.pc = "tell" => r.to \in Users

\* The local state of a request is well typed whatever step of its handler is next.
LEMMA RequestTypes ==
    ASSUME NEW pc \in Pcs, NEW u \in Users, NEW id \in Ids, NEW a \in 0 .. MaxPosts,
           NEW names \in SUBSET Users
    PROVE  /\ Local(pc, u, id, a, NoUser, names) \in Request
           /\ pc # "tell" => RequestOK(Local(pc, u, id, a, NoUser, names))
           /\ Idle \in Request /\ RequestOK(Idle)
BY BoundsAssumption DEF Local, Idle, Request, RequestOK, Ids, Pcs

\* Moving on within a handler changes pc, and to, and nothing else.
LEMMA RequestGoesOn ==
    ASSUME NEW r \in Request, RequestOK(r), r.pc # "idle", NEW u \in Users
    PROVE  /\ [r EXCEPT !.pc = "ask"] \in Request
           /\ RequestOK([r EXCEPT !.pc = "ask"])
           /\ [r EXCEPT !.pc = "tell", !.to = u] \in Request
           /\ RequestOK([r EXCEPT !.pc = "tell", !.to = u])
BY DEF Request, RequestOK, Pcs

\* The next state of request p after ThenMentions.
Mentioning(u, id, names) ==
    IF names = {} THEN Idle ELSE Local("mention", u, id, 0, NoUser, names)

LEMMA MentioningTypes ==
    ASSUME NEW u \in Users, NEW id \in Ids, NEW names \in SUBSET Users
    PROVE  Mentioning(u, id, names) \in Request /\ RequestOK(Mentioning(u, id, names))
<1>1. "mention" \in Pcs /\ 0 \in 0 .. MaxPosts
  BY BoundsAssumption DEF Pcs
<1>2. QED BY <1>1, RequestTypes DEF Mentioning

LEMMA RequestsTyped ==
    ASSUME TypeOK
    PROVE  /\ req \in [Procs -> Request]
           /\ \A q \in Procs : req[q] \in Request /\ RequestOK(req[q])
<1>1. req \in [Procs -> Request] BY DEF TypeOK
<1>2. ASSUME NEW q \in Procs PROVE RequestOK(req[q])
  <2>1. /\ req[q].pc # "idle" => req[q].user \in Users /\ req[q].post \in Ids
        /\ req[q].pc = "tell" => req[q].to \in Users
    BY DEF TypeOK
  <2>2. QED BY <2>1 DEF RequestOK
<1>3. QED BY <1>1, <1>2

LEMMA MoveTypes ==
    ASSUME TypeOK, NEW p \in Procs, NEW r \in Request, RequestOK(r), Moves(p, r)
    PROVE  /\ req' \in [Procs -> Request]
           /\ \A q \in Procs : RequestOK(req'[q])
<1>1. req \in [Procs -> Request] /\ \A q \in Procs : RequestOK(req[q])
  BY RequestsTyped
<1>2. \A q \in Procs : req'[q] = IF q = p THEN r ELSE req[q]
  BY <1>1 DEF Moves
<1>3. QED BY <1>1, <1>2 DEF Moves

-----------------------------------------------------------------------------
(* Statements *)

\* What the three updates of a counter do to the table of posts.
LEMMA CounterUpdates ==
    ASSUME TypeOK, NEW id,
           IncLikeCount(id) \/ DecLikeCount(id) \/ IncrementReplyCount(id)
    PROVE  /\ Live' = Live
           /\ posts' \in [Live -> Post]
           /\ \A i \in Live : /\ posts'[i].parent = posts[i].parent
                              /\ posts'[i].author = posts[i].author
                              /\ posts'[i].names = posts[i].names
<1>1. /\ posts \in [Live -> Post]
      /\ Live = DOMAIN posts
  BY DEF TypeOK, Live
<1>2. \A x \in Post, n \in Nat :
         /\ [x EXCEPT !.likes = n] \in Post
         /\ [x EXCEPT !.likes = n].parent = x.parent
         /\ [x EXCEPT !.likes = n].author = x.author
         /\ [x EXCEPT !.likes = n].names = x.names
         /\ [x EXCEPT !.replies = n] \in Post
         /\ [x EXCEPT !.replies = n].parent = x.parent
         /\ [x EXCEPT !.replies = n].author = x.author
         /\ [x EXCEPT !.replies = n].names = x.names
  BY DEF Post
<1>3. \A i \in Live : posts[i].likes \in Nat /\ posts[i].replies \in Nat
  BY <1>1 DEF Post
<1>4. ASSUME NEW n \in Nat, SetLikes(id, n)
      PROVE  /\ Live' = Live
             /\ posts' \in [Live -> Post]
             /\ \A i \in Live : /\ posts'[i].parent = posts[i].parent
                                /\ posts'[i].author = posts[i].author
                                /\ posts'[i].names = posts[i].names
  BY <1>1, <1>2, <1>4 DEF SetLikes, Live
<1>5. CASE IncLikeCount(id)
  BY <1>1, <1>3, <1>4, <1>5 DEF IncLikeCount, Live
<1>6. CASE DecLikeCount(id)
  <2>1. CASE id \notin Live \/ posts[id].likes = 0
    BY <1>1, <1>6, <2>1 DEF DecLikeCount, Live
  <2>2. CASE id \in Live /\ posts[id].likes # 0
    <3>1. posts[id].likes - 1 \in Nat BY <1>3, <2>2
    <3>2. QED BY <1>4, <1>6, <2>2, <3>1 DEF DecLikeCount
  <2>3. QED BY <2>1, <2>2
<1>7. CASE IncrementReplyCount(id)
  <2>1. posts' = [i \in Live |->
                     IF i = id THEN [posts[i] EXCEPT !.replies = posts[i].replies + 1]
                               ELSE posts[i]]
    BY <1>7 DEF IncrementReplyCount
  <2>2. \A i \in Live : posts[i].replies + 1 \in Nat BY <1>3
  <2>3. QED BY <1>1, <1>2, <2>1, <2>2 DEF Live
<1>8. QED BY <1>5, <1>6, <1>7

\* A new row; the others are as they were.
LEMMA Insertion ==
    ASSUME TypeOK, NEW u \in Users, NEW a \in 0 .. MaxPosts, NEW names \in SUBSET Users,
           InsertPost(u, a, names)
    PROVE  /\ made' \in Ids /\ made' = made + 1 /\ made' \notin Live
           /\ Live' = Live \cup {made'} /\ Live' \subseteq 1 .. made'
           /\ posts' \in [Live' -> Post]
           /\ \A i \in Live : posts'[i] = posts[i]
           /\ posts'[made'] = [author |-> u, parent |-> a, names |-> names,
                               likes |-> 0, replies |-> 0]
<1> DEFINE row == [author |-> u, parent |-> a, names |-> names, likes |-> 0, replies |-> 0]
<1>1. made' \in Ids /\ made' = made + 1 /\ made \in Nat
  BY BoundsAssumption DEF InsertPost, TypeOK, Ids
<1>2. /\ posts \in [Live -> Post] /\ Live = DOMAIN posts /\ Live \subseteq 1 .. made
  BY DEF TypeOK, Live
<1>3. made' \notin Live BY <1>1, <1>2
<1>4. row \in Post BY DEF Post
<1>5. posts' = [i \in Live \cup {made'} |-> IF i = made' THEN row ELSE posts[i]]
  BY DEF InsertPost
<1>6. Live' = Live \cup {made'} BY <1>5 DEF Live
<1>7. posts'[made'] = row /\ \A i \in Live : posts'[i] = posts[i]
  BY <1>3, <1>5
<1>8. posts' \in [Live' -> Post]
  BY <1>2, <1>4, <1>5, <1>6
<1>9. QED BY <1>1, <1>2, <1>3, <1>6, <1>7, <1>8

\* Deleting a post deletes what was below it and leaves the rest as it was.
LEMMA Deletion ==
    ASSUME TypeOK, NEW u \in Users, NEW id \in Ids, DeletePost(u, id)
    PROVE  /\ Live' = Live \ Below(id)
           /\ posts' \in [Live' -> Post]
           /\ \A i \in Live' : posts'[i] = posts[i]
           /\ \A i \in Live' : posts[i].parent \notin Below(id)
<1>1. posts \in [Live -> Post] /\ Live = DOMAIN posts
  BY DEF TypeOK, Live
<1>2. posts' = [i \in Live \ Below(id) |-> posts[i]]
  BY DEF DeletePost
<1>3. Live' = Live \ Below(id) BY <1>2 DEF Live
<1>4. \A i \in Live : posts[i].parent \in Below(id) => i \in Below(id)
  <2>1. CASE RepliesTo(id) = {}
    BY <2>1 DEF Below, RepliesTo
  <2>2. CASE RepliesTo(id) # {}
    <3>1. \A q : q \in Below(id) <=> q \in Live /\ \A S \in SUBSET Live :
             (id \in S /\ \A r \in Live : posts[r].parent \in S => r \in S) => q \in S
      BY <2>2 DEF Below
    <3>2. QED BY <3>1
  <2>3. QED BY <2>1, <2>2
<1>5. QED BY <1>1, <1>2, <1>3, <1>4

LEMMA NotificationTypes ==
    ASSUME TypeOK, NEW to \in Users, NEW from \in Users, NEW id \in Ids,
           NEW kind \in {"like", "reply", "mention"}, CreateNotification(to, from, kind, id)
    PROVE  told' \subseteq Notification
<1>1. [to |-> to, from |-> from, kind |-> kind, post |-> id] \in Notification
  BY DEF Notification
<1>2. QED BY <1>1 DEF TypeOK, CreateNotification
-----------------------------------------------------------------------------
(* Type correctness *)

\* Where each action of Next takes the request that runs it.
LEMMA StepsMove ==
    ASSUME TypeOK, NEW p \in Procs
    PROVE  /\ \A u, id : Like(p, u, id) => Moves(p, Local("inc", u, id, id, NoUser, {}))
           /\ \A u, id : Unlike(p, u, id) => Moves(p, Local("dec", u, id, id, NoUser, {}))
           /\ CountLike(p) \/ CountReply(p) => Moves(p, [req[p] EXCEPT !.pc = "ask"])
           /\ UncountLike(p) => Moves(p, Idle)
           /\ \A u, names : CreatePost(p, u, names) => Moves(p, Mentioning(u, made', names))
           /\ \A u, a, names : CreateReply(p, u, a, names) =>
                 Moves(p, Local("count", u, made', a, NoUser, names))
           /\ ReadAuthor(p) =>
                 \/ /\ req[p].about \in Live
                    /\ Moves(p, [req[p] EXCEPT !.pc = "tell", !.to = posts[req[p].about].author])
                 \/ Moves(p, Mentioning(req[p].user, req[p].post, req[p].names))
           /\ TellAuthor(p) => Moves(p, Mentioning(req[p].user, req[p].post, req[p].names))
           /\ TellMentioned(p) =>
                 \E m \in req[p].names :
                    Moves(p, Mentioning(req[p].user, req[p].post, req[p].names \ {m}))
<1>0. req \in [Procs -> Request] BY DEF TypeOK
<1>1. /\ \A u, id : Like(p, u, id) => Moves(p, Local("inc", u, id, id, NoUser, {}))
      /\ \A u, id : Unlike(p, u, id) => Moves(p, Local("dec", u, id, id, NoUser, {}))
  BY DEF Like, Unlike, Start, Moves
<1>2. CountLike(p) \/ CountReply(p) => Moves(p, [req[p] EXCEPT !.pc = "ask"])
  BY <1>0 DEF CountLike, CountReply, Moves
<1>3. UncountLike(p) => Moves(p, Idle)
  BY DEF UncountLike, Return, Moves
<1>4. \A u, names : CreatePost(p, u, names) => Moves(p, Mentioning(u, made', names))
  BY DEF CreatePost, ThenMentions, Mentioning, Moves
<1>5. \A u, a, names : CreateReply(p, u, a, names) =>
         Moves(p, Local("count", u, made', a, NoUser, names))
  BY DEF CreateReply, Start, Moves
<1>6. ReadAuthor(p) =>
         \/ /\ req[p].about \in Live
            /\ Moves(p, [req[p] EXCEPT !.pc = "tell", !.to = posts[req[p].about].author])
         \/ Moves(p, Mentioning(req[p].user, req[p].post, req[p].names))
  BY <1>0 DEF ReadAuthor, ThenMentions, Mentioning, Moves
<1>7. TellAuthor(p) => Moves(p, Mentioning(req[p].user, req[p].post, req[p].names))
  BY DEF TellAuthor, ThenMentions, Mentioning, Moves
<1>8. TellMentioned(p) =>
         \E m \in req[p].names :
            Moves(p, Mentioning(req[p].user, req[p].post, req[p].names \ {m}))
  BY DEF TellMentioned, ThenMentions, Mentioning, Moves
<1>9. QED BY <1>1, <1>2, <1>3, <1>4, <1>5, <1>6, <1>7, <1>8

\* The new states of the requests are well typed, whichever handler moves.
LEMMA RequestStep ==
    ASSUME TypeOK, [Next]_vars
    PROVE  /\ req' \in [Procs -> Request]
           /\ \A q \in Procs : RequestOK(req'[q])
<1> DEFINE Good == req' \in [Procs -> Request] /\ \A q \in Procs : RequestOK(req'[q])
<1>0. req \in [Procs -> Request] /\ \A q \in Procs : req[q] \in Request /\ RequestOK(req[q])
  BY RequestsTyped
<1>a. 0 \in 0 .. MaxPosts /\ Ids \subseteq 0 .. MaxPosts
  BY BoundsAssumption DEF Ids
<1>1. ASSUME NEW p \in Procs, NEW u \in Users, NEW id \in Ids, Like(p, u, id) \/ Unlike(p, u, id)
      PROVE  Good
  <2>1. "inc" \in Pcs /\ "dec" \in Pcs /\ id \in 0 .. MaxPosts /\ {} \in SUBSET Users
    BY <1>a DEF Pcs
  <2>2. \A pc \in {"inc", "dec"} :
           /\ Local(pc, u, id, id, NoUser, {}) \in Request
           /\ RequestOK(Local(pc, u, id, id, NoUser, {}))
    BY <2>1, RequestTypes
  <2>3. \/ Moves(p, Local("inc", u, id, id, NoUser, {}))
        \/ Moves(p, Local("dec", u, id, id, NoUser, {}))
    BY <1>1, StepsMove
  <2>4. QED BY <2>2, <2>3, MoveTypes
<1>2. ASSUME NEW p \in Procs, CountLike(p) \/ CountReply(p)
      PROVE  Good
  <2>1. req[p].pc # "idle" BY <1>2 DEF CountLike, CountReply
  <2>2. [req[p] EXCEPT !.pc = "ask"] \in Request /\ RequestOK([req[p] EXCEPT !.pc = "ask"])
    BY <1>0, <2>1, RequestGoesOn DEF RequestOK
  <2>3. QED BY <1>2, <2>2, StepsMove, MoveTypes
<1>3. ASSUME NEW p \in Procs, UncountLike(p) PROVE Good
  <2>1. Idle \in Request /\ RequestOK(Idle)
    BY <1>a DEF Idle, Local, Request, RequestOK, Pcs
  <2>2. QED BY <1>3, <2>1, StepsMove, MoveTypes
<1>4. ASSUME NEW p \in Procs, NEW u \in Users, NEW names \in Texts, CreatePost(p, u, names)
      PROVE  Good
  <2>1. names \in SUBSET Users BY TextsAssumption
  <2>2. made' \in Ids BY <1>4, <1>a, <2>1, Insertion DEF CreatePost
  <2>3. Mentioning(u, made', names) \in Request /\ RequestOK(Mentioning(u, made', names))
    BY <2>1, <2>2, MentioningTypes
  <2>4. QED BY <1>4, <2>3, StepsMove, MoveTypes
<1>5. ASSUME NEW p \in Procs, NEW u \in Users, NEW names \in Texts, NEW a \in Ids,
             CreateReply(p, u, a, names)
      PROVE  Good
  <2>1. names \in SUBSET Users /\ a \in 0 .. MaxPosts /\ "count" \in Pcs
    BY <1>a, TextsAssumption DEF Pcs
  <2>2. made' \in Ids BY <1>5, <2>1, Insertion DEF CreateReply
  <2>3. QED BY <1>5, <2>1, <2>2, StepsMove, MoveTypes, RequestTypes
<1>6. ASSUME NEW p \in Procs, ReadAuthor(p) \/ TellAuthor(p) \/ TellMentioned(p)
      PROVE  Good
  <2>1. /\ req[p].user \in Users /\ req[p].post \in Ids /\ req[p].pc # "idle"
        /\ req[p].names \in SUBSET Users /\ req[p] \in Request /\ RequestOK(req[p])
    BY <1>0, <1>6 DEF ReadAuthor, TellAuthor, TellMentioned, RequestOK, Request
  <2>2. \A names \in SUBSET Users :
           /\ Mentioning(req[p].user, req[p].post, names) \in Request
           /\ RequestOK(Mentioning(req[p].user, req[p].post, names))
    BY <2>1, MentioningTypes
  <2>3. \A i \in Live : posts[i].author \in Users
    BY DEF TypeOK, Post, Live
  <2>4. \A u \in Users :
           /\ [req[p] EXCEPT !.pc = "tell", !.to = u] \in Request
           /\ RequestOK([req[p] EXCEPT !.pc = "tell", !.to = u])
    BY <2>1, RequestGoesOn
  <2>5. \A m : req[p].names \ {m} \in SUBSET Users BY <2>1
  <2>6. QED BY <1>6, <2>1, <2>2, <2>3, <2>4, <2>5, StepsMove, MoveTypes
<1>7. CASE Restart
  BY <1>7, <1>a DEF Restart, Idle, Local, Request, RequestOK, Pcs
<1>8. CASE UNCHANGED req
  BY <1>0, <1>8
<1>9. QED
  BY <1>1, <1>2, <1>3, <1>4, <1>5, <1>6, <1>7, <1>8
     DEF Next, Continue, GetLikeCount, DeletePost, vars

\* The tables keep their types.
LEMMA TableStep ==
    ASSUME TypeOK, [Next]_vars
    PROVE  /\ Live' \subseteq 1 .. made' /\ posts' \in [Live' -> Post]
           /\ likers' \subseteq Users \X Live' /\ told' \subseteq Notification
           /\ made' \in 0 .. MaxPosts /\ faults' \in 0 .. MaxFaults /\ clamped' \subseteq Ids
<1> DEFINE Good == /\ Live' \subseteq 1 .. made' /\ posts' \in [Live' -> Post]
                   /\ likers' \subseteq Users \X Live' /\ told' \subseteq Notification
                   /\ made' \in 0 .. MaxPosts /\ faults' \in 0 .. MaxFaults
                   /\ clamped' \subseteq Ids
<1>0. /\ Live \subseteq 1 .. made /\ posts \in [Live -> Post]
      /\ likers \subseteq Users \X Live /\ told \subseteq Notification
      /\ made \in 0 .. MaxPosts /\ faults \in 0 .. MaxFaults /\ clamped \subseteq Ids
  BY DEF TypeOK
<1>f. Fault => faults' \in 0 .. MaxFaults
  BY <1>0, BoundsAssumption DEF Fault
<1>i. Live \subseteq Ids BY <1>0, BoundsAssumption DEF Ids
<1>u. posts' = posts => Live' = Live BY DEF Live
<1>1. ASSUME NEW p \in Procs, NEW u \in Users, NEW id \in Ids, Like(p, u, id) \/ Unlike(p, u, id)
      PROVE  Good
  <2>1. likers' \subseteq Users \X Live BY <1>0, <1>1 DEF Like, Unlike
  <2>2. QED BY <1>0, <1>1, <1>u, <2>1 DEF Like, Unlike
<1>2. ASSUME NEW p \in Procs, CountLike(p) \/ CountReply(p)
      PROVE  Good
  <2>1. Live' = Live /\ posts' \in [Live -> Post]
    BY <1>0, <1>2, <1>u, CounterUpdates DEF CountLike, CountReply
  <2>2. QED BY <1>0, <1>2, <1>f, <2>1 DEF CountLike, CountReply
<1>3. ASSUME NEW p \in Procs, UncountLike(p) PROVE Good
  <2>1. Live' = Live /\ posts' \in [Live -> Post]
    BY <1>0, <1>3, <1>u, CounterUpdates DEF UncountLike
  <2>2. clamped' \subseteq Ids
    BY <1>0, <1>3, <1>i DEF UncountLike, DecLikeCount
  <2>3. QED BY <1>0, <1>3, <1>f, <2>1, <2>2 DEF UncountLike
<1>4. ASSUME NEW p \in Procs, NEW u \in Users, NEW names \in Texts, NEW a \in 0 .. MaxPosts,
             \/ a = 0 /\ CreatePost(p, u, names)
             \/ CreateReply(p, u, a, names)
      PROVE  Good
  <2>1. InsertPost(u, a, names) /\ UNCHANGED <<likers, told, faults, clamped>>
    BY <1>4 DEF CreatePost, CreateReply
  <2>2. /\ made' \in Ids /\ Live' = Live \cup {made'} /\ Live' \subseteq 1 .. made'
        /\ posts' \in [Live' -> Post]
    BY <2>1, TextsAssumption, Insertion
  <2>3. made' \in 0 .. MaxPosts BY <2>2, BoundsAssumption DEF Ids
  <2>4. likers' \subseteq Users \X Live' BY <1>0, <2>1, <2>2
  <2>5. QED BY <1>0, <2>1, <2>2, <2>3, <2>4
<1>5. ASSUME NEW p \in Procs, TellAuthor(p) \/ TellMentioned(p)
      PROVE  Good
  <2>1. req[p].user \in Users /\ req[p].post \in Ids /\ req[p].names \subseteq Users
    BY <1>5, RequestsTyped DEF TellAuthor, TellMentioned, RequestOK, Request
  <2>2. told' \subseteq Notification
    <3>1. CASE TellAuthor(p)
      <4>1. req[p].to \in Users
        BY <3>1, RequestsTyped DEF TellAuthor, RequestOK
      <4>2. PICK kind \in {"like", "reply"} :
               \/ CreateNotification(req[p].to, req[p].user, kind, req[p].post)
               \/ UNCHANGED told
        BY <3>1 DEF TellAuthor
      <4>3. QED BY <1>0, <2>1, <4>1, <4>2, NotificationTypes
    <3>2. CASE TellMentioned(p)
      <4>1. PICK m \in req[p].names :
               \/ CreateNotification(m, req[p].user, "mention", req[p].post)
               \/ UNCHANGED told
        BY <3>2 DEF TellMentioned
      <4>2. QED BY <1>0, <2>1, <4>1, NotificationTypes
    <3>3. QED BY <1>5, <3>1, <3>2
  <2>3. QED BY <1>0, <1>5, <1>f, <1>u, <2>2 DEF TellAuthor, TellMentioned
<1>6. ASSUME NEW u \in Users, NEW id \in Ids, DeletePost(u, id)
      PROVE  Good
  <2>1. Live' = Live \ Below(id) /\ posts' \in [Live' -> Post]
    BY <1>6, Deletion
  <2>2. likers' \subseteq Users \X Live'
    BY <1>0, <1>6, <2>1 DEF DeletePost
  <2>3. Live' \subseteq 1 .. made' /\ told' \subseteq Notification
    BY <1>0, <1>6, <2>1 DEF DeletePost
  <2>4. QED BY <1>0, <1>6, <2>1, <2>2, <2>3 DEF DeletePost
<1>7. ASSUME NEW p \in Procs, ReadAuthor(p) PROVE Good
  BY <1>0, <1>7, <1>f, <1>u DEF ReadAuthor
<1>8. CASE Restart
  BY <1>0, <1>8, <1>f, <1>u DEF Restart
<1>9. CASE UNCHANGED vars
  BY <1>0, <1>9, <1>u DEF vars
<1>10. 0 \in 0 .. MaxPosts /\ Ids \subseteq 0 .. MaxPosts
  BY BoundsAssumption DEF Ids
<1>11. QED
  BY <1>1, <1>2, <1>3, <1>4, <1>5, <1>6, <1>7, <1>8, <1>9, <1>10
     DEF Next, Continue, GetLikeCount

\* Every step keeps every variable in its type.
LEMMA TypeStep == TypeOK /\ [Next]_vars => TypeOK'
BY TableStep, RequestStep DEF TypeOK, RequestOK

LEMMA TypeInit == Init => TypeOK
<1> SUFFICES ASSUME Init PROVE TypeOK
  OBVIOUS
<1>1. Live = {} /\ posts \in [Live -> Post]
  BY DEF Init, Live
<1>2. Idle \in Request /\ Idle.pc = "idle"
  BY BoundsAssumption DEF Idle, Local, Request, Pcs
<1>3. req \in [Procs -> Request] /\ \A p \in Procs : req[p].pc = "idle"
  BY <1>2 DEF Init
<1>4. QED BY <1>1, <1>3, BoundsAssumption DEF Init, TypeOK

\* The tables, the counters and the locals of every request are well typed in every
\* reachable state: in particular no count of likes is ever negative (GREATEST).
THEOREM TypeCorrect == Spec => []TypeOK
<1>1. Init => TypeOK BY TypeInit
<1>2. TypeOK /\ [Next]_vars => TypeOK' BY TypeStep
<1>3. QED BY <1>1, <1>2, PTL DEF Spec

-----------------------------------------------------------------------------
(* The structure of the tables *)

\* A request only names posts that were inserted.
Serial == \A p \in Procs : req[p].post \in 0 .. made /\ req[p].about \in 0 .. made

\* A reply is younger than its parent, which goes no sooner than the reply.
Parents == \A r \in Live : /\ posts[r].parent \in 0 .. (r - 1)
                           /\ posts[r].parent = 0 \/ posts[r].parent \in Live

LEMMA SerialMoves ==
    ASSUME TypeOK, Serial, made' \in Nat, made <= made', NEW p \in Procs, NEW r, Moves(p, r),
           r.post \in 0 .. made', r.about \in 0 .. made'
    PROVE  Serial'
<1>1. made \in Nat /\ req \in [Procs -> Request] BY DEF TypeOK
<1>2. \A q \in Procs : req'[q] = IF q = p THEN r ELSE req[q]
  BY <1>1 DEF Moves
<1>3. \A q \in Procs : req[q].post \in 0 .. made' /\ req[q].about \in 0 .. made'
  BY <1>1 DEF Serial
<1>4. QED BY <1>2, <1>3 DEF Serial

LEMMA MentioningIs ==
    ASSUME NEW u, NEW id, NEW names
    PROVE  /\ Mentioning(u, id, names).about = 0
           /\ Mentioning(u, id, names).post \in {0, id}
           /\ Mentioning(u, id, names).pc \in {"idle", "mention"}
BY DEF Mentioning, Idle, Local

LEMMA SerialStep ==
    ASSUME TypeOK, Serial, [Next]_vars
    PROVE  Serial'
<1>0. /\ made \in Nat /\ Live \subseteq 1 .. made /\ likers \subseteq Users \X Live
      /\ req \in [Procs -> Request]
  BY DEF TypeOK
<1>s. \A p \in Procs : req[p].post \in 0 .. made /\ req[p].about \in 0 .. made
  BY DEF Serial
<1>1. ASSUME NEW p \in Procs, NEW u \in Users, NEW id \in Ids, Like(p, u, id) \/ Unlike(p, u, id)
      PROVE  Serial'
  <2>1. id \in Live BY <1>0, <1>1 DEF Like, Unlike
  <2>2. PICK pc \in {"inc", "dec"} : Moves(p, Local(pc, u, id, id, NoUser, {}))
    BY <1>1, StepsMove
  <2>3. PICK r : Moves(p, r) /\ r.post = id /\ r.about = id
    BY <2>2 DEF Local
  <2>4. made' = made BY <1>1 DEF Like, Unlike
  <2>5. r.post \in 0 .. made' /\ r.about \in 0 .. made'
    BY <1>0, <2>1, <2>3, <2>4
  <2>6. QED BY <1>0, <2>3, <2>4, <2>5, SerialMoves
<1>2. ASSUME NEW p \in Procs, CountLike(p) \/ CountReply(p)
      PROVE  Serial'
  <2>1. Moves(p, [req[p] EXCEPT !.pc = "ask"])
    BY <1>2, StepsMove
  <2>2. PICK r : Moves(p, r) /\ r.post = req[p].post /\ r.about = req[p].about
    BY <1>0, <2>1 DEF Request
  <2>3. made' = made BY <1>2 DEF CountLike, CountReply
  <2>4. r.post \in 0 .. made' /\ r.about \in 0 .. made'
    BY <1>s, <2>2, <2>3
  <2>5. QED BY <1>0, <2>2, <2>3, <2>4, SerialMoves
<1>3. ASSUME NEW p \in Procs, UncountLike(p) PROVE Serial'
  <2>1. PICK r : Moves(p, r) /\ r.post = 0 /\ r.about = 0
    <3>1. Moves(p, Idle) BY <1>3, StepsMove
    <3>2. Idle.post = 0 /\ Idle.about = 0 BY DEF Idle, Local
    <3>3. QED BY <3>1, <3>2
  <2>2. made' = made BY <1>3 DEF UncountLike
  <2>3. r.post \in 0 .. made' /\ r.about \in 0 .. made'
    BY <1>0, <2>1, <2>2
  <2>4. QED BY <1>0, <2>1, <2>2, <2>3, SerialMoves
<1>4. ASSUME NEW p \in Procs, NEW u \in Users, NEW names \in Texts, NEW a \in 0 .. made,
             \/ a = 0 /\ CreatePost(p, u, names)
             \/ CreateReply(p, u, a, names)
      PROVE  Serial'
  <2>1. PICK new : new = made' /\ new = made + 1
    BY <1>4 DEF CreatePost, CreateReply, InsertPost
  <2>2. PICK r : /\ Moves(p, r)
                 /\ r \in {Mentioning(u, new, names), Local("count", u, new, a, NoUser, names)}
    BY <1>4, <2>1, StepsMove
  <2>3. r.post \in 0 .. made' /\ r.about \in 0 .. made'
    BY <1>0, <2>1, <2>2, MentioningIs DEF Local
  <2>4. QED BY <1>0, <2>1, <2>2, <2>3, SerialMoves
<1>5. ASSUME NEW p \in Procs, ReadAuthor(p) \/ TellAuthor(p) \/ TellMentioned(p)
      PROVE  Serial'
  <2>1. \A u : LET r == [req[p] EXCEPT !.pc = "tell", !.to = u]
               IN r.post = req[p].post /\ r.about = req[p].about
    BY <1>0 DEF Request
  <2>2. PICK r : /\ Moves(p, r)
                 /\ r.post \in {0, req[p].post} /\ r.about \in {0, req[p].about}
    <3>1. CASE \E u : Moves(p, [req[p] EXCEPT !.pc = "tell", !.to = u])
      BY <2>1, <3>1
    <3>2. CASE \E names : Moves(p, Mentioning(req[p].user, req[p].post, names))
      BY <3>2, MentioningIs
    <3>3. QED BY <1>5, <3>1, <3>2, StepsMove
  <2>3. made' = made BY <1>5 DEF ReadAuthor, TellAuthor, TellMentioned
  <2>4. r.post \in 0 .. made' /\ r.about \in 0 .. made'
    BY <1>0, <1>s, <2>2, <2>3
  <2>5. QED BY <1>0, <2>2, <2>3, <2>4, SerialMoves
<1>6. CASE Restart
  <2>1. Idle.post = 0 /\ Idle.about = 0 BY DEF Idle, Local
  <2>2. QED BY <1>0, <1>6, <2>1 DEF Restart, Serial
<1>7. CASE UNCHANGED <<req, made>>
  BY <1>7 DEF Serial
<1>8. \A a \in Live : a \in 0 .. made BY <1>0
<1>9. 0 \in 0 .. made BY <1>0
<1>10. QED
  BY <1>1, <1>2, <1>3, <1>4, <1>5, <1>6, <1>7, <1>8, <1>9
     DEF Next, Continue, GetLikeCount, CreateReply, DeletePost, vars

\* Steps that leave the parents as they are.
LEMMA ParentsKept ==
    ASSUME Parents, Live' = Live, \A i \in Live : posts'[i].parent = posts[i].parent
    PROVE  Parents'
BY DEF Parents

LEMMA ParentsStep ==
    ASSUME TypeOK, Parents, [Next]_vars
    PROVE  Parents'
<1>0. made \in Nat /\ Live \subseteq 1 .. made
  BY DEF TypeOK
<1>1. CASE posts' = posts
  BY <1>1, ParentsKept DEF Live
<1>2. ASSUME NEW p \in Procs, CountLike(p) \/ CountReply(p) \/ UncountLike(p)
      PROVE  Parents'
  <2>1. CASE posts' = posts BY <1>1, <2>1
  <2>2. CASE posts' # posts
    <3>1. PICK id : IncLikeCount(id) \/ DecLikeCount(id) \/ IncrementReplyCount(id)
      BY <1>2, <2>2 DEF CountLike, CountReply, UncountLike
    <3>2. QED BY <3>1, CounterUpdates, ParentsKept
  <2>3. QED BY <2>1, <2>2
<1>3. ASSUME NEW u \in Users, NEW names \in Texts, NEW a \in 0 .. MaxPosts,
             InsertPost(u, a, names), a = 0 \/ a \in Live
      PROVE  Parents'
  <2>1. names \in SUBSET Users BY TextsAssumption
  <2>2. /\ made' = made + 1 /\ Live' = Live \cup {made'}
        /\ \A i \in Live : posts'[i] = posts[i]
        /\ posts'[made'].parent = a
    <3>1. /\ made' = made + 1 /\ Live' = Live \cup {made'}
          /\ \A i \in Live : posts'[i] = posts[i]
          /\ posts'[made'] = [author |-> u, parent |-> a, names |-> names,
                              likes |-> 0, replies |-> 0]
      BY <1>3, <2>1, Insertion
    <3>2. QED BY <3>1
  <2>3. a \in 0 .. (made' - 1)
    <3>1. made' = made + 1 BY <2>2
    <3>2. QED BY <1>0, <1>3, <3>1
  <2>4. QED BY <2>2, <2>3, <1>3 DEF Parents
<1>4. ASSUME NEW u \in Users, NEW id \in Ids, DeletePost(u, id)
      PROVE  Parents'
  <2>1. /\ Live' = Live \ Below(id)
        /\ \A i \in Live' : posts'[i] = posts[i] /\ posts[i].parent \notin Below(id)
    BY <1>4, Deletion
  <2>2. QED BY <2>1 DEF Parents
<1>5. 0 \in 0 .. MaxPosts /\ Ids \subseteq 0 .. MaxPosts
  BY BoundsAssumption DEF Ids
<1>6. QED
  BY <1>1, <1>2, <1>3, <1>4, <1>5
     DEF Next, Continue, Like, Unlike, CreatePost, CreateReply, ReadAuthor, TellAuthor,
         TellMentioned, Restart, GetLikeCount, vars

-----------------------------------------------------------------------------
(* Counters and the rows they count *)

Incs(id) == Cardinality(At("inc", id))
Decs(id) == Cardinality(At("dec", id))
Counts(id) == Cardinality(At("count", id))
Rows(id) == Cardinality(LikesOf(id))
Kids(id) == Cardinality(RepliesTo(id))

LikesOK(id) ==
    /\ Rows(id) + Decs(id) <= posts[id].likes + Incs(id) + Lost
    /\ id \notin clamped => posts[id].likes + Incs(id) <= Rows(id) + Decs(id) + Lost

RepliesOK(id) == Kids(id) <= posts[id].replies + Counts(id) + Lost

\* The counters of every post are accounted for.
Accounted == \A id \in Live : LikesOK(id) /\ RepliesOK(id)

LEMMA AccountedIs == Accounted <=> LikesAccounted /\ RepliesCounted
BY DEF Accounted, LikesOK, RepliesOK, LikesAccounted, RepliesCounted, Incs, Decs, Counts,
       Rows, Kids

LEMMA Finite ==
    ASSUME TypeOK
    PROVE  /\ \A id : /\ IsFiniteSet(LikesOf(id)) /\ Rows(id) \in Nat
                      /\ IsFiniteSet(RepliesTo(id)) /\ Kids(id) \in Nat
           /\ \A pc, id : /\ IsFiniteSet(At(pc, id))
                          /\ Cardinality(At(pc, id)) \in 0 .. Cardinality(Procs)
           /\ Cardinality(Procs) \in Nat
           /\ Lost \in Nat
           /\ \A id \in Live : posts[id].likes \in Nat /\ posts[id].replies \in Nat
<1>1. \A id : LikesOf(id) \subseteq Users BY DEF LikesOf
<1>2. \A id : IsFiniteSet(LikesOf(id)) /\ Rows(id) \in Nat
  BY <1>1, UsersAssumption, FS_Subset, FS_CardinalityType DEF Rows
<1>3. made \in Nat /\ faults \in Nat /\ Live \subseteq 1 .. made
  BY DEF TypeOK
<1>4. IsFiniteSet(1 .. made)
  BY <1>3, FS_Interval
<1>5. \A id : RepliesTo(id) \subseteq 1 .. made BY <1>3 DEF RepliesTo
<1>6. \A id : IsFiniteSet(RepliesTo(id)) /\ Kids(id) \in Nat
  BY <1>4, <1>5, FS_Subset, FS_CardinalityType DEF Kids
<1>7. \A pc, id : At(pc, id) \subseteq Procs BY DEF At
<1>8. Cardinality(Procs) \in Nat BY ProcsAssumption, FS_CardinalityType
<1>9. \A pc, id : /\ IsFiniteSet(At(pc, id))
                  /\ Cardinality(At(pc, id)) \in 0 .. Cardinality(Procs)
  BY <1>7, <1>8, ProcsAssumption, FS_Subset, FS_CardinalityType
<1>10. Lost \in Nat BY <1>3, <1>8 DEF Lost
<1>11. \A id \in Live : posts[id].likes \in Nat /\ posts[id].replies \in Nat
  BY DEF TypeOK, Post
<1>12. QED BY <1>2, <1>6, <1>8, <1>9, <1>10, <1>11

\* A failure makes room for what every request in flight may leave uncounted.
LEMMA LostGrows ==
    ASSUME TypeOK
    PROVE  /\ faults' = faults => Lost' = Lost
           /\ Fault => Lost' = Lost + Cardinality(Procs)
<1>1. faults \in Nat /\ Cardinality(Procs) \in Nat
  BY Finite DEF TypeOK
<1>2. \A n \in Nat : (faults + 1) * n = faults * n + n BY <1>1
<1>3. QED BY <1>1, <1>2 DEF Lost, Fault

LEMMA OneMore ==
    ASSUME NEW S, IsFiniteSet(S), NEW x, x \notin S
    PROVE  Cardinality(S \cup {x}) = Cardinality(S) + 1
BY FS_AddElement

LEMMA OneLess ==
    ASSUME NEW S, IsFiniteSet(S), NEW x \in S
    PROVE  Cardinality(S) = Cardinality(S \ {x}) + 1
<1>1. IsFiniteSet(S \ {x}) BY FS_Subset
<1>2. S = (S \ {x}) \cup {x} /\ x \notin S \ {x} OBVIOUS
<1>3. QED BY <1>1, <1>2, OneMore

\* What one request that moves does to the number of requests before a statement.
LEMMA MoveCounts ==
    ASSUME TypeOK, NEW p \in Procs, NEW r, Moves(p, r), NEW pc, NEW id
    PROVE  LET was == req[p].pc = pc /\ req[p].about = id
               is  == r.pc = pc /\ r.about = id
           IN /\ (was <=> is) => Cardinality(At(pc, id))' = Cardinality(At(pc, id))
              /\ ~ was /\ is => Cardinality(At(pc, id))' = Cardinality(At(pc, id)) + 1
              /\ was /\ ~ is => Cardinality(At(pc, id)) = Cardinality(At(pc, id))' + 1
              /\ Cardinality(At(pc, id))' \in Nat
<1> DEFINE was == req[p].pc = pc /\ req[p].about = id
           is  == r.pc = pc /\ r.about = id
<1>1. req \in [Procs -> Request] BY DEF TypeOK
<1>2. \A q \in Procs : req'[q] = IF q = p THEN r ELSE req[q]
  BY <1>1 DEF Moves
<1>3. At(pc, id)' = {q \in Procs : req'[q].pc = pc /\ req'[q].about = id}
  BY DEF At
<1>4. p \in At(pc, id) <=> was BY DEF At
<1>5. IsFiniteSet(At(pc, id)) BY Finite
<1>6. (was <=> is) => At(pc, id)' = At(pc, id)
  BY <1>2, <1>3 DEF At
<1>7. ~ was /\ is => At(pc, id)' = At(pc, id) \cup {p}
  BY <1>2, <1>3 DEF At
<1>8. was /\ ~ is => At(pc, id)' = At(pc, id) \ {p}
  BY <1>2, <1>3 DEF At
<1>9. Cardinality(At(pc, id))' \in Nat
  <2>1. At(pc, id)' \subseteq Procs BY <1>3
  <2>2. QED BY <2>1, ProcsAssumption, FS_Subset, FS_CardinalityType
<1>10. QED BY <1>4, <1>5, <1>6, <1>7, <1>8, <1>9, OneMore, OneLess

\* A request that neither comes from a counter's update nor goes to one.
LEMMA QuietMove ==
    ASSUME TypeOK, NEW p \in Procs, NEW r, Moves(p, r),
           req[p].pc \notin {"inc", "dec", "count"}, r.pc \notin {"inc", "dec", "count"}
    PROVE  \A id : Incs(id)' = Incs(id) /\ Decs(id)' = Decs(id) /\ Counts(id)' = Counts(id)
<1> TAKE id
<1>1. \A pc \in {"inc", "dec", "count"} : Cardinality(At(pc, id))' = Cardinality(At(pc, id))
  <2> TAKE pc \in {"inc", "dec", "count"}
  <2>1. QED BY MoveCounts
<1>2. QED BY <1>1 DEF Incs, Decs, Counts

\* The rows of post_likes and the replies of a post do not change by themselves.
LEMMA RowsKept ==
    ASSUME NEW id
    PROVE  /\ likers' = likers => Rows(id)' = Rows(id)
           /\ posts' = posts => Kids(id)' = Kids(id)
           /\ (Live' = Live /\ \A i \in Live : posts'[i].parent = posts[i].parent)
                 => Kids(id)' = Kids(id)
<1>1. likers' = likers => LikesOf(id)' = LikesOf(id) BY DEF LikesOf
<1>2. (Live' = Live /\ \A i \in Live : posts'[i].parent = posts[i].parent)
         => RepliesTo(id)' = RepliesTo(id)
  BY DEF RepliesTo
<1>3. posts' = posts => RepliesTo(id)' = RepliesTo(id) BY DEF RepliesTo, Live
<1>4. QED BY <1>1, <1>2, <1>3 DEF Rows, Kids

\* A like adds a row and owes an increment; an unlike takes a row and owes a decrement.
LEMMA LikeAccounts ==
    ASSUME TypeOK, Accounted, NEW p \in Procs, NEW u \in Users, NEW a,
           Like(p, u, a) \/ Unlike(p, u, a)
    PROVE  Accounted'
<1>1. /\ posts' = posts /\ Live' = Live /\ faults' = faults /\ clamped' = clamped
      /\ req[p].pc = "idle"
  BY DEF Like, Unlike, Live, Start, Idle, Local
<1>2. Lost' = Lost BY <1>1, LostGrows
<1>3. SUFFICES ASSUME NEW id \in Live PROVE (LikesOK(id) /\ RepliesOK(id))'
  BY <1>1 DEF Accounted
<1>4. Kids(id)' = Kids(id) BY <1>1, RowsKept
<1>5. LikesOK(id) /\ RepliesOK(id) BY DEF Accounted
<1>6. /\ Rows(id) \in Nat /\ Incs(id) \in Nat /\ Decs(id) \in Nat /\ Counts(id) \in Nat
      /\ Lost \in Nat /\ posts[id].likes \in Nat /\ IsFiniteSet(LikesOf(id))
  BY Finite DEF Incs, Decs, Counts
<1>7. CASE Like(p, u, a)
  <2>1. PICK r : Moves(p, r) /\ r.pc = "inc" /\ r.about = a
    <3>1. Moves(p, Local("inc", u, a, a, NoUser, {})) BY <1>7, StepsMove
    <3>2. /\ Local("inc", u, a, a, NoUser, {}).pc = "inc"
          /\ Local("inc", u, a, a, NoUser, {}).about = a
      BY DEF Local
    <3>3. QED BY <3>1, <3>2
  <2>2. /\ Incs(id)' = IF id = a THEN Incs(id) + 1 ELSE Incs(id)
        /\ Decs(id)' = Decs(id) /\ Counts(id)' = Counts(id)
    BY <1>1, <2>1, MoveCounts DEF Incs, Decs, Counts
  <2>3. Rows(id)' = IF id = a THEN Rows(id) + 1 ELSE Rows(id)
    <3>1. id # a => LikesOf(id)' = LikesOf(id)
      BY <1>7 DEF Like, LikesOf
    <3>2. id = a => LikesOf(id)' = LikesOf(id) \cup {u} /\ u \notin LikesOf(id)
      BY <1>7 DEF Like, LikesOf
    <3>3. QED BY <1>6, <3>1, <3>2, OneMore DEF Rows
  <2>4. QED BY <1>1, <1>2, <1>4, <1>5, <1>6, <2>2, <2>3 DEF LikesOK, RepliesOK
<1>8. CASE Unlike(p, u, a)
  <2>1. PICK r : Moves(p, r) /\ r.pc = "dec" /\ r.about = a
    <3>1. Moves(p, Local("dec", u, a, a, NoUser, {})) BY <1>8, StepsMove
    <3>2. /\ Local("dec", u, a, a, NoUser, {}).pc = "dec"
          /\ Local("dec", u, a, a, NoUser, {}).about = a
      BY DEF Local
    <3>3. QED BY <3>1, <3>2
  <2>2. /\ Decs(id)' = IF id = a THEN Decs(id) + 1 ELSE Decs(id)
        /\ Incs(id)' = Incs(id) /\ Counts(id)' = Counts(id)
    BY <1>1, <2>1, MoveCounts DEF Incs, Decs, Counts
  <2>3. /\ id = a => Rows(id) = Rows(id)' + 1
        /\ id # a => Rows(id)' = Rows(id)
    <3>1. id # a => LikesOf(id)' = LikesOf(id)
      BY <1>8 DEF Unlike, LikesOf
    <3>2. id = a => LikesOf(id)' = LikesOf(id) \ {u} /\ u \in LikesOf(id)
      BY <1>8 DEF Unlike, LikesOf
    <3>3. QED BY <1>6, <3>1, <3>2, OneLess DEF Rows
  <2>4. Rows(id)' \in Nat
    <3>1. LikesOf(id)' \subseteq LikesOf(id) BY <1>8 DEF Unlike, LikesOf
    <3>2. QED BY <1>6, <3>1, FS_Subset, FS_CardinalityType DEF Rows
  <2>5. QED BY <1>1, <1>2, <1>4, <1>5, <1>6, <2>2, <2>3, <2>4 DEF LikesOK, RepliesOK
<1>9. QED BY <1>7, <1>8

\* The update of a counter settles what its request owed, or fails and is lost.
LEMMA UpdateAccounts ==
    ASSUME TypeOK, Accounted, NEW p \in Procs,
           CountLike(p) \/ UncountLike(p) \/ CountReply(p)
    PROVE  Accounted'
<1> DEFINE a == req[p].about
<1>1. PICK r : /\ Moves(p, r) /\ r.pc \notin {"inc", "dec", "count"}
  <2>1. req[p] \in Request BY RequestsTyped
  <2>2. CASE UncountLike(p)
    <3>1. Moves(p, Idle) BY <2>2, StepsMove
    <3>2. Idle.pc = "idle" BY DEF Idle, Local
    <3>3. QED BY <3>1, <3>2
  <2>3. CASE CountLike(p) \/ CountReply(p)
    <3>1. Moves(p, [req[p] EXCEPT !.pc = "ask"]) BY <2>3, StepsMove
    <3>2. [req[p] EXCEPT !.pc = "ask"].pc = "ask" BY <2>1 DEF Request
    <3>3. QED BY <3>1, <3>2
  <2>4. QED BY <2>2, <2>3
<1>2. likers' = likers BY DEF CountLike, UncountLike, CountReply
<1>3. /\ Live' = Live
      /\ \A i \in Live : posts'[i].parent = posts[i].parent
  <2>1. CASE posts' = posts BY <2>1 DEF Live
  <2>2. CASE posts' # posts
    <3>1. PICK i : IncLikeCount(i) \/ DecLikeCount(i) \/ IncrementReplyCount(i)
      BY <2>2 DEF CountLike, UncountLike, CountReply
    <3>2. QED BY <3>1, CounterUpdates
  <2>3. QED BY <2>1, <2>2
<1>4. SUFFICES ASSUME NEW id \in Live PROVE (LikesOK(id) /\ RepliesOK(id))'
  BY <1>3 DEF Accounted
<1>5. Rows(id)' = Rows(id) /\ Kids(id)' = Kids(id)
  BY <1>2, <1>3, RowsKept
<1>6. LikesOK(id) /\ RepliesOK(id) BY DEF Accounted
<1>7. /\ Rows(id) \in Nat /\ Incs(id) \in 0 .. Cardinality(Procs)
      /\ Decs(id) \in 0 .. Cardinality(Procs) /\ Counts(id) \in 0 .. Cardinality(Procs)
      /\ Kids(id) \in Nat /\ Lost \in Nat /\ Cardinality(Procs) \in Nat
      /\ posts[id].likes \in Nat /\ posts[id].replies \in Nat
  BY Finite DEF Incs, Decs, Counts
<1>8. posts \in [Live -> Post] BY DEF TypeOK
<1>9. Cardinality(Procs) >= 1
  <2>1. p \in Procs /\ Procs # {} OBVIOUS
  <2>2. QED BY <1>7, <2>1, ProcsAssumption, FS_EmptySet
<1>10. CASE CountLike(p)
  <2>1. /\ id = a => Incs(id) = Incs(id)' + 1
        /\ id # a => Incs(id)' = Incs(id)
        /\ Decs(id)' = Decs(id) /\ Counts(id)' = Counts(id) /\ Incs(id)' \in Nat
    BY <1>1, <1>10, MoveCounts DEF CountLike, Incs, Decs, Counts
  <2>2. clamped' = clamped BY <1>10 DEF CountLike
  <2>3. CASE IncLikeCount(a) /\ faults' = faults
    <3>1. /\ posts'[id].likes = IF id = a THEN posts[id].likes + 1 ELSE posts[id].likes
          /\ posts'[id].replies = posts[id].replies
      BY <1>8, <2>3 DEF IncLikeCount, SetLikes, Post
    <3>2. Lost' = Lost BY <2>3, LostGrows
    <3>3. QED BY <1>5, <1>6, <1>7, <2>1, <2>2, <3>1, <3>2 DEF LikesOK, RepliesOK
  <2>4. CASE Fault /\ posts' = posts
    <3>1. Lost' = Lost + Cardinality(Procs) BY <2>4, LostGrows
    <3>2. QED BY <1>5, <1>6, <1>7, <1>9, <2>1, <2>2, <2>4, <3>1 DEF LikesOK, RepliesOK
  <2>5. QED BY <1>10, <2>3, <2>4 DEF CountLike
<1>11. CASE CountReply(p)
  <2>1. /\ id = a => Counts(id) = Counts(id)' + 1
        /\ id # a => Counts(id)' = Counts(id)
        /\ Incs(id)' = Incs(id) /\ Decs(id)' = Decs(id) /\ Counts(id)' \in Nat
    BY <1>1, <1>11, MoveCounts DEF CountReply, Incs, Decs, Counts
  <2>2. clamped' = clamped BY <1>11 DEF CountReply
  <2>3. CASE IncrementReplyCount(a) /\ faults' = faults
    <3>1. /\ posts'[id].replies = IF id = a THEN posts[id].replies + 1 ELSE posts[id].replies
          /\ posts'[id].likes = posts[id].likes
      BY <1>8, <2>3 DEF IncrementReplyCount, Post
    <3>2. Lost' = Lost BY <2>3, LostGrows
    <3>3. QED BY <1>5, <1>6, <1>7, <2>1, <2>2, <3>1, <3>2 DEF LikesOK, RepliesOK
  <2>4. CASE Fault /\ posts' = posts
    <3>1. Lost' = Lost + Cardinality(Procs) BY <2>4, LostGrows
    <3>2. QED BY <1>5, <1>6, <1>7, <1>9, <2>1, <2>2, <2>4, <3>1 DEF LikesOK, RepliesOK
  <2>5. QED BY <1>11, <2>3, <2>4 DEF CountReply
<1>12. CASE UncountLike(p)
  <2>1. /\ id = a => Decs(id) = Decs(id)' + 1
        /\ id # a => Decs(id)' = Decs(id)
        /\ Incs(id)' = Incs(id) /\ Counts(id)' = Counts(id) /\ Decs(id)' \in Nat
    BY <1>1, <1>12, MoveCounts DEF UncountLike, Incs, Decs, Counts
  <2>3. CASE DecLikeCount(a) /\ faults' = faults
    <3>1. Lost' = Lost BY <2>3, LostGrows
    <3>2. CASE id = a /\ posts[a].likes = 0
      <4>1. posts' = posts /\ id \in clamped'
        BY <2>3, <3>2 DEF DecLikeCount
      <4>2. QED BY <1>5, <1>6, <1>7, <2>1, <3>1, <4>1, <3>2 DEF LikesOK, RepliesOK
    <3>3. CASE id = a /\ posts[a].likes # 0
      <4>1. /\ posts'[id].likes = posts[id].likes - 1
            /\ posts'[id].replies = posts[id].replies /\ clamped' = clamped
        BY <1>8, <2>3, <3>3 DEF DecLikeCount, SetLikes, Post
      <4>2. QED BY <1>5, <1>6, <1>7, <2>1, <3>1, <4>1, <3>3 DEF LikesOK, RepliesOK
    <3>4. CASE id # a
      <4>1. /\ posts'[id] = posts[id] /\ clamped \subseteq clamped'
        BY <1>8, <2>3, <3>4 DEF DecLikeCount, SetLikes
      <4>2. QED BY <1>5, <1>6, <1>7, <2>1, <3>1, <4>1, <3>4 DEF LikesOK, RepliesOK
    <3>5. QED BY <3>2, <3>3, <3>4
  <2>4. CASE Fault /\ posts' = posts /\ clamped' = clamped
    <3>1. Lost' = Lost + Cardinality(Procs) BY <2>4, LostGrows
    <3>2. QED BY <1>5, <1>6, <1>7, <1>9, <2>1, <2>4, <3>1 DEF LikesOK, RepliesOK
  <2>5. QED BY <1>12, <2>3, <2>4 DEF UncountLike
<1>13. QED BY <1>10, <1>11, <1>12

\* A new post has no like and no reply; a new reply is owed to its parent's count.
LEMMA InsertAccounts ==
    ASSUME TypeOK, Serial, Parents, Accounted, NEW p \in Procs, NEW u \in Users,
           NEW names \in Texts, NEW a \in 0 .. MaxPosts,
           \/ a = 0 /\ CreatePost(p, u, names)
           \/ a \in Live /\ CreateReply(p, u, a, names)
    PROVE  Accounted'
<1>1. /\ InsertPost(u, a, names) /\ likers' = likers /\ faults' = faults
      /\ clamped' = clamped /\ req[p].pc = "idle"
  BY DEF CreatePost, CreateReply, Start, Idle, Local
<1>2. PICK new : new = made' /\ new = made + 1
  BY <1>1 DEF InsertPost
<1>3. /\ new \notin Live /\ Live' = Live \cup {new} /\ \A i \in Live : posts'[i] = posts[i]
      /\ posts'[new] = [author |-> u, parent |-> a, names |-> names, likes |-> 0, replies |-> 0]
  BY <1>1, <1>2, TextsAssumption, Insertion
<1>4. /\ posts'[new].parent = a /\ posts'[new].likes = 0 /\ posts'[new].replies = 0
  BY <1>3
<1>5. PICK r : /\ Moves(p, r)
               /\ a = 0 => r.pc \in {"idle", "mention"} /\ r.about = 0
               /\ a \in Live => r.pc = "count" /\ r.about = a
  <2>1. 0 \notin Live BY DEF TypeOK
  <2>2. CASE a = 0 /\ CreatePost(p, u, names)
    <3>1. Moves(p, Mentioning(u, new, names)) BY <1>2, <2>2, StepsMove
    <3>2. QED BY <2>1, <2>2, <3>1, MentioningIs
  <2>3. CASE a \in Live /\ CreateReply(p, u, a, names)
    <3>1. Moves(p, Local("count", u, new, a, NoUser, names)) BY <1>2, <2>3, StepsMove
    <3>2. /\ Local("count", u, new, a, NoUser, names).pc = "count"
          /\ Local("count", u, new, a, NoUser, names).about = a
      BY DEF Local
    <3>3. QED BY <2>1, <2>3, <3>1, <3>2
  <2>4. QED BY <2>2, <2>3
<1>6. made \in Nat /\ Live \subseteq 1 .. made /\ likers \subseteq Users \X Live
  BY DEF TypeOK
<1>7. Lost' = Lost /\ Lost \in Nat BY <1>1, LostGrows, Finite
<1>8. SUFFICES ASSUME NEW id \in Live' PROVE (LikesOK(id) /\ RepliesOK(id))'
  BY DEF Accounted
<1>9. Rows(id)' = Rows(id) BY <1>1, RowsKept
<1>10. /\ Incs(id)' = Incs(id) /\ Decs(id)' = Decs(id)
       /\ Counts(id)' = IF a \in Live /\ id = a THEN Counts(id) + 1 ELSE Counts(id)
  <2>1. a = 0 \/ a \in Live BY <1>5 DEF CreatePost, CreateReply
  <2>2. 0 \notin Live BY <1>6
  <2>3. QED BY <1>1, <1>5, <2>1, <2>2, MoveCounts DEF Incs, Decs, Counts
<1>11. /\ Rows(id) \in Nat /\ Incs(id) \in Nat /\ Decs(id) \in Nat /\ Counts(id) \in Nat
       /\ Kids(id) \in Nat /\ IsFiniteSet(RepliesTo(id))
  BY Finite DEF Incs, Decs, Counts
<1>12. CASE id = new
  <2>1. Incs(id) = 0 /\ Decs(id) = 0 /\ Counts(id) = 0
    <3>1. \A pc : At(pc, id) = {}
      BY <1>2, <1>6, <1>12 DEF At, Serial
    <3>2. QED BY <3>1, FS_EmptySet DEF Incs, Decs, Counts
  <2>2. Rows(id) = 0
    <3>1. LikesOf(id) = {} BY <1>3, <1>6, <1>12 DEF LikesOf
    <3>2. QED BY <3>1, FS_EmptySet DEF Rows
  <2>3. Kids(id)' = 0
    <3>1. a # new BY <1>2, <1>6 DEF CreatePost, CreateReply
    <3>2. \A i \in Live : posts[i].parent # new
      <4> TAKE i \in Live
      <4>1. i \in 1 .. made /\ posts[i].parent \in 0 .. (i - 1) BY <1>6 DEF Parents
      <4>2. QED BY <1>2, <1>6, <4>1
    <3>3. \A i \in Live' : posts'[i].parent # id
      BY <1>3, <1>4, <1>12, <3>1, <3>2
    <3>4. RepliesTo(id)' = {} BY <3>3 DEF RepliesTo
    <3>5. QED BY <3>4, FS_EmptySet DEF Kids
  <2>4. a \notin Live \/ id # a BY <1>3, <1>12
  <2>5. QED
    BY <1>4, <1>7, <1>9, <1>10, <1>12, <2>1, <2>2, <2>3, <2>4 DEF LikesOK, RepliesOK
<1>13. CASE id \in Live
  <2>1. LikesOK(id) /\ RepliesOK(id) BY <1>13 DEF Accounted
  <2>2. posts'[id] = posts[id] BY <1>3, <1>13
  <2>3. Kids(id)' = IF id = a THEN Kids(id) + 1 ELSE Kids(id)
    <3>1. id # a => RepliesTo(id)' = RepliesTo(id)
      BY <1>3, <1>4 DEF RepliesTo
    <3>2. id = a => RepliesTo(id)' = RepliesTo(id) \cup {new} /\ new \notin RepliesTo(id)
      BY <1>3, <1>4 DEF RepliesTo
    <3>3. QED BY <1>11, <3>1, <3>2, OneMore DEF Kids
  <2>4. posts[id].replies \in Nat /\ posts[id].likes \in Nat
    BY <1>13, Finite
  <2>5. (LikesOK(id))'
    BY <1>1, <1>7, <1>9, <1>10, <1>11, <2>1, <2>2 DEF LikesOK
  <2>6. (RepliesOK(id))'
    BY <1>7, <1>10, <1>11, <1>13, <2>1, <2>2, <2>3, <2>4 DEF RepliesOK
  <2>7. QED BY <2>5, <2>6
<1>14. QED BY <1>3, <1>12, <1>13

\* Deleting takes no row of a post that stays, and can only take replies of it.
LEMMA DeleteAccounts ==
    ASSUME TypeOK, Accounted, NEW u \in Users, NEW d \in Ids, DeletePost(u, d)
    PROVE  Accounted'
<1>1. /\ Live' = Live \ Below(d)
      /\ \A i \in Live' : posts'[i] = posts[i]
  BY Deletion
<1>2. /\ req' = req /\ faults' = faults /\ clamped' = clamped
      /\ likers' = {l \in likers : l[2] \notin Below(d)}
  BY DEF DeletePost
<1>3. Lost' = Lost BY <1>2, LostGrows
<1>4. SUFFICES ASSUME NEW id \in Live' PROVE (LikesOK(id) /\ RepliesOK(id))'
  BY DEF Accounted
<1>5. LikesOK(id) /\ RepliesOK(id) /\ posts'[id] = posts[id] /\ id \in Live
  BY <1>1 DEF Accounted
<1>6. \A pc : At(pc, id)' = At(pc, id) BY <1>2 DEF At
<1>7. Incs(id)' = Incs(id) /\ Decs(id)' = Decs(id) /\ Counts(id)' = Counts(id)
  BY <1>6 DEF Incs, Decs, Counts
<1>8. Rows(id)' = Rows(id)
  <2>1. LikesOf(id)' = LikesOf(id) BY <1>1, <1>2 DEF LikesOf
  <2>2. QED BY <2>1 DEF Rows
<1>9. Kids(id)' \in Nat /\ Kids(id)' <= Kids(id)
  <2>1. RepliesTo(id)' \subseteq RepliesTo(id) BY <1>1 DEF RepliesTo
  <2>2. QED BY <2>1, Finite, FS_Subset, FS_CardinalityType DEF Kids
<1>10. /\ Kids(id) \in Nat /\ Counts(id) \in Nat /\ Lost \in Nat
       /\ posts[id].replies \in Nat
  BY <1>5, Finite DEF Counts
<1>11. (LikesOK(id))' BY <1>2, <1>3, <1>5, <1>7, <1>8 DEF LikesOK
<1>12. (RepliesOK(id))' BY <1>3, <1>5, <1>7, <1>9, <1>10 DEF RepliesOK
<1>13. QED BY <1>11, <1>12

\* The notifications touch no counter.
LEMMA QuietAccounts ==
    ASSUME TypeOK, Accounted, NEW p \in Procs,
           ReadAuthor(p) \/ TellAuthor(p) \/ TellMentioned(p)
    PROVE  Accounted'
<1>1. /\ posts' = posts /\ Live' = Live /\ likers' = likers /\ clamped' = clamped
      /\ faults' = faults \/ Fault
      /\ req[p].pc \notin {"inc", "dec", "count"}
  BY DEF ReadAuthor, TellAuthor, TellMentioned, Live
<1>2. PICK r : Moves(p, r) /\ r.pc \notin {"inc", "dec", "count"}
  <2>1. \A u : [req[p] EXCEPT !.pc = "tell", !.to = u].pc = "tell"
    BY RequestsTyped DEF Request
  <2>2. CASE \E u : Moves(p, [req[p] EXCEPT !.pc = "tell", !.to = u])
    BY <2>1, <2>2
  <2>3. CASE \E names : Moves(p, Mentioning(req[p].user, req[p].post, names))
    BY <2>3, MentioningIs
  <2>4. QED BY <2>2, <2>3, StepsMove
<1>3. Lost \in Nat /\ Lost' \in Nat /\ Lost <= Lost'
  <2>1. Lost \in Nat /\ Cardinality(Procs) \in Nat BY Finite
  <2>2. QED BY <1>1, <2>1, LostGrows
<1>4. SUFFICES ASSUME NEW id \in Live PROVE (LikesOK(id) /\ RepliesOK(id))'
  BY <1>1 DEF Accounted
<1>5. /\ Incs(id)' = Incs(id) /\ Decs(id)' = Decs(id) /\ Counts(id)' = Counts(id)
      /\ Rows(id)' = Rows(id) /\ Kids(id)' = Kids(id)
  BY <1>1, <1>2, QuietMove, RowsKept
<1>6. /\ Rows(id) \in Nat /\ Incs(id) \in Nat /\ Decs(id) \in Nat /\ Counts(id) \in Nat
      /\ Kids(id) \in Nat /\ posts[id].likes \in Nat /\ posts[id].replies \in Nat
  BY Finite DEF Incs, Decs, Counts
<1>7. LikesOK(id) /\ RepliesOK(id) BY DEF Accounted
<1>8. QED BY <1>1, <1>3, <1>5, <1>6, <1>7 DEF LikesOK, RepliesOK

\* A restart loses what every request owed, and no more than the requests there are.
LEMMA RestartAccounts ==
    ASSUME TypeOK, Accounted, Restart
    PROVE  Accounted'
<1>1. /\ posts' = posts /\ Live' = Live /\ likers' = likers /\ clamped' = clamped
      /\ req' = [p \in Procs |-> Idle] /\ Lost' = Lost + Cardinality(Procs)
  BY LostGrows DEF Restart, Live
<1>2. SUFFICES ASSUME NEW id \in Live PROVE (LikesOK(id) /\ RepliesOK(id))'
  BY <1>1 DEF Accounted
<1>3. Incs(id)' = 0 /\ Decs(id)' = 0 /\ Counts(id)' = 0
  <2>1. Idle.pc = "idle" BY DEF Idle, Local
  <2>2. \A pc \in {"inc", "dec", "count"} : At(pc, id)' = {} BY <1>1, <2>1 DEF At
  <2>3. QED BY <2>2, FS_EmptySet DEF Incs, Decs, Counts
<1>4. Rows(id)' = Rows(id) /\ Kids(id)' = Kids(id) BY <1>1, RowsKept
<1>5. /\ Rows(id) \in Nat /\ Incs(id) \in 0 .. Cardinality(Procs)
      /\ Decs(id) \in 0 .. Cardinality(Procs) /\ Counts(id) \in 0 .. Cardinality(Procs)
      /\ Kids(id) \in Nat /\ Lost \in Nat /\ Cardinality(Procs) \in Nat
      /\ posts[id].likes \in Nat /\ posts[id].replies \in Nat
  BY Finite DEF Incs, Decs, Counts
<1>6. LikesOK(id) /\ RepliesOK(id) BY DEF Accounted
<1>7. QED BY <1>1, <1>3, <1>4, <1>5, <1>6 DEF LikesOK, RepliesOK

LEMMA AccountedStep ==
    ASSUME TypeOK, Serial, Parents, Accounted, [Next]_vars
    PROVE  Accounted'
<1>1. CASE UNCHANGED vars
  BY <1>1 DEF vars, Accounted, LikesOK, RepliesOK, Rows, Incs, Decs, Counts, Kids, Lost,
              LikesOf, RepliesTo, At, Live
<1>2. 0 \in 0 .. MaxPosts /\ Ids \subseteq 0 .. MaxPosts
  BY BoundsAssumption DEF Ids
<1>3. \A p, u, a, names : CreateReply(p, u, a, names) => a \in Live
  BY DEF CreateReply
<1>4. QED
  BY <1>1, <1>2, <1>3, LikeAccounts, UpdateAccounts, InsertAccounts, DeleteAccounts,
     QuietAccounts, RestartAccounts
     DEF Next, Continue, GetLikeCount

\* What the counters rest on, inductively.
Inv == TypeOK /\ Serial /\ Parents /\ Accounted

LEMMA InvHolds == Spec => []Inv
<1>1. Init => Inv
  <2> SUFFICES ASSUME Init PROVE Inv
    OBVIOUS
  <2>1. Live = {} BY DEF Init, Live
  <2>2. Idle.post = 0 /\ Idle.about = 0 BY DEF Idle, Local
  <2>3. QED BY <2>1, <2>2, TypeInit DEF Init, Inv, Serial, Parents, Accounted
<1>2. Inv /\ [Next]_vars => Inv'
  BY TypeStep, SerialStep, ParentsStep, AccountedStep DEF Inv
<1>3. QED BY <1>1, <1>2, PTL DEF Spec

\* However many requests like and unlike a post at once, its count stays within what is
\* still owed and what failures lost of the rows of post_likes, on both sides unless
\* GREATEST once floored it.
THEOREM LikesAreAccounted == Spec => []LikesAccounted
<1>1. Inv => LikesAccounted BY AccountedIs DEF Inv
<1>2. QED BY <1>1, InvHolds, PTL

\* No reply that is stored is missing from reply_count, unless its count is on its way
\* or failed: a thread shows every reply.
THEOREM RepliesAreCounted == Spec => []RepliesCounted
<1>1. Inv => RepliesCounted BY AccountedIs DEF Inv
<1>2. QED BY <1>1, InvHolds, PTL

\* GREATEST hides a decrement only while an increment of the same post is on its way.
THEOREM ClampsAreRaces == Spec => ClampOnlyInARace
<1>1. Inv /\ [Next]_vars => [\A id \in clamped' \ clamped : faults > 0 \/ At("inc", id) # {}]_vars
  <2> SUFFICES ASSUME Inv, Next, NEW id \in clamped' \ clamped, ~ (faults > 0), At("inc", id) = {}
               PROVE  FALSE
    BY DEF vars
  <2>1. PICK p \in Procs : UncountLike(p)
    BY DEF Next, Continue, GetLikeCount, CountLike, CountReply, ReadAuthor, TellAuthor,
           TellMentioned, Like, Unlike, CreatePost, CreateReply, DeletePost, Restart, vars
  <2>2. /\ id \in Live /\ posts[id].likes = 0 /\ req[p].about = id /\ req[p].pc = "dec"
    BY <2>1 DEF UncountLike, DecLikeCount, SetLikes
  <2>3. LikesOK(id) /\ Rows(id) \in Nat /\ Decs(id) \in Nat /\ IsFiniteSet(At("dec", id))
    BY <2>2, Finite DEF Inv, Accounted, Decs
  <2>4. Incs(id) = 0 BY FS_EmptySet DEF Incs
  <2>5. Decs(id) # 0
    <3>1. p \in At("dec", id) BY <2>2 DEF At
    <3>2. QED BY <2>3, <3>1, FS_EmptySet DEF Decs
  <2>6. Lost = 0
    <3>1. faults = 0 /\ Cardinality(Procs) \in Nat BY Finite DEF Inv, TypeOK
    <3>2. QED BY <3>1 DEF Lost
  <2>7. QED BY <2>2, <2>3, <2>4, <2>5, <2>6 DEF LikesOK
<1>2. QED BY <1>1, InvHolds, PTL DEF Spec, ClampOnlyInARace

-----------------------------------------------------------------------------
(* Whom a request still has to tell *)

\* EveryoneIsTold is not inductive: who is about to be told has to be the author of the
\* post that the request is about, and a request that takes a like back, and then ends,
\* mentions nobody.
Addressed == \A p \in Procs :
    /\ req[p].pc = "tell" /\ req[p].about \in Live => req[p].to = posts[req[p].about].author
    /\ req[p].pc = "dec" => req[p].names = {}

\* What request x is going to tell of the like of u, of reply i to a, and that i
\* mentions m.
TellsLike(x, u, i) ==
    x.user = u /\ x.post = i /\ x.about = i /\ x.pc \in {"inc", "ask", "tell"}

TellsReply(x, u, i, a) ==
    x.user = u /\ x.post = i /\ x.about = a /\ x.pc \in {"count", "ask", "tell"}

TellsMention(x, u, i, m) == x.user = u /\ x.post = i /\ m \in x.names

\* The three parts of EveryoneIsTold, for one row each.
LikeTold(u, i) ==
    \/ posts[i].author = u
    \/ Was(posts[i].author, u, "like", i)
    \/ \E p \in Procs : TellsLike(req[p], u, i)

ReplyTold(i) ==
    \/ posts[i].parent = 0
    \/ posts[posts[i].parent].author = posts[i].author
    \/ Was(posts[posts[i].parent].author, posts[i].author, "reply", i)
    \/ \E p \in Procs : TellsReply(req[p], posts[i].author, i, posts[i].parent)

MentionTold(i, m) ==
    \/ m = posts[i].author
    \/ Was(m, posts[i].author, "mention", i)
    \/ \E p \in Procs : TellsMention(req[p], posts[i].author, i, m)

AllTold == /\ \A l \in likers : LikeTold(l[1], l[2])
           /\ \A i \in Live : ReplyTold(i) /\ \A m \in posts[i].names : MentionTold(i, m)

LEMMA AllToldIs == EveryoneIsTold <=> (faults = 0 => AllTold)
BY DEF EveryoneIsTold, AllTold, LikesTold, RepliesTold, MentionsTold, LikeTold, ReplyTold,
       MentionTold, TellsLike, TellsReply, TellsMention, Telling

\* What a step does to a post that stays: nothing but its counts; and what was told of
\* it stays told.
Keeps(i) == /\ i \in Live /\ i \in Live'
            /\ posts'[i].author = posts[i].author /\ posts'[i].parent = posts[i].parent
            /\ posts'[i].names = posts[i].names
            /\ \A n \in told : n.post = i => n \in told'

\* A row is told of, or is going to be, if whoever was going to tell of it has done so or
\* still is.
LEMMA LikeStaysTold ==
    ASSUME NEW u, NEW i, LikeTold(u, i), Keeps(i),
           \A q \in Procs : TellsLike(req[q], u, i) /\ posts[i].author # u
               => TellsLike(req'[q], u, i) \/ Was(posts[i].author, u, "like", i)'
    PROVE  LikeTold(u, i)'
BY DEF LikeTold, Keeps, Was

LEMMA ReplyStaysTold ==
    ASSUME NEW i, ReplyTold(i), Keeps(i), posts[i].parent # 0 => Keeps(posts[i].parent),
           \A q \in Procs : /\ TellsReply(req[q], posts[i].author, i, posts[i].parent)
                            /\ posts[i].parent # 0
                            /\ posts[posts[i].parent].author # posts[i].author
               => \/ TellsReply(req'[q], posts[i].author, i, posts[i].parent)
                  \/ Was(posts[posts[i].parent].author, posts[i].author, "reply", i)'
    PROVE  ReplyTold(i)'
BY DEF ReplyTold, Keeps, Was

LEMMA MentionStaysTold ==
    ASSUME NEW i, NEW m, MentionTold(i, m), Keeps(i),
           \A q \in Procs : TellsMention(req[q], posts[i].author, i, m) /\ m # posts[i].author
               => \/ TellsMention(req'[q], posts[i].author, i, m)
                  \/ Was(m, posts[i].author, "mention", i)'
    PROVE  MentionTold(i, m)'
BY DEF MentionTold, Keeps, Was

\* Request p sees to it, as r, that what it was going to tell is told.
SeesTo(p, r) ==
    \A i \in Live :
        /\ \A u \in Users : TellsLike(req[p], u, i) /\ posts[i].author # u
               => TellsLike(r, u, i) \/ Was(posts[i].author, u, "like", i)'
        /\ /\ TellsReply(req[p], posts[i].author, i, posts[i].parent)
           /\ posts[i].parent # 0 /\ posts[posts[i].parent].author # posts[i].author
           => \/ TellsReply(r, posts[i].author, i, posts[i].parent)
              \/ Was(posts[posts[i].parent].author, posts[i].author, "reply", i)'
        /\ \A m \in posts[i].names :
              TellsMention(req[p], posts[i].author, i, m) /\ m # posts[i].author
               => \/ TellsMention(r, posts[i].author, i, m)
                  \/ Was(m, posts[i].author, "mention", i)'

\* Then all rows that were there, and stay, are told of.
LEMMA OldRowsTold ==
    ASSUME TypeOK, Parents, AllTold, \A i \in Live : Keeps(i),
           NEW p \in Procs, NEW r, Moves(p, r), SeesTo(p, r)
    PROVE  /\ \A l \in likers : LikeTold(l[1], l[2])'
           /\ \A i \in Live : ReplyTold(i)' /\ \A m \in posts[i].names : MentionTold(i, m)'
<1>1. \A q \in Procs : req'[q] = IF q = p THEN r ELSE req[q]
  BY DEF TypeOK, Moves
<1>2. ASSUME NEW l \in likers PROVE LikeTold(l[1], l[2])'
  <2>1. l[1] \in Users /\ l[2] \in Live BY DEF TypeOK
  <2>2. LikeTold(l[1], l[2]) /\ Keeps(l[2]) BY <2>1 DEF AllTold
  <2>3. \A q \in Procs : TellsLike(req[q], l[1], l[2]) /\ posts[l[2]].author # l[1]
            => TellsLike(req'[q], l[1], l[2]) \/ Was(posts[l[2]].author, l[1], "like", l[2])'
    BY <1>1, <2>1 DEF SeesTo
  <2>4. QED BY <2>2, <2>3, LikeStaysTold
<1>3. ASSUME NEW i \in Live PROVE ReplyTold(i)'
  <2>1. ReplyTold(i) /\ Keeps(i) /\ (posts[i].parent # 0 => Keeps(posts[i].parent))
    BY DEF AllTold, Parents
  <2>2. \A q \in Procs : /\ TellsReply(req[q], posts[i].author, i, posts[i].parent)
                         /\ posts[i].parent # 0
                         /\ posts[posts[i].parent].author # posts[i].author
            => \/ TellsReply(req'[q], posts[i].author, i, posts[i].parent)
               \/ Was(posts[posts[i].parent].author, posts[i].author, "reply", i)'
    BY <1>1 DEF SeesTo
  <2>3. QED BY <2>1, <2>2, ReplyStaysTold
<1>4. ASSUME NEW i \in Live, NEW m \in posts[i].names PROVE MentionTold(i, m)'
  <2>1. MentionTold(i, m) /\ Keeps(i) BY DEF AllTold
  <2>2. \A q \in Procs : TellsMention(req[q], posts[i].author, i, m) /\ m # posts[i].author
            => \/ TellsMention(req'[q], posts[i].author, i, m)
               \/ Was(m, posts[i].author, "mention", i)'
    BY <1>1 DEF SeesTo
  <2>3. QED BY <2>1, <2>2, MentionStaysTold
<1>5. QED BY <1>2, <1>3, <1>4

\* A step of a request that inserts nothing.
LEMMA GoOnTold ==
    ASSUME TypeOK, Parents, AllTold, \A i \in Live : Keeps(i), Live' = Live,
           likers' \subseteq likers, NEW p \in Procs, NEW r, Moves(p, r), SeesTo(p, r)
    PROVE  AllTold'
<1>1. /\ \A l \in likers : LikeTold(l[1], l[2])'
      /\ \A i \in Live : ReplyTold(i)' /\ \A m \in posts[i].names : MentionTold(i, m)'
  BY OldRowsTold
<1>2. \A i \in Live : posts'[i].names = posts[i].names BY DEF Keeps
<1>3. QED BY <1>1, <1>2 DEF AllTold

\* A request that was idle had nobody to tell; one that goes on as r tells what r tells.
LEMMA IdleSeesTo ==
    ASSUME NEW p, req[p] = Idle, NEW r
    PROVE  SeesTo(p, r)
<1>1. Idle.pc = "idle" /\ Idle.names = {} BY DEF Idle, Local
<1>2. QED BY <1>1 DEF SeesTo, TellsLike, TellsReply, TellsMention

LEMMA MentioningTells ==
    ASSUME NEW u, NEW id, NEW names, NEW m \in names
    PROVE  TellsMention(Mentioning(u, id, names), u, id, m)
BY DEF TellsMention, Mentioning, Local

\* The posts stay as they are.
LEMMA AllKept ==
    ASSUME UNCHANGED posts, told \subseteq told'
    PROVE  Live' = Live /\ \A i \in Live : Keeps(i)
BY DEF Live, Keeps

LEMMA LikesTell ==
    ASSUME TypeOK, Parents, AllTold, NEW p \in Procs, NEW u \in Users, NEW id \in Ids,
           Like(p, u, id) \/ Unlike(p, u, id)
    PROVE  AllTold'
<1>1. Live' = Live /\ \A i \in Live : Keeps(i)
  BY AllKept DEF Like, Unlike
<1>2. req[p] = Idle BY DEF Like, Unlike, Start
<1>3. \A r : SeesTo(p, r) BY <1>2, IdleSeesTo
<1>4. CASE Like(p, u, id)
  <2> DEFINE r == Local("inc", u, id, id, NoUser, {})
  <2>1. Moves(p, r) BY <1>4, StepsMove
  <2>2. /\ \A l \in likers : LikeTold(l[1], l[2])'
        /\ \A i \in Live : ReplyTold(i)' /\ \A m \in posts[i].names : MentionTold(i, m)'
    BY <1>1, <1>3, <2>1, OldRowsTold
  <2>3. req'[p] = r BY <2>1 DEF Moves, TypeOK
  <2>4. TellsLike(req'[p], u, id) BY <2>3 DEF TellsLike, Local
  <2>5. LikeTold(u, id)' BY <2>4 DEF LikeTold
  <2>6. likers' = likers \cup {<<u, id>>} /\ posts' = posts BY <1>4 DEF Like
  <2>7. \A l \in likers' : LikeTold(l[1], l[2])' BY <2>2, <2>5, <2>6
  <2>8. QED BY <1>1, <2>2, <2>6, <2>7 DEF AllTold
<1>5. CASE Unlike(p, u, id)
  <2>1. Moves(p, Local("dec", u, id, id, NoUser, {})) BY <1>5, StepsMove
  <2>2. likers' \subseteq likers BY <1>5 DEF Unlike
  <2>3. QED BY <1>1, <1>3, <2>1, <2>2, GoOnTold
<1>6. QED BY <1>4, <1>5

LEMMA CountsTell ==
    ASSUME TypeOK, Parents, Addressed, AllTold, NEW p \in Procs, ~ Fault,
           CountLike(p) \/ CountReply(p) \/ UncountLike(p)
    PROVE  AllTold'
<1>1. likers' = likers /\ told' = told BY DEF CountLike, CountReply, UncountLike
<1>2. \/ IncLikeCount(req[p].about)
      \/ DecLikeCount(req[p].about)
      \/ IncrementReplyCount(req[p].about)
  BY DEF CountLike, CountReply, UncountLike
<1>3. Live' = Live /\ \A i \in Live : Keeps(i)
  BY <1>1, <1>2, CounterUpdates DEF Keeps
<1>4. PICK r : Moves(p, r) /\ SeesTo(p, r)
  <2>1. CASE CountLike(p) \/ CountReply(p)
    <3> DEFINE r == [req[p] EXCEPT !.pc = "ask"]
    <3>1. req[p] \in Request BY RequestsTyped
    <3>2. /\ r.pc = "ask" /\ r.user = req[p].user /\ r.post = req[p].post
          /\ r.about = req[p].about /\ r.names = req[p].names
      BY <3>1 DEF Request
    <3>3. SeesTo(p, r) BY <3>2 DEF SeesTo, TellsLike, TellsReply, TellsMention
    <3>4. QED BY <2>1, <3>3, StepsMove
  <2>2. CASE UncountLike(p)
    <3>1. req[p].pc = "dec" /\ req[p].names = {} BY <2>2 DEF UncountLike, Addressed
    <3>2. SeesTo(p, Idle) BY <3>1 DEF SeesTo, TellsLike, TellsReply, TellsMention
    <3>3. QED BY <2>2, <3>2, StepsMove
  <2>3. QED BY <2>1, <2>2
<1>5. QED BY <1>1, <1>3, <1>4, GoOnTold

LEMMA ReadsTell ==
    ASSUME TypeOK, Parents, AllTold, NEW p \in Procs, ~ Fault, ReadAuthor(p)
    PROVE  AllTold'
<1>1. likers' = likers /\ Live' = Live /\ \A i \in Live : Keeps(i)
  BY AllKept DEF ReadAuthor
<1>2. req[p] \in Request /\ req[p].pc = "ask" BY RequestsTyped DEF ReadAuthor
<1>3. CASE req[p].about \in Live /\ posts[req[p].about].author # req[p].user
  <2> DEFINE r == [req[p] EXCEPT !.pc = "tell", !.to = posts[req[p].about].author]
  <2>1. Moves(p, r)
    BY <1>3 DEF ReadAuthor, Moves, TypeOK
  <2>2. /\ r.pc = "tell" /\ r.user = req[p].user /\ r.post = req[p].post
        /\ r.about = req[p].about /\ r.names = req[p].names
    BY <1>2 DEF Request
  <2>3. SeesTo(p, r) BY <2>2 DEF SeesTo, TellsLike, TellsReply, TellsMention
  <2>4. QED BY <1>1, <2>1, <2>3, GoOnTold
<1>4. CASE req[p].about \in Live => posts[req[p].about].author = req[p].user
  <2> DEFINE r == Mentioning(req[p].user, req[p].post, req[p].names)
  <2>1. Moves(p, r)
    BY <1>4 DEF ReadAuthor, ThenMentions, Mentioning, Moves
  <2>2. SUFFICES ASSUME NEW i \in Live
                 PROVE  /\ \A u \in Users : TellsLike(req[p], u, i) => posts[i].author = u
                        /\ TellsReply(req[p], posts[i].author, i, posts[i].parent)
                              /\ posts[i].parent # 0
                           => posts[posts[i].parent].author = posts[i].author
    <3>1. \A u, i, m : TellsMention(req[p], u, i, m) => TellsMention(r, u, i, m)
      BY MentioningTells DEF TellsMention
    <3>2. SeesTo(p, r) BY <2>2, <3>1 DEF SeesTo
    <3>3. QED BY <1>1, <2>1, <3>2, GoOnTold
  <2>3. QED BY <1>4 DEF TellsLike, TellsReply, Parents
<1>5. QED BY <1>3, <1>4

LEMMA TellingTells ==
    ASSUME TypeOK, Parents, Addressed, AllTold, NEW p \in Procs, ~ Fault, TellAuthor(p)
    PROVE  AllTold'
<1> DEFINE kind == IF req[p].post = req[p].about THEN "like" ELSE "reply"
           r == Mentioning(req[p].user, req[p].post, req[p].names)
<1>1. CreateNotification(req[p].to, req[p].user, kind, req[p].post)
  BY DEF TellAuthor
<1>2. likers' = likers /\ Live' = Live /\ \A i \in Live : Keeps(i)
  <2>1. told \subseteq told' BY <1>1 DEF CreateNotification
  <2>2. QED BY <2>1, AllKept DEF TellAuthor
<1>3. Moves(p, r) BY StepsMove
<1>4. req[p].pc = "tell" BY DEF TellAuthor
<1>5. SeesTo(p, r)
  <2> SUFFICES ASSUME NEW i \in Live
      PROVE  /\ \A u \in Users : TellsLike(req[p], u, i) /\ posts[i].author # u
                    => Was(posts[i].author, u, "like", i)'
             /\ /\ TellsReply(req[p], posts[i].author, i, posts[i].parent)
                /\ posts[i].parent # 0 /\ posts[posts[i].parent].author # posts[i].author
                => Was(posts[posts[i].parent].author, posts[i].author, "reply", i)'
    <3>1. \A u, i, m : TellsMention(req[p], u, i, m) => TellsMention(r, u, i, m)
      BY MentioningTells DEF TellsMention
    <3>2. posts' = posts BY DEF TellAuthor
    <3>3. QED BY <3>1, <3>2 DEF SeesTo, Was
  <2>0. posts' = posts BY DEF TellAuthor
  <2>1. ASSUME NEW u \in Users, TellsLike(req[p], u, i), posts[i].author # u
        PROVE  Was(posts[i].author, u, "like", i)'
    <3>1. req[p].post = i /\ req[p].about = i /\ req[p].user = u BY <2>1 DEF TellsLike
    <3>2. req[p].to = posts[i].author BY <1>4, <3>1 DEF Addressed
    <3>3. QED BY <1>1, <2>0, <2>1, <3>1, <3>2 DEF CreateNotification, Was
  <2>2. ASSUME TellsReply(req[p], posts[i].author, i, posts[i].parent),
               posts[i].parent # 0, posts[posts[i].parent].author # posts[i].author
        PROVE  Was(posts[posts[i].parent].author, posts[i].author, "reply", i)'
    <3>1. req[p].post = i /\ req[p].about = posts[i].parent /\ req[p].user = posts[i].author
      BY <2>2 DEF TellsReply
    <3>2. posts[i].parent \in Live /\ posts[i].parent # i
      <4>1. i \in Nat BY DEF TypeOK
      <4>2. QED BY <2>2, <4>1 DEF Parents
    <3>3. req[p].to = posts[posts[i].parent].author BY <1>4, <3>1, <3>2 DEF Addressed
    <3>4. QED BY <1>1, <2>0, <2>2, <3>1, <3>2, <3>3 DEF CreateNotification, Was
  <2>3. QED BY <2>1, <2>2
<1>6. QED BY <1>2, <1>3, <1>5, GoOnTold

LEMMA MentionsTell ==
    ASSUME TypeOK, Parents, AllTold, NEW p \in Procs, ~ Fault, TellMentioned(p)
    PROVE  AllTold'
<1>1. PICK n \in req[p].names :
         /\ CreateNotification(n, req[p].user, "mention", req[p].post)
         /\ Moves(p, Mentioning(req[p].user, req[p].post, req[p].names \ {n}))
  BY DEF TellMentioned, ThenMentions, Mentioning, Moves
<1> DEFINE r == Mentioning(req[p].user, req[p].post, req[p].names \ {n})
<1>2. likers' = likers /\ Live' = Live /\ \A i \in Live : Keeps(i)
  <2>1. told \subseteq told' BY <1>1 DEF CreateNotification
  <2>2. QED BY <2>1, AllKept DEF TellMentioned
<1>3. SeesTo(p, r)
  <2> SUFFICES ASSUME NEW i \in Live, NEW m \in posts[i].names,
                      TellsMention(req[p], posts[i].author, i, m), m # posts[i].author
               PROVE  \/ TellsMention(r, posts[i].author, i, m)
                      \/ Was(m, posts[i].author, "mention", i)'
    BY DEF SeesTo, TellsLike, TellsReply, TellMentioned
  <2>1. posts' = posts BY DEF TellMentioned
  <2>2. req[p].user = posts[i].author /\ req[p].post = i /\ m \in req[p].names
    BY DEF TellsMention
  <2>3. CASE m = n
    BY <1>1, <2>1, <2>2, <2>3 DEF CreateNotification, Was
  <2>4. CASE m # n
    BY <2>2, <2>4, MentioningTells
  <2>5. QED BY <2>3, <2>4
<1>4. QED BY <1>1, <1>2, <1>3, GoOnTold

\* The request that inserts a post, or a reply, is the one that tells of it.
LEMMA InsertsTell ==
    ASSUME TypeOK, Parents, Parents', AllTold, NEW p \in Procs, NEW u \in Users,
           NEW names \in Texts, NEW a \in 0 .. MaxPosts,
           \/ a = 0 /\ CreatePost(p, u, names)
           \/ CreateReply(p, u, a, names)
    PROVE  AllTold'
<1>1. InsertPost(u, a, names) /\ likers' = likers /\ told' = told /\ req[p] = Idle
  BY DEF CreatePost, CreateReply, Start
<1>n. PICK new : new = made' OBVIOUS
<1>2. /\ new \notin Live /\ Live' = Live \cup {new}
      /\ \A i \in Live : posts'[i] = posts[i]
      /\ posts'[new] = [author |-> u, parent |-> a, names |-> names,
                          likes |-> 0, replies |-> 0]
  BY <1>1, <1>n, TextsAssumption, Insertion
<1>3. \A i \in Live : Keeps(i) BY <1>1, <1>2 DEF Keeps
<1>4. PICK r : /\ Moves(p, r)
               /\ \/ a = 0 /\ r = Mentioning(u, new, names)
                  \/ r = Local("count", u, new, a, NoUser, names)
  BY <1>n, StepsMove
<1>5. SeesTo(p, r) BY <1>1, IdleSeesTo
<1>6. /\ \A l \in likers : LikeTold(l[1], l[2])'
      /\ \A i \in Live : ReplyTold(i)' /\ \A m \in posts[i].names : MentionTold(i, m)'
  BY <1>3, <1>4, <1>5, OldRowsTold
<1>7. req'[p] = r BY <1>4 DEF Moves, TypeOK
<1>8. ReplyTold(new)'
  <2>1. CASE a = 0 BY <1>2, <2>1 DEF ReplyTold
  <2>2. CASE r = Local("count", u, new, a, NoUser, names)
    <3>1. TellsReply(req'[p], u, new, a) BY <1>7, <2>2 DEF TellsReply, Local
    <3>2. QED BY <1>2, <3>1 DEF ReplyTold
  <2>3. QED BY <1>4, <2>1, <2>2
<1>9. ASSUME NEW m \in names PROVE MentionTold(new, m)'
  <2>1. TellsMention(req'[p], u, new, m)
    BY <1>4, <1>7, MentioningTells DEF TellsMention, Local
  <2>2. QED BY <1>2, <2>1 DEF MentionTold
<1>10. \A i \in Live' : ReplyTold(i)' /\ \A m \in posts'[i].names : MentionTold(i, m)'
  <2> SUFFICES ASSUME NEW i \in Live'
               PROVE  ReplyTold(i)' /\ \A m \in posts'[i].names : MentionTold(i, m)'
    OBVIOUS
  <2>1. CASE i = new BY <1>2, <1>8, <1>9, <2>1
  <2>2. CASE i \in Live BY <1>2, <1>6, <2>2
  <2>3. QED BY <1>2, <2>1, <2>2
<1>11. QED BY <1>1, <1>6, <1>10 DEF AllTold

\* What is deleted takes its notifications with it, and nothing else goes.
LEMMA DeletionTells ==
    ASSUME TypeOK, Parents, AllTold, NEW u \in Users, NEW d \in Ids, DeletePost(u, d)
    PROVE  AllTold'
<1>1. /\ Live' = Live \ Below(d) /\ \A i \in Live' : posts'[i] = posts[i]
      /\ \A i \in Live' : posts[i].parent \notin Below(d)
  BY Deletion
<1>2. /\ req' = req /\ likers' = {l \in likers : l[2] \notin Below(d)}
      /\ told' = {n \in told : n.post \notin Below(d)}
  BY DEF DeletePost
<1>3. ASSUME NEW i \in Live' PROVE Keeps(i)
  <2>1. i \notin Below(d) BY <1>1
  <2>2. \A n \in told : n.post = i => n \in told' BY <1>2, <2>1
  <2>3. QED BY <1>1, <2>2 DEF Keeps
<1>4. ASSUME NEW l \in likers' PROVE LikeTold(l[1], l[2])'
  <2>1. l \in likers /\ l[2] \in Live' BY <1>1, <1>2 DEF TypeOK
  <2>2. LikeTold(l[1], l[2]) /\ Keeps(l[2]) BY <1>3, <2>1 DEF AllTold
  <2>3. QED BY <1>2, <2>2, LikeStaysTold
<1>5. ASSUME NEW i \in Live' PROVE ReplyTold(i)'
  <2>1. ReplyTold(i) /\ Keeps(i) BY <1>1, <1>3 DEF AllTold
  <2>2. posts[i].parent # 0 => posts[i].parent \in Live' BY <1>1 DEF Parents
  <2>3. posts[i].parent # 0 => Keeps(posts[i].parent) BY <1>3, <2>2
  <2>4. QED BY <1>2, <2>1, <2>3, ReplyStaysTold
<1>6. ASSUME NEW i \in Live', NEW m \in posts'[i].names PROVE MentionTold(i, m)'
  <2>1. m \in posts[i].names /\ i \in Live BY <1>1
  <2>2. MentionTold(i, m) /\ Keeps(i) BY <1>3, <2>1 DEF AllTold
  <2>3. QED BY <1>2, <2>2, MentionStaysTold
<1>7. QED BY <1>4, <1>5, <1>6 DEF AllTold

\* A failed statement is never taken back.
LEMMA FaultsStay ==
    ASSUME TypeOK, [Next]_vars, faults' = 0
    PROVE  faults = 0 /\ ~ Fault
<1>1. faults \in Nat BY DEF TypeOK
<1>2. faults' = faults \/ Fault
  BY DEF Next, Continue, GetLikeCount, CountLike, CountReply, UncountLike, ReadAuthor,
         TellAuthor, TellMentioned, Like, Unlike, CreatePost, CreateReply, DeletePost,
         Restart, vars
<1>3. QED BY <1>1, <1>2 DEF Fault

LEMMA ToldStep ==
    ASSUME TypeOK, Parents, Parents', Addressed, EveryoneIsTold, [Next]_vars
    PROVE  EveryoneIsTold'
<1>1. EveryoneIsTold' <=> (faults' = 0 => AllTold')
  BY DEF EveryoneIsTold, AllTold, LikesTold, RepliesTold, MentionsTold, LikeTold, ReplyTold,
         MentionTold, TellsLike, TellsReply, TellsMention, Telling
<1>2. SUFFICES ASSUME faults' = 0 PROVE AllTold'
  BY <1>1
<1>3. faults = 0 /\ ~ Fault BY <1>2, FaultsStay
<1>4. AllTold BY <1>3, AllToldIs
<1>5. CASE UNCHANGED vars
  BY <1>4, <1>5 DEF vars, AllTold, LikeTold, ReplyTold, MentionTold, Was, Live
<1>6. 0 \in 0 .. MaxPosts /\ Ids \subseteq 0 .. MaxPosts
  BY BoundsAssumption DEF Ids
<1>7. ~ Restart BY <1>3 DEF Restart
<1>8. CASE Next
  BY <1>3, <1>4, <1>5, <1>6, <1>7, <1>8, LikesTell, CountsTell, ReadsTell, TellingTells,
     MentionsTell, InsertsTell, DeletionTells
     DEF Next, Continue, GetLikeCount
<1>9. QED BY <1>5, <1>8

\* A post that was inserted before, and is still there, has the author that it had.
LEMMA AuthorsStay ==
    ASSUME TypeOK, [Next]_vars
    PROVE  \A i \in Live' : i \in 0 .. made => i \in Live /\ posts'[i].author = posts[i].author
<1> DEFINE Stay == \A i \in Live' : i \in 0 .. made =>
                       i \in Live /\ posts'[i].author = posts[i].author
<1>1. ASSUME NEW p \in Procs, NEW u \in Users, NEW names \in Texts, NEW a \in 0 .. MaxPosts,
             CreatePost(p, u, names) \/ CreateReply(p, u, a, names)
      PROVE  Stay
  <2>1. PICK b \in 0 .. MaxPosts : InsertPost(u, b, names)
    BY <1>1, BoundsAssumption DEF CreatePost, CreateReply
  <2>2. /\ made' = made + 1 /\ Live' = Live \cup {made'}
        /\ \A i \in Live : posts'[i] = posts[i]
    BY <2>1, TextsAssumption, Insertion
  <2>3. made \in Nat BY DEF TypeOK
  <2>4. QED BY <2>2, <2>3
<1>2. ASSUME NEW p \in Procs, CountLike(p) \/ CountReply(p) \/ UncountLike(p)
      PROVE  Stay
  <2>1. \/ IncLikeCount(req[p].about) \/ DecLikeCount(req[p].about)
        \/ IncrementReplyCount(req[p].about) \/ UNCHANGED posts
    BY <1>2 DEF CountLike, CountReply, UncountLike
  <2>2. QED BY <2>1, CounterUpdates DEF Live
<1>3. ASSUME NEW u \in Users, NEW d \in Ids, DeletePost(u, d)
      PROVE  Stay
  BY <1>3, Deletion
<1>4. CASE UNCHANGED posts
  BY <1>4 DEF Live
<1>5. Ids \subseteq 0 .. MaxPosts /\ 0 \in 0 .. MaxPosts
  BY BoundsAssumption DEF Ids
<1>6. QED
  BY <1>1, <1>2, <1>3, <1>4, <1>5
     DEF Next, Continue, GetLikeCount, Like, Unlike, ReadAuthor, TellAuthor, TellMentioned,
         Restart, vars

\* The step of request p, which becomes r.
LEMMA AddressedMoves ==
    ASSUME TypeOK, Serial, Addressed, [Next]_vars, NEW p \in Procs, NEW r, Moves(p, r),
           r.pc = "tell" => r.about \in 0 .. made
                            /\ (r.about \in Live => r.to = posts[r.about].author),
           r.pc = "dec" => r.names = {}
    PROVE  Addressed'
<1>1. \A q \in Procs : req'[q] = IF q = p THEN r ELSE req[q] BY DEF TypeOK, Moves
<1>2. \A i \in Live' : i \in 0 .. made => i \in Live /\ posts'[i].author = posts[i].author
  BY AuthorsStay
<1>3. \A q \in Procs : req[q].about \in 0 .. made BY DEF Serial
<1>4. QED BY <1>1, <1>2, <1>3 DEF Addressed

LEMMA AddressedStep ==
    ASSUME TypeOK, Serial, Addressed, [Next]_vars
    PROVE  Addressed'
<1>0. \A p \in Procs : req[p] \in Request /\ req[p].about \in 0 .. made
  BY RequestsTyped DEF Serial
<1>1. ASSUME NEW p \in Procs, NEW u \in Users, NEW id \in Ids, Like(p, u, id) \/ Unlike(p, u, id)
      PROVE  Addressed'
  <2>1. PICK pc \in {"inc", "dec"} : Moves(p, Local(pc, u, id, id, NoUser, {}))
    BY <1>1, StepsMove
  <2>2. PICK r : Moves(p, r) /\ r.pc # "tell" /\ r.names = {} BY <2>1 DEF Local
  <2>3. QED BY <2>2, AddressedMoves
<1>2. ASSUME NEW p \in Procs, CountLike(p) \/ CountReply(p)
      PROVE  Addressed'
  <2>1. Moves(p, [req[p] EXCEPT !.pc = "ask"]) BY <1>2, StepsMove
  <2>2. [req[p] EXCEPT !.pc = "ask"].pc = "ask" BY <1>0 DEF Request
  <2>3. PICK r : Moves(p, r) /\ r.pc = "ask" BY <2>1, <2>2
  <2>4. QED BY <2>3, AddressedMoves
<1>3. ASSUME NEW p \in Procs, NEW u, NEW id, NEW names, Moves(p, Mentioning(u, id, names))
      PROVE  Addressed'
  <2>1. PICK r : Moves(p, r) /\ r.pc \in {"idle", "mention"} BY <1>3, MentioningIs
  <2>2. QED BY <2>1, AddressedMoves
<1>4. ASSUME NEW p \in Procs, UncountLike(p) PROVE Addressed'
  <2>1. Mentioning(NoUser, 0, {}) = Idle BY DEF Mentioning
  <2>2. QED BY <1>3, <1>4, <2>1, StepsMove
<1>5. ASSUME NEW p \in Procs, NEW u, NEW a, NEW names, CreateReply(p, u, a, names)
      PROVE  Addressed'
  <2>1. Moves(p, Local("count", u, made', a, NoUser, names)) BY <1>5, StepsMove
  <2>2. Local("count", u, made', a, NoUser, names).pc = "count" BY DEF Local
  <2>3. PICK r : Moves(p, r) /\ r.pc = "count" BY <2>1, <2>2
  <2>4. QED BY <2>3, AddressedMoves
<1>6. ASSUME NEW p \in Procs, req[p].about \in Live,
             Moves(p, [req[p] EXCEPT !.pc = "tell", !.to = posts[req[p].about].author])
      PROVE  Addressed'
  <2>1. PICK r : r = [req[p] EXCEPT !.pc = "tell", !.to = posts[req[p].about].author] OBVIOUS
  <2>2. r.pc = "tell" /\ r.about = req[p].about /\ r.to = posts[req[p].about].author
    BY <1>0, <2>1 DEF Request
  <2>3. Moves(p, r) BY <1>6, <2>1
  <2>4. QED BY <1>0, <2>2, <2>3, AddressedMoves
<1>7. ASSUME NEW p \in Procs, ReadAuthor(p) \/ TellAuthor(p) \/ TellMentioned(p)
      PROVE  Addressed'
  BY <1>3, <1>6, <1>7, StepsMove
<1>8. ASSUME NEW p \in Procs, NEW u, NEW names, CreatePost(p, u, names)
      PROVE  Addressed'
  BY <1>3, <1>8, StepsMove
<1>9. CASE Restart
  BY <1>9 DEF Restart, Addressed, Idle, Local
<1>10. CASE UNCHANGED req
  BY <1>0, <1>10, AuthorsStay DEF Addressed
<1>11. QED
  BY <1>1, <1>2, <1>4, <1>5, <1>7, <1>8, <1>9, <1>10
     DEF Next, Continue, GetLikeCount, DeletePost, vars

\* Whoever is liked, answered or mentioned is told, or about to be, unless a statement
\* failed: whatever is liked, unliked and deleted between the statements of the requests
\* that tell it.
THEOREM EveryoneTold == Spec => []EveryoneIsTold
<1>1. Init => Addressed /\ EveryoneIsTold
  <2> SUFFICES ASSUME Init PROVE Addressed /\ EveryoneIsTold
    OBVIOUS
  <2>1. Live = {} BY DEF Init, Live
  <2>2. Idle.pc = "idle" BY DEF Idle, Local
  <2>3. QED
    BY <2>1, <2>2 DEF Init, Addressed, EveryoneIsTold, LikesTold, RepliesTold, MentionsTold
<1>2. Inv /\ Inv' /\ Addressed /\ EveryoneIsTold /\ [Next]_vars
         => Addressed' /\ EveryoneIsTold'
  BY AddressedStep, ToldStep DEF Inv
<1>3. QED BY <1>1, <1>2, InvHolds, PTL DEF Spec
=============================================================================
