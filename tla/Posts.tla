-------------------------------- MODULE Posts --------------------------------
(***************************************************************************)
(* Posts, replies, likes and the notifications they raise:                 *)
(* pkg/services/social_service.go over the statements of                   *)
(* pkg/repository/social_repository.go and notification_repository.go.     *)
(*                                                                         *)
(* A request is a goroutine, and each SQL statement of a handler is one    *)
(* atomic action; other requests run between two of them.  No handler      *)
(* opens a transaction, so likes and reply_count are counters kept beside  *)
(* the rows they count, updated by a later statement.                      *)
(*                                                                         *)
(* Abstractions.  The text of a post is the set of accounts it mentions.   *)
(* Notifications are a set, is_read is left to another module.  A          *)
(* statement may fail (Fault), and a request whose first statement fails   *)
(* changes nothing and has no action.  The schema is not in the            *)
(* repository: the foreign keys its ER diagram draws are taken to hold and *)
(* to cascade; if they restrict instead, DeletePost has fewer steps and    *)
(* none that is not here.  The caches are left out.                        *)
(***************************************************************************)
EXTENDS Naturals, FiniteSets

CONSTANTS Users,      \* accounts
          Procs,      \* request goroutines that may be in flight at once
          NoUser,     \* the user of an idle request
          Texts,      \* the sets of accounts that a text may mention
          MaxPosts,   \* bound on the posts and replies ever inserted
          MaxFaults   \* bound on failed statements and restarts

ASSUME UsersAssumption == IsFiniteSet(Users) /\ NoUser \notin Users
ASSUME TextsAssumption == Texts \subseteq SUBSET Users
ASSUME ProcsAssumption == IsFiniteSet(Procs)
ASSUME BoundsAssumption == MaxPosts \in Nat /\ MaxFaults \in Nat

VARIABLES posts,    \* table posts, by id
          likers,   \* table post_likes
          told,     \* table notifications
          made,     \* posts inserted so far; ids are serial
          req,      \* the requests in flight
          faults,   \* statements that failed and restarts so far
          clamped   \* history: posts whose count GREATEST kept from -1

vars == <<posts, likers, told, made, req, faults, clamped>>

-----------------------------------------------------------------------------
(* Tables and requests *)

Ids == 1 .. MaxPosts

\* parent is 0 where the column is NULL.
Post == [author : Users, parent : 0 .. MaxPosts, names : SUBSET Users,
         likes : Nat, replies : Nat]

Notification == [to : Users, from : Users, kind : {"like", "reply", "mention"}, post : Ids]

Pcs == {"idle", "inc", "dec", "count", "ask", "tell", "mention"}

\* post is the new post, or the one that is liked; about is the parent of a reply,
\* or the post that is liked; to is the author of about, once it was read; names
\* are the accounts still to be told that they are mentioned.
Request == [pc : Pcs, user : Users \cup {NoUser}, post : 0 .. MaxPosts,
            about : 0 .. MaxPosts, to : Users \cup {NoUser}, names : SUBSET Users]

Local(pc, u, post, about, to, names) ==
    [pc |-> pc, user |-> u, post |-> post, about |-> about, to |-> to, names |-> names]

Idle == Local("idle", NoUser, 0, 0, NoUser, {})

Live == DOMAIN posts

LikesOf(id) == {u \in Users : <<u, id>> \in likers}

RepliesTo(id) == {r \in Live : posts[r].parent = id}

\* Requests about to run a statement on post id.
At(pc, id) == {p \in Procs : req[p].pc = pc /\ req[p].about = id}

\* What deleting id deletes: the least set with id and the replies to its members.
Below(id) ==
    {q \in Live : q = id \/ (RepliesTo(id) # {} /\ \A S \in SUBSET Live :
        (id \in S /\ \A r \in Live : posts[r].parent \in S => r \in S) => q \in S)}

-----------------------------------------------------------------------------
(* Steps shared by the handlers *)

Start(p, r) == req[p] = Idle /\ req' = [req EXCEPT ![p] = r]

Return(p) == req' = [req EXCEPT ![p] = Idle]

Fault == faults < MaxFaults /\ faults' = faults + 1

\* processMentions runs next, if the text mentions anyone.
ThenMentions(p, u, id, names) ==
    req' = [req EXCEPT ![p] =
               IF names = {} THEN Idle ELSE Local("mention", u, id, 0, NoUser, names)]

Init == /\ posts = [i \in {} |-> {}]
        /\ likers = {} /\ told = {} /\ made = 0
        /\ req = [p \in Procs |-> Idle]
        /\ faults = 0 /\ clamped = {}

-----------------------------------------------------------------------------
(* The statements of social_repository.go and notification_repository.go *)

InsertPost(u, parent, names) ==
    /\ made < MaxPosts /\ made' = made + 1
    /\ posts' = [i \in Live \cup {made'} |->
                    IF i = made'
                      THEN [author |-> u, parent |-> parent, names |-> names,
                            likes |-> 0, replies |-> 0]
                      ELSE posts[i]]

\* UPDATE ... WHERE id = $1 of a post that is gone changes no row.
SetLikes(id, n) ==
    posts' = [i \in Live |-> IF i = id THEN [posts[i] EXCEPT !.likes = n] ELSE posts[i]]

IncLikeCount(id) ==
    IF id \in Live THEN SetLikes(id, posts[id].likes + 1) ELSE UNCHANGED posts

\* Mutated form: the count is not floored, as GREATEST does.
DecLikeCountUnfloored(id) ==
    IF id \in Live THEN SetLikes(id, posts[id].likes - 1) /\ UNCHANGED clamped
    ELSE UNCHANGED <<posts, clamped>>

\* GREATEST(likes - 1, 0)
DecLikeCount(id) ==
    IF id \notin Live THEN UNCHANGED <<posts, clamped>>
    ELSE IF posts[id].likes = 0
      THEN clamped' = clamped \cup {id} /\ UNCHANGED posts
      ELSE SetLikes(id, posts[id].likes - 1) /\ UNCHANGED clamped

IncrementReplyCount(id) ==
    posts' = [i \in Live |->
                 IF i = id THEN [posts[i] EXCEPT !.replies = @ + 1] ELSE posts[i]]

\* Nobody is told of what they did themselves, and a notification of a post that is
\* gone violates its foreign key.
CreateNotification(to, from, kind, id) ==
    told' = IF to = from \/ id \notin Live THEN told
            ELSE told \cup {[to |-> to, from |-> from, kind |-> kind, post |-> id]}

-----------------------------------------------------------------------------
(* Likes *)

\* A like that is there already, or an unlike of none, only reads the count.
GetLikeCount(p) == req[p] = Idle /\ UNCHANGED vars

\* The row is inserted, ON CONFLICT DO NOTHING.
Like(p, u, id) ==
    /\ id \in Live /\ <<u, id>> \notin likers
    /\ likers' = likers \cup {<<u, id>>}
    /\ Start(p, Local("inc", u, id, id, NoUser, {}))
    /\ UNCHANGED <<posts, told, made, faults, clamped>>

\* Mutated form: the count is taken down although no row was deleted.
UnlikeAlways(p, u, id) ==
    /\ id \in Live
    /\ likers' = likers \ {<<u, id>>}
    /\ Start(p, Local("dec", u, id, id, NoUser, {}))
    /\ UNCHANGED <<posts, told, made, faults, clamped>>

\* The row is deleted.
Unlike(p, u, id) ==
    /\ <<u, id>> \in likers
    /\ likers' = likers \ {<<u, id>>}
    /\ Start(p, Local("dec", u, id, id, NoUser, {}))
    /\ UNCHANGED <<posts, told, made, faults, clamped>>

\* The error of IncLikeCount is ignored.
CountLike(p) ==
    /\ req[p].pc = "inc"
    /\ \/ IncLikeCount(req[p].about) /\ UNCHANGED faults
       \/ Fault /\ UNCHANGED posts
    /\ req' = [req EXCEPT ![p].pc = "ask"]
    /\ UNCHANGED <<likers, told, made, clamped>>

UncountLike(p) ==
    /\ req[p].pc = "dec"
    /\ \/ DecLikeCount(req[p].about) /\ UNCHANGED faults
       \/ Fault /\ UNCHANGED <<posts, clamped>>
    /\ Return(p)
    /\ UNCHANGED <<likers, told, made>>

-----------------------------------------------------------------------------
(* Posts and replies *)

CreatePost(p, u, names) ==
    /\ InsertPost(u, 0, names)
    /\ req[p] = Idle /\ ThenMentions(p, u, made', names)
    /\ UNCHANGED <<likers, told, faults, clamped>>

CreateReply(p, u, parent, names) ==
    /\ parent \in Live
    /\ InsertPost(u, parent, names)
    /\ Start(p, Local("count", u, made', parent, NoUser, names))
    /\ UNCHANGED <<likers, told, faults, clamped>>

\* Mutated form: the reply counts itself.
CountReplyOfReply(p) ==
    /\ req[p].pc = "count"
    /\ IncrementReplyCount(req[p].post)
    /\ req' = [req EXCEPT ![p].pc = "ask"]
    /\ UNCHANGED <<likers, told, made, clamped, faults>>

\* The error of IncrementReplyCount is ignored.
CountReply(p) ==
    /\ req[p].pc = "count"
    /\ \/ IncrementReplyCount(req[p].about) /\ UNCHANGED faults
       \/ Fault /\ UNCHANGED posts
    /\ req' = [req EXCEPT ![p].pc = "ask"]
    /\ UNCHANGED <<likers, told, made, clamped>>

\* DELETE FROM posts WHERE id = $1 AND user_id = $2, one statement.  Nothing takes
\* the reply_count of the parent down.
DeletePost(u, id) ==
    /\ id \in Live /\ posts[id].author = u
    /\ LET gone == Below(id) IN
          /\ posts' = [i \in Live \ gone |-> posts[i]]
          /\ likers' = {l \in likers : l[2] \notin gone}
          /\ told' = {n \in told : n.post \notin gone}
    /\ UNCHANGED <<made, req, faults, clamped>>

-----------------------------------------------------------------------------
(* Notifications of a like, of a reply and of mentions *)

\* Mutated form: the author is looked up on the new reply instead of its parent.
ReadAuthorOfPost(p) ==
    /\ req[p].pc = "ask"
    /\ IF req[p].post \in Live /\ posts[req[p].post].author # req[p].user
         THEN req' = [req EXCEPT ![p].pc = "tell", ![p].to = posts[req[p].post].author]
         ELSE ThenMentions(p, req[p].user, req[p].post, req[p].names)
    /\ UNCHANGED <<posts, likers, told, made, clamped, faults>>

\* Thread(about) finds whom to tell: the author, unless that is the one who acts.
ReadAuthor(p) ==
    /\ req[p].pc = "ask"
    /\ \/ /\ req[p].about \in Live /\ posts[req[p].about].author # req[p].user
          /\ req' = [req EXCEPT ![p].pc = "tell", ![p].to = posts[req[p].about].author]
          /\ UNCHANGED faults
       \/ /\ \/ /\ req[p].about \in Live => posts[req[p].about].author = req[p].user
                /\ UNCHANGED faults
             \/ Fault
          /\ ThenMentions(p, req[p].user, req[p].post, req[p].names)
    /\ UNCHANGED <<posts, likers, told, made, clamped>>

\* The post of a like is the one it is about; that of a reply is the reply.
TellAuthor(p) ==
    /\ req[p].pc = "tell"
    /\ LET kind == IF req[p].post = req[p].about THEN "like" ELSE "reply" IN
       \/ CreateNotification(req[p].to, req[p].user, kind, req[p].post) /\ UNCHANGED faults
       \/ Fault /\ UNCHANGED told
    /\ ThenMentions(p, req[p].user, req[p].post, req[p].names)
    /\ UNCHANGED <<posts, likers, made, clamped>>

\* One word of the text that names an account; a failed lookup or insert skips it.
TellMentioned(p) ==
    /\ req[p].pc = "mention"
    /\ \E m \in req[p].names :
          /\ \/ CreateNotification(m, req[p].user, "mention", req[p].post) /\ UNCHANGED faults
             \/ Fault /\ UNCHANGED told
          /\ ThenMentions(p, req[p].user, req[p].post, req[p].names \ {m})
    /\ UNCHANGED <<posts, likers, made, clamped>>

-----------------------------------------------------------------------------
\* The server stops and starts again: the requests in flight are lost.
Restart ==
    /\ Fault
    /\ req' = [p \in Procs |-> Idle]
    /\ UNCHANGED <<posts, likers, told, made, clamped>>

\* The statements of a request that has started.
Continue(p) == \/ CountLike(p) \/ UncountLike(p) \/ CountReply(p)
               \/ ReadAuthor(p) \/ TellAuthor(p) \/ TellMentioned(p)

Next ==
    \/ \E p \in Procs :
          \/ Continue(p) \/ GetLikeCount(p)
          \/ \E u \in Users, id \in Ids : Like(p, u, id) \/ Unlike(p, u, id)
          \/ \E u \in Users, names \in Texts :
                \/ CreatePost(p, u, names)
                \/ \E parent \in Ids : CreateReply(p, u, parent, names)
    \/ \E u \in Users, id \in Ids : DeletePost(u, id)
    \/ Restart

Spec == Init /\ [][Next]_vars

-----------------------------------------------------------------------------
(* Properties *)

\* Every variable holds what its table can hold, and a count is never negative.
TypeOK ==
    /\ Live \subseteq 1 .. made
    /\ posts \in [Live -> Post]
    /\ likers \subseteq Users \X Live
    /\ told \subseteq Notification
    /\ made \in 0 .. MaxPosts
    /\ req \in [Procs -> Request]
    /\ \A p \in Procs : /\ req[p].pc # "idle" => req[p].user \in Users /\ req[p].post \in Ids
                        /\ req[p].pc = "tell" => req[p].to \in Users
    /\ faults \in 0 .. MaxFaults
    /\ clamped \subseteq Ids

\* What a failed statement, or a restart that loses every request, may leave uncounted.
Lost == faults * Cardinality(Procs)

\* The column likes never falls behind the rows of post_likes, counting the
\* increments that requests still have ahead of them, by more than failures explain;
\* and it runs ahead of them only for a post whose count was once floored at zero
\* (toggleLike: the row, then IncLikeCount or DecLikeCount with GREATEST).
LikesAccounted ==
    \A id \in Live :
        LET counted == posts[id].likes + Cardinality(At("inc", id))
            rows    == Cardinality(LikesOf(id)) + Cardinality(At("dec", id))
        IN /\ rows <= counted + Lost
           /\ id \notin clamped => counted <= rows + Lost

\* GREATEST hides a decrement only while an increment of the same post is on its way
\* in another request, or after a failure: never for requests that run one by one.
ClampOnlyInARace ==
    [][\A id \in clamped' \ clamped : faults > 0 \/ At("inc", id) # {}]_vars

\* loadRepliesRecursive does not look for the replies of a post whose reply_count is
\* 0: every reply that is stored is counted, or will be, or a failure hid it.
RepliesCounted ==
    \A id \in Live :
        Cardinality(RepliesTo(id))
            <= posts[id].replies + Cardinality(At("count", id)) + Lost

Was(to, from, kind, id) == [to |-> to, from |-> from, kind |-> kind, post |-> id] \in told

\* Request p is the one that u sent to like, write or answer: post id, about another.
Telling(p, u, id, about) ==
    req[p].user = u /\ req[p].post = id /\ req[p].about = about

LikesTold ==
    \A l \in likers :
        \/ posts[l[2]].author = l[1]
        \/ Was(posts[l[2]].author, l[1], "like", l[2])
        \/ \E p \in Procs : /\ Telling(p, l[1], l[2], l[2])
                            /\ req[p].pc \in {"inc", "ask", "tell"}

RepliesTold ==
    \A r \in Live : LET parent == posts[r].parent IN
        \/ parent = 0
        \/ posts[parent].author = posts[r].author
        \/ Was(posts[parent].author, posts[r].author, "reply", r)
        \/ \E p \in Procs : /\ Telling(p, posts[r].author, r, parent)
                            /\ req[p].pc \in {"count", "ask", "tell"}

MentionsTold ==
    \A r \in Live : \A m \in posts[r].names \ {posts[r].author} :
        \/ Was(m, posts[r].author, "mention", r)
        \/ \E p \in Procs : /\ req[p].user = posts[r].author /\ req[p].post = r
                            /\ m \in req[p].names

\* Whoever is liked, answered or mentioned is told, or is about to be, if no statement
\* fails: deleting, unliking and liking again in between lose no notification of a post
\* that is still there (toggleLike, CreateReply, processMentions).
EveryoneIsTold == faults = 0 => LikesTold /\ RepliesTold /\ MentionsTold
=============================================================================
