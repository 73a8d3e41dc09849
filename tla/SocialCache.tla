----------------------------- MODULE SocialCache -----------------------------
(***************************************************************************)
(* The cache of pkg/services/social_service.go: which keys its reads fill,  *)
(* which keys a write may change and which it evicts, as an instance of     *)
(* CacheAside.                                                              *)
(*                                                                         *)
(* A cached page is one of the abstract Values.  The limit and offset of a  *)
(* feed are left out: the pattern social:feed:* matches them all.  Whether  *)
(* a post shows in a thread or on a profile depends on who wrote it and     *)
(* what it answers: a write on a post is taken to touch any of them.        *)
(* A repost touches and evicts what a post does.                            *)
(*                                                                         *)
(* A page is made of several SELECTs, and the errors of all but one of them *)
(* are ignored.  The pages join users and social_profiles, and there is one *)
(* writer of those tables besides UpdateProfile: the login with Google.     *)
(***************************************************************************)
EXTENDS FiniteSets

CONSTANTS Users,      \* accounts, whose profiles can be read
          Viewers,    \* the ids that requests come with, lid in the keys
          Posts,      \* the posts that can be read and written to
          Values, Procs, None

VARIABLES db, cache, req

Key(kind, of, lid) == [kind |-> kind, of |-> of, lid |-> lid]

\* The keys that Feed, Thread and Profile build and fill.
FeedKeys == {Key("feed", None, v) : v \in Viewers}
ThreadKeys == {Key("thread", id, v) : id \in Posts, v \in Viewers}
ProfileKeys == {Key("profile", u, v) : u \in Users, v \in Viewers}

Keys == FeedKeys \cup ThreadKeys \cup ProfileKeys

ProfilesOf(u) == {k \in ProfileKeys : k.of = u}

-----------------------------------------------------------------------------
Mutation(op, u, id) == [op |-> op, user |-> u, post |-> id]

Writes == {Mutation(op, u, None) : op \in {"CreatePost", "UpdateProfile"}, u \in Users} \cup
          {Mutation(op, u, id) : op \in {"CreateReply", "toggleLike", "Delete"},
                              u \in Users, id \in Posts}

\* Pages show the name and the avatar of everyone who wrote on them.
MayTouch(w) ==
    CASE w.op = "CreatePost" -> FeedKeys \cup ProfilesOf(w.user)
      [] w.op = "UpdateProfile" -> Keys
      [] OTHER -> Keys

\* GetOrCreateGoogleUser gives an account the name and the avatar of the identity if it
\* has none, or a new username if its own was asked for: whoever wrote on a page.  It
\* evicts none.
TouchedByGoogleLogin == Keys

\* The keys that the handler passes to Del, as it spells them: social:thread:%d and
\* social:profile:%d have no lid.
NamedByDel(w) ==
    CASE w.op = "CreatePost" -> {Key("profile", w.user, None)}
      [] w.op = "CreateReply" -> {Key("thread", w.post, None), Key("profile", w.user, None)}
      [] w.op = "toggleLike" -> {Key("thread", w.post, None)}
      [] w.op = "Delete" -> {Key("thread", w.post, None), Key("profile", w.user, None)}
      [] w.op = "UpdateProfile" -> {}

\* Mutated form: toggleLike evicts the thread of the post and no feed.
MatchedUnlessLike(w) ==
    CASE w.op = "UpdateProfile" -> FeedKeys \cup ThreadKeys \cup ProfilesOf(w.user)
      [] w.op = "toggleLike" -> {}
      [] OTHER -> FeedKeys

\* The keys that match the patterns of the handler.
MatchedByDelPattern(w) ==
    IF w.op = "UpdateProfile" THEN FeedKeys \cup ThreadKeys \cup ProfilesOf(w.user)
    ELSE FeedKeys

Touched == [w \in Writes |-> MayTouch(w)]
Named == [w \in Writes |-> NamedByDel(w) \cap Keys]
Matched == [w \in Writes |-> MatchedByDelPattern(w)]

ASSUME NoneIsNothing == None \notin Keys \cup Values \cup Writes

INSTANCE CacheAside WITH Touches <- Touched, Dels <- Named, Scans <- Matched,
                         Outside <- TouchedByGoogleLogin

-----------------------------------------------------------------------------
(* Properties *)

\* All writes of the social service evict the feeds of all viewers, so a stale feed has
\* one of the causes of CacheAside: an eviction that is on its way or was lost, a read
\* that was overtaken or whose second SELECT failed (Feed, line 62), or a Google login
\* that changed a name or an avatar.
FeedsHaveCause == \A k \in FeedKeys : HasCause(k)

\* "mutações invalidam chaves pontuais e/ou por DelPattern" (README.md:627): so does a
\* stale thread, and a stale profile.
PagesHaveCause == \A k \in ThreadKeys \cup ProfileKeys : HasCause(k)
=============================================================================
