-------------------------- MODULE SocialCacheProofs --------------------------
(***************************************************************************)
(* What the theorem of CacheAside says of the cache of the social service.  *)
(***************************************************************************)
EXTENDS SocialCache, TLAPS

Aside == INSTANCE CacheAsideProofs WITH Touches <- Touched, Dels <- Named, Scans <- Matched,
                                           Outside <- TouchedByGoogleLogin

-----------------------------------------------------------------------------
(* The keys of the social service satisfy the assumptions of CacheAside *)

LEMMA WritesAssumed == Aside!WritesAssumption
<1>1. \A w \in Writes : MayTouch(w) \in SUBSET Keys
    BY DEF MayTouch, Keys, ProfilesOf, Writes, Mutation
<1>2. \A w \in Writes : MatchedByDelPattern(w) \in SUBSET Keys
    BY DEF MatchedByDelPattern, Keys, ProfilesOf
<1>. QED
    BY <1>1, <1>2 DEF Aside!WritesAssumption, Touched, Named, Matched, TouchedByGoogleLogin

LEMMA NoneAssumed == Aside!NoneAssumption
BY NoneIsNothing DEF Aside!NoneAssumption

\* The module that proves the theorem instantiates the same definitions again.
LEMMA SameStep == Next => Aside!Next
<1>1. ASSUME NEW p \in Procs, Read(p) \/ SelectMore(p) \/ ReadPart(p)
      PROVE  Aside!Read(p) \/ Aside!SelectMore(p) \/ Aside!ReadPart(p)
    <2>1. CASE Read(p)
        BY <2>1 DEF Read, Get, Select, Set, GiveUp, Reading, Idle, Become, CauseOf,
                    Aside!Read, Aside!Get, Aside!Select, Aside!Set, Aside!GiveUp,
                    Aside!Reading, Aside!Idle, Aside!Become, Aside!CauseOf
    <2>2. CASE SelectMore(p)
        BY <2>2 DEF SelectMore, Reading, Become,
                    Aside!SelectMore, Aside!Reading, Aside!Become
    <2>3. CASE ReadPart(p)
        BY <2>3 DEF ReadPart, SelectPart, Reading, Become,
                    Aside!ReadPart, Aside!SelectPart, Aside!Reading, Aside!Become
    <2>. QED
        BY <1>1, <2>1, <2>2, <2>3
<1>2. ASSUME NEW p \in Procs, NEW w \in Writes, Write(p, w)
      PROVE  Aside!Write(p, w)
    BY <1>2 DEF Write, OwesEvictions, Change, Idle, Reading, Writing, Become,
                Aside!Write, Aside!OwesEvictions, Aside!Change, Aside!Idle,
                Aside!Reading, Aside!Writing, Aside!Become
<1>3. ASSUME NEW p \in Procs, WriteMore(p)
      PROVE  Aside!WriteMore(p)
    BY <1>3 DEF WriteMore, Change, Aside!WriteMore, Aside!Change
<1>4. ASSUME NEW p \in Procs, Evict(p)
      PROVE  Aside!Evict(p)
    BY <1>4 DEF Evict, Del, Scan, Exec, Miss, Finish, Pending, Writing, Become, Idle,
                Reading, Aside!Evict, Aside!Del, Aside!Scan, Aside!Exec, Aside!Miss,
                Aside!Finish, Aside!Pending, Aside!Writing, Aside!Become, Aside!Idle,
                Aside!Reading
<1>5. ASSUME NEW k \in Keys, Expire(k) PROVE Aside!Expire(k)
    BY <1>5 DEF Expire, Aside!Expire
<1>6. ASSUME WriteElsewhere PROVE Aside!WriteElsewhere
    BY <1>6 DEF WriteElsewhere, Aside!WriteElsewhere
<1>. QED
    BY <1>1, <1>2, <1>3, <1>4, <1>5, <1>6 DEF Next, Aside!Next

LEMMA SameSpec == Spec => Aside!Spec
<1>1. Init => Aside!Init
    BY DEF Init, Aside!Init, Idle, Aside!Idle, Reading, Aside!Reading
<1>2. [Next]_vars => [Aside!Next]_Aside!vars
    BY SameStep DEF vars, Aside!vars
<1>. QED
    BY <1>1, <1>2, PTL DEF Spec, Aside!Spec

-----------------------------------------------------------------------------
\* Every handler that changes what a feed shows evicts the feeds of all viewers.
LEMMA FeedsCovered ==
    ASSUME NEW k \in FeedKeys
    PROVE  Aside!Covered(k)
<1>1. \A w \in Writes : k \in MatchedByDelPattern(w)
    BY DEF MatchedByDelPattern
<1>. QED
    BY <1>1 DEF Aside!Covered, Touched, Named, Matched

\* However many users, posts and requests there are, a stale feed has a cause.
THEOREM FeedStalenessHasCause == Spec => []FeedsHaveCause
<1>1. Aside!Spec => []Aside!StaleHasCause
    BY WritesAssumed, NoneAssumed, Aside!StalenessHasCause
<1>2. Aside!StaleHasCause => FeedsHaveCause
    <2>1. FeedKeys \subseteq Keys
        BY DEF Keys
    <2>2. \A k \in FeedKeys : Aside!HasCause(k) <=> HasCause(k)
        BY DEF HasCause, Stale, Pending, Aside!HasCause, Aside!Stale, Aside!Pending
    <2>. QED
        BY <2>1, <2>2, FeedsCovered DEF FeedsHaveCause, Aside!StaleHasCause
<1>. QED
    BY <1>1, <1>2, SameSpec, PTL
=============================================================================
