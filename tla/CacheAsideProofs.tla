--------------------------- MODULE CacheAsideProofs ---------------------------
(***************************************************************************)
(* Proofs about CacheAside, for any keys, values, writes and number of      *)
(* requests in flight.                                                      *)
(***************************************************************************)
EXTENDS CacheAside, TLAPS

Cache == [Keys -> Entry \cup {None}]

\* What TypeOK asks of a request.
IsRequest(r) == /\ r \in Request
                /\ r.pc \in {"select", "set", "part"} => r.key \in Keys
                /\ r.pc \in {"set", "part"} => r.value \in Values
                /\ r.pc = "write" => r.op \in Writes

-----------------------------------------------------------------------------
(* Requests *)

LEMMA ReadingIsRequest ==
    ASSUME NEW pc \in {"select", "set", "part"}, NEW k \in Keys, NEW v \in Values \cup {None},
           pc \in {"set", "part"} => v \in Values
    PROVE  IsRequest(Reading(pc, k, v))
BY DEF IsRequest, Request, Reading

LEMMA IdleIsRequest == IsRequest(Idle)
BY DEF IsRequest, Request, Reading, Idle

LEMMA WritingIsRequest ==
    ASSUME NEW pc \in {"write", "evict"}, NEW w \in Writes \cup {None},
           NEW del \in SUBSET Keys, NEW scan \in SUBSET Keys, NEW batch \in SUBSET Keys,
           pc = "write" => w \in Writes
    PROVE  IsRequest(Writing(pc, w, del, scan, batch))
BY DEF IsRequest, Request, Writing

\* A request that goes on leaves the others as they are.
LEMMA BecomeIsTyped ==
    ASSUME TypeOK, NEW p \in Procs, NEW r, IsRequest(r), Become(p, r)
    PROVE  /\ req' \in [Procs -> Request]
           /\ \A q \in Procs : IsRequest(req'[q])
           /\ req'[p] = r
           /\ \A q \in Procs \ {p} : req'[q] = req[q]
<1>1. req \in [Procs -> Request] /\ \A q \in Procs : IsRequest(req[q])
    BY DEF TypeOK, IsRequest
<1>2. req' = [req EXCEPT ![p] = r] /\ r \in Request
    BY DEF Become, IsRequest
<1>. QED
    BY <1>1, <1>2

\* The two halves of TypeOK, put together again.
LEMMA Typed ==
    ASSUME db' \in [Keys -> Values], cache' \in Cache,
           req' \in [Procs -> Request], \A q \in Procs : IsRequest(req'[q])
    PROVE  TypeOK'
BY DEF TypeOK, Cache, IsRequest

LEMMA RequestTyped ==
    ASSUME TypeOK, NEW p \in Procs
    PROVE  /\ req[p] \in Request
           /\ req[p].key \in Keys \cup {None}
           /\ req[p].op \in Writes \cup {None}
           /\ req[p].del \subseteq Keys /\ req[p].scan \subseteq Keys
           /\ req[p].batch \subseteq Keys
BY DEF TypeOK, Request

-----------------------------------------------------------------------------
(* Type correctness *)

LEMMA InitTyped == Init => TypeOK
<1> SUFFICES ASSUME Init PROVE TypeOK
    OBVIOUS
<1>1. db \in [Keys -> Values] /\ cache \in [Keys -> Entry \cup {None}]
    BY DEF Init
<1>2. Idle \in Request /\ Idle.pc = "idle"
    BY IdleIsRequest DEF IsRequest, Idle, Reading
<1>3. req = [p \in Procs |-> Idle]
    BY DEF Init
<1>. QED
    BY <1>1, <1>2, <1>3 DEF TypeOK

LEMMA ReadTyped ==
    ASSUME TypeOK, NEW p \in Procs, Read(p) \/ SelectMore(p) \/ ReadPart(p)
    PROVE  TypeOK'
<1>0. db \in [Keys -> Values] /\ cache \in Cache
    BY DEF TypeOK, Cache
<1>1. ASSUME NEW k \in Keys, Get(p, k) PROVE TypeOK'
    <2>1. IsRequest(Reading("select", k, None))
        BY ReadingIsRequest
    <2>. QED
        BY <1>0, <1>1, <2>1, BecomeIsTyped, Typed DEF Get
<1>2. CASE Select(p)
    <2>1. req[p].key \in Keys
        BY <1>2 DEF TypeOK, Select
    <2>2. IsRequest(Reading("set", req[p].key, db[req[p].key]))
        BY <1>0, <2>1, ReadingIsRequest
    <2>. QED
        BY <1>0, <1>2, <2>2, BecomeIsTyped, Typed DEF Select
<1>3. CASE SelectMore(p)
    <2>1. req[p].key \in Keys
        BY <1>3 DEF TypeOK, SelectMore
    <2>2. PICK v \in Values : Become(p, Reading("set", req[p].key, v))
        BY <1>3 DEF SelectMore
    <2>3. IsRequest(Reading("set", req[p].key, v))
        BY <2>1, ReadingIsRequest
    <2>. QED
        BY <1>0, <1>3, <2>2, <2>3, BecomeIsTyped, Typed DEF SelectMore
<1>4. CASE Set(p)
    <2>1. req[p].key \in Keys /\ req[p].value \in Values
        BY <1>4 DEF TypeOK, Set
    <2>2. PICK c \in {"none", "named"} :
             cache' = [cache EXCEPT ![req[p].key] = [value |-> req[p].value, cause |-> c]]
        BY <1>4 DEF Set, CauseOf
    <2>3. [value |-> req[p].value, cause |-> c] \in Entry
        BY <2>1 DEF Entry
    <2>4. cache' \in Cache
        BY <1>0, <2>2, <2>3 DEF Cache
    <2>5. db' = db /\ Become(p, Idle)
        BY <1>4 DEF Set
    <2>. QED
        BY <1>0, <2>4, <2>5, IdleIsRequest, BecomeIsTyped, Typed
<1>5. CASE GiveUp(p)
    BY <1>0, <1>5, IdleIsRequest, BecomeIsTyped, Typed DEF GiveUp
<1>6. CASE ReadPart(p)
    <2>1. PICK v \in Values : SelectPart(p, v)
        BY <1>6 DEF ReadPart
    <2>2. IsRequest(Reading("part", req[p].key, v))
        BY <2>1, ReadingIsRequest DEF TypeOK, SelectPart
    <2>. QED
        BY <1>0, <2>1, <2>2, BecomeIsTyped, Typed DEF SelectPart
<1>. QED
    BY <1>1, <1>2, <1>3, <1>4, <1>5, <1>6 DEF Read

LEMMA WriteTyped ==
    ASSUME TypeOK, NEW p \in Procs, (\E w \in Writes : Write(p, w)) \/ WriteMore(p)
    PROVE  TypeOK'
<1>0. cache \in Cache
    BY DEF TypeOK, Cache
<1>1. ASSUME NEW w \in Writes, Write(p, w) PROVE TypeOK'
    <2>1. Dels[w] \in SUBSET Keys /\ Scans[w] \in SUBSET Keys
        BY WritesAssumption
    <2>2. IsRequest(Writing("write", w, Dels[w], Scans[w], {}))
        BY <2>1, WritingIsRequest
    <2>3. db' \in [Keys -> Values]
        BY <1>1 DEF Write, Change
    <2>. QED
        BY <1>0, <1>1, <2>2, <2>3, BecomeIsTyped, Typed DEF Write, OwesEvictions
<1>2. CASE WriteMore(p)
    <2>1. db' \in [Keys -> Values] /\ UNCHANGED <<cache, req>>
        BY <1>2 DEF WriteMore, Change
    <2>. QED
        BY <2>1 DEF TypeOK
<1>. QED
    BY <1>1, <1>2

LEMMA EvictTyped ==
    ASSUME TypeOK, NEW p \in Procs, Evict(p)
    PROVE  TypeOK'
<1>0. db \in [Keys -> Values] /\ cache \in Cache
    BY DEF TypeOK, Cache
<1>t. /\ req[p].op \in Writes \cup {None}
      /\ req[p].del \subseteq Keys /\ req[p].scan \subseteq Keys /\ req[p].batch \subseteq Keys
    BY RequestTyped
<1>1. CASE Del(p)
    <2>1. PICK k \in req[p].del :
             /\ cache' = [cache EXCEPT ![k] = None]
             /\ Become(p, Writing("evict", req[p].op, req[p].del \ {k}, req[p].scan, req[p].batch))
        BY <1>1 DEF Del
    <2>2. IsRequest(Writing("evict", req[p].op, req[p].del \ {k}, req[p].scan, req[p].batch))
        BY <1>t, WritingIsRequest
    <2>3. cache' \in Cache /\ db' = db
        BY <1>0, <1>1, <2>1 DEF Cache, Del
    <2>. QED
        BY <1>0, <2>1, <2>2, <2>3, BecomeIsTyped, Typed
<1>2. CASE Scan(p)
    <2>1. PICK k \in req[p].scan :
             Become(p, Writing("evict", req[p].op, req[p].del, req[p].scan \ {k},
                               req[p].batch \cup {i \in {k} : cache[i] # None}))
        BY <1>2 DEF Scan
    <2>2. req[p].batch \cup {i \in {k} : cache[i] # None} \in SUBSET Keys
        BY <1>t
    <2>3. IsRequest(Writing("evict", req[p].op, req[p].del, req[p].scan \ {k},
                            req[p].batch \cup {i \in {k} : cache[i] # None}))
        BY <1>t, <2>2, WritingIsRequest
    <2>. QED
        BY <1>0, <1>2, <2>1, <2>3, BecomeIsTyped, Typed DEF Scan
<1>3. CASE Exec(p)
    <2>1. IsRequest(Writing("evict", req[p].op, req[p].del, req[p].scan, {}))
        BY <1>t, WritingIsRequest
    <2>2. cache' \in Cache
        BY <1>0, <1>3 DEF Cache, Exec
    <2>. QED
        BY <1>0, <1>3, <2>1, <2>2, BecomeIsTyped, Typed DEF Exec
<1>4. CASE Miss(p)
    <2>1. PICK k \in Pending(p) :
             /\ cache' = [cache EXCEPT ![k] =
                             IF @ = None THEN None ELSE [value |-> @.value, cause |-> "named"]]
             /\ Become(p, Writing("evict", req[p].op, req[p].del \ {k},
                                  req[p].scan \ {k}, req[p].batch \ {k}))
        BY <1>4 DEF Miss
    <2>2. IsRequest(Writing("evict", req[p].op, req[p].del \ {k},
                            req[p].scan \ {k}, req[p].batch \ {k}))
        BY <1>t, WritingIsRequest
    <2>3. k \in Keys
        BY <1>t DEF Pending
    <2>4. cache[k] # None => [value |-> cache[k].value, cause |-> "named"] \in Entry
        BY <1>0, <2>3 DEF Cache, Entry
    <2>5. cache' \in Cache /\ db' = db
        BY <1>0, <1>4, <2>1, <2>3, <2>4 DEF Cache, Miss
    <2>. QED
        BY <1>0, <2>1, <2>2, <2>5, BecomeIsTyped, Typed
<1>5. CASE Finish(p)
    BY <1>0, <1>5, IdleIsRequest, BecomeIsTyped, Typed DEF Finish
<1>. QED
    BY <1>1, <1>2, <1>3, <1>4, <1>5 DEF Evict

\* A write of another service marks the entries of the keys it changes.
LEMMA ElsewhereMarks ==
    ASSUME TypeOK, WriteElsewhere, NEW k \in Keys
    PROVE  /\ cache'[k] \in Entry \cup {None}
           /\ \/ cache'[k] = cache[k] /\ db'[k] = db[k]
              \/ cache'[k] = None
              \/ cache'[k].cause = "named"
<1>1. cache'[k] = IF cache[k] = None \/ db'[k] = db[k] THEN cache[k]
                  ELSE [value |-> cache[k].value, cause |-> "named"]
    BY DEF WriteElsewhere
<1>2. cache[k] \in Entry \cup {None}
    BY DEF TypeOK
<1>. QED
    BY <1>1, <1>2 DEF Entry

LEMMA ElsewhereTyped ==
    ASSUME TypeOK, WriteElsewhere
    PROVE  TypeOK'
<1>1. db' \in [Keys -> Values] /\ req' = req
    BY DEF WriteElsewhere
<1>2. cache' \in [Keys -> Entry \cup {None}]
    BY ElsewhereMarks DEF WriteElsewhere
<1>. QED
    BY <1>1, <1>2 DEF TypeOK

LEMMA NextTyped == TypeOK /\ [Next]_vars => TypeOK'
<1> SUFFICES ASSUME TypeOK, [Next]_vars PROVE TypeOK'
    OBVIOUS
<1>1. ASSUME NEW k \in Keys, Expire(k) PROVE TypeOK'
    <2>1. cache' \in [Keys -> Entry \cup {None}] /\ UNCHANGED <<db, req>>
        BY <1>1 DEF TypeOK, Expire
    <2>. QED
        BY <2>1 DEF TypeOK
<1>2. CASE UNCHANGED vars
    BY <1>2 DEF TypeOK, vars
<1>. QED
    BY <1>1, <1>2, ReadTyped, WriteTyped, EvictTyped, ElsewhereTyped DEF Next

\* Whatever is read, written, evicted and lost, the stores hold what they can hold.
THEOREM TypeCorrect == Spec => []TypeOK
BY InitTyped, NextTyped, PTL DEF Spec

-----------------------------------------------------------------------------
(* The causes of staleness *)

\* StaleHasCause is not inductive: that a reader owes no eviction, and that a writer
\* between two statements still owes all of its own, has to go with it.
Owing == \A p \in Procs :
            /\ req[p].pc \in {"select", "set", "part"} => Pending(p) = {}
            /\ req[p].pc = "write" => /\ req[p].del = Dels[req[p].op]
                                      /\ req[p].scan = Scans[req[p].op]

IInv == TypeOK /\ Owing /\ StaleHasCause

LEMMA PendingAfter ==
    ASSUME TypeOK, NEW p \in Procs, NEW r, IsRequest(r), Become(p, r)
    PROVE  /\ Pending(p)' = r.del \cup r.scan \cup r.batch
           /\ \A q \in Procs \ {p} : Pending(q)' = Pending(q)
BY BecomeIsTyped DEF Pending

\* A new request of p keeps Owing if it satisfies it.
LEMMA OwingKept ==
    ASSUME TypeOK, Owing, NEW p \in Procs, NEW r, IsRequest(r), Become(p, r),
           r.pc \in {"select", "set", "part"} => r.del \cup r.scan \cup r.batch = {},
           r.pc = "write" => r.del = Dels[r.op] /\ r.scan = Scans[r.op]
    PROVE  Owing'
<1> SUFFICES ASSUME NEW q \in Procs
             PROVE  /\ req'[q].pc \in {"select", "set", "part"} => Pending(q)' = {}
                    /\ req'[q].pc = "write" => /\ req'[q].del = Dels[req'[q].op]
                                               /\ req'[q].scan = Scans[req'[q].op]
    BY DEF Owing
<1>1. CASE q = p
    <2>1. req'[q] = r /\ Pending(q)' = r.del \cup r.scan \cup r.batch
        BY <1>1, BecomeIsTyped, PendingAfter
    <2>. QED
        BY <2>1
<1>2. CASE q # p
    <2>1. req'[q] = req[q] /\ Pending(q)' = Pending(q)
        BY <1>2, BecomeIsTyped, PendingAfter
    <2>. QED
        BY <2>1 DEF Owing
<1>. QED
    BY <1>1, <1>2

LEMMA NoEntryNoCause ==
    ASSUME NEW k \in Keys, cache'[k] = None
    PROVE  HasCause(k)'
BY DEF HasCause, Stale

LEMMA CauseKept ==
    ASSUME NEW k \in Keys, HasCause(k), db'[k] = db[k], cache'[k] = cache[k],
           \A q \in Procs : k \in Pending(q) => k \in Pending(q)'
    PROVE  HasCause(k)'
BY DEF HasCause, Stale

\* A request that goes on and keeps k pending, if it had it, keeps the cause of k.
LEMMA CauseKeptBy ==
    ASSUME TypeOK, NEW k \in Keys, HasCause(k), db'[k] = db[k], cache'[k] = cache[k],
           NEW p \in Procs, NEW r, IsRequest(r), Become(p, r),
           k \in Pending(p) => k \in r.del \cup r.scan \cup r.batch
    PROVE  HasCause(k)'
<1>1. \A q \in Procs : k \in Pending(q) => k \in Pending(q)'
    BY PendingAfter
<1>. QED
    BY <1>1, CauseKept

LEMMA ReadingOwesNothing ==
    ASSUME NEW pc, NEW k, NEW v
    PROVE  LET r == Reading(pc, k, v)
           IN r.del \cup r.scan \cup r.batch = {} /\ r.pc = pc
BY DEF Reading

LEMMA WritingOwes ==
    ASSUME NEW pc, NEW w, NEW del, NEW scan, NEW batch
    PROVE  LET r == Writing(pc, w, del, scan, batch)
           IN /\ r.del = del /\ r.scan = scan /\ r.batch = batch
              /\ r.pc = pc /\ r.op = w
BY DEF Writing

LEMMA ReadCause ==
    ASSUME IInv, NEW p \in Procs, Read(p) \/ SelectMore(p) \/ ReadPart(p)
    PROVE  Owing' /\ StaleHasCause'
<1>0. TypeOK /\ Owing /\ db \in [Keys -> Values] /\ cache \in Cache
    BY DEF IInv, TypeOK, Cache
<1>i. IsRequest(Idle) /\ Idle.del \cup Idle.scan \cup Idle.batch = {} /\ Idle.pc = "idle"
    BY IdleIsRequest DEF Idle, Reading
<1>n. Pending(p) = {}
    <2>1. req[p] = Idle \/ req[p].pc \in {"select", "set", "part"}
        BY DEF Read, Get, Select, Set, GiveUp, SelectMore, ReadPart
    <2>2. req[p] = Idle => Pending(p) = {}
        BY <1>i DEF Pending
    <2>. QED
        BY <1>0, <2>1, <2>2 DEF Owing
\* Every one of these steps makes p a reader, or idle.
<1>r. PICK r : IsRequest(r) /\ Become(p, r) /\ r.del \cup r.scan \cup r.batch = {}
                            /\ r.pc \in {"idle", "select", "set", "part"}
    <2>1. ASSUME NEW k \in Keys, Get(p, k)
          PROVE  IsRequest(Reading("select", k, None)) /\ Become(p, Reading("select", k, None))
        BY <2>1, ReadingIsRequest DEF Get
    <2>2. ASSUME Select(p)
          PROVE  \E v \in Values : /\ IsRequest(Reading("set", req[p].key, v))
                                   /\ Become(p, Reading("set", req[p].key, v))
        <3>1. req[p].key \in Keys
            BY <1>0, <2>2 DEF TypeOK, Select
        <3>. QED
            BY <1>0, <2>2, <3>1, ReadingIsRequest DEF Select
    <2>3. ASSUME SelectMore(p)
          PROVE  \E v \in Values : /\ IsRequest(Reading("set", req[p].key, v))
                                   /\ Become(p, Reading("set", req[p].key, v))
        <3>1. req[p].key \in Keys
            BY <1>0, <2>3 DEF TypeOK, SelectMore
        <3>. QED
            BY <2>3, <3>1, ReadingIsRequest DEF SelectMore
    <2>4. ASSUME Set(p) \/ GiveUp(p) PROVE Become(p, Idle)
        BY <2>4 DEF Set, GiveUp
    <2>5. ASSUME ReadPart(p)
          PROVE  \E v \in Values : /\ IsRequest(Reading("part", req[p].key, v))
                                   /\ Become(p, Reading("part", req[p].key, v))
        <3>1. req[p].key \in Keys
            BY <1>0, <2>5 DEF TypeOK, ReadPart
        <3>. QED
            BY <2>5, <3>1, ReadingIsRequest DEF ReadPart, SelectPart
    <2>. QED
        BY <1>i, <2>1, <2>2, <2>3, <2>4, <2>5, ReadingOwesNothing DEF Read
<1>o. Owing'
    BY <1>0, <1>r, OwingKept
<1>1. ASSUME NEW k \in Keys, Covered(k) PROVE HasCause(k)'
    <2>0. HasCause(k)
        BY <1>1 DEF IInv, StaleHasCause
    <2>1. CASE Set(p) /\ k = req[p].key
        <3>1. /\ cache'[k].value = req[p].value
              /\ cache'[k].cause = CauseOf(req[p])
              /\ db' = db
            BY <1>0, <2>1 DEF Set, Cache
        <3>2. cache'[k].cause = "named" \/ req[p].value = db[k]
            BY <2>1, <3>1 DEF CauseOf
        <3>. QED
            BY <3>1, <3>2 DEF HasCause, Stale
    <2>2. CASE ~ (Set(p) /\ k = req[p].key)
        <3>1. db'[k] = db[k] /\ cache'[k] = cache[k]
            BY <1>0, <2>2 DEF Read, Get, Select, SelectMore, ReadPart, SelectPart, Set, GiveUp, Cache
        <3>. QED
            BY <1>0, <1>n, <1>r, <2>0, <3>1, CauseKeptBy
    <2>. QED
        BY <2>1, <2>2
<1>. QED
    BY <1>o, <1>1 DEF StaleHasCause, Covered

LEMMA WriteCause ==
    ASSUME IInv, NEW p \in Procs, (\E w \in Writes : Write(p, w)) \/ WriteMore(p)
    PROVE  Owing' /\ StaleHasCause'
<1>0. TypeOK /\ Owing
    BY DEF IInv
<1>1. ASSUME NEW w \in Writes, Write(p, w) PROVE Owing' /\ StaleHasCause'
    <2> DEFINE r == Writing("write", w, Dels[w], Scans[w], {})
    <2>1. IsRequest(r)
        BY WritesAssumption, WritingIsRequest
    <2>2. Become(p, r) /\ req[p] = Idle /\ cache' = cache
        BY <1>1 DEF Write, OwesEvictions
    <2>3. r.del = Dels[w] /\ r.scan = Scans[w] /\ r.batch = {} /\ r.pc = "write" /\ r.op = w
        BY WritingOwes
    <2>4. Owing'
        <3> HIDE DEF r
        <3>. QED
            BY <1>0, <2>1, <2>2, <2>3, OwingKept
    <2>5. ASSUME NEW k \in Keys, Covered(k) PROVE HasCause(k)'
        <3> HIDE DEF r
        <3>1. CASE k \in Touches[w]
            <4>1. k \in Pending(p)'
                BY <1>0, <2>1, <2>2, <2>3, <2>5, <3>1, PendingAfter DEF Covered
            <4>. QED
                BY <4>1 DEF HasCause
        <3>2. CASE k \notin Touches[w]
            <4>1. db'[k] = db[k]
                BY <1>1, <3>2 DEF Write, Change
            <4>2. Pending(p) = {}
                BY <2>2, ReadingOwesNothing DEF Pending, Idle, Reading
            <4>3. HasCause(k)
                BY <2>5 DEF IInv, StaleHasCause
            <4>. QED
                BY <1>0, <2>1, <2>2, <4>1, <4>2, <4>3, CauseKeptBy
        <3>. QED
            BY <3>1, <3>2
    <2>. QED
        BY <2>4, <2>5 DEF StaleHasCause, Covered
<1>2. CASE WriteMore(p)
    <2>1. UNCHANGED <<cache, req>> /\ req[p].pc = "write" /\ Change(req[p].op)
        BY <1>2 DEF WriteMore
    <2>2. req[p].op \in Writes /\ Pending(p) = Pending(p)'
        BY <1>0, <2>1 DEF TypeOK, Pending
    <2>3. Dels[req[p].op] \cup Scans[req[p].op] \subseteq Pending(p)
        BY <1>0, <2>1 DEF Owing, Pending
    <2>4. Owing'
        BY <1>0, <2>1 DEF Owing, Pending
    <2>5. ASSUME NEW k \in Keys, Covered(k) PROVE HasCause(k)'
        <3>1. CASE k \in Touches[req[p].op]
            <4>1. k \in Pending(p)'
                BY <2>2, <2>3, <2>5, <3>1 DEF Covered
            <4>. QED
                BY <4>1 DEF HasCause
        <3>2. CASE k \notin Touches[req[p].op]
            <4>1. db'[k] = db[k] /\ cache'[k] = cache[k]
                BY <2>1, <3>2 DEF Change
            <4>2. \A q \in Procs : Pending(q)' = Pending(q)
                BY <2>1 DEF Pending
            <4>3. HasCause(k)
                BY <2>5 DEF IInv, StaleHasCause
            <4>. QED
                BY <4>1, <4>2, <4>3, CauseKept
        <3>. QED
            BY <3>1, <3>2
    <2>. QED
        BY <2>4, <2>5 DEF StaleHasCause, Covered
<1>. QED
    BY <1>1, <1>2

\* Every step of an eviction leaves p evicting less, or idle; a key that p no longer
\* has pending has no entry, or one that is marked.
LEMMA EvictStep ==
    ASSUME TypeOK, NEW p \in Procs, Evict(p)
    PROVE  \E r : /\ IsRequest(r) /\ Become(p, r) /\ r.pc \in {"idle", "evict"}
                  /\ \A k \in Keys :
                        \/ cache'[k] = None
                        \/ cache'[k].cause = "named"
                        \/ /\ cache'[k] = cache[k]
                           /\ k \in Pending(p) => k \in r.del \cup r.scan \cup r.batch
<1>0. cache \in Cache
    BY DEF TypeOK, Cache
<1>t. /\ req[p].op \in Writes \cup {None}
      /\ req[p].del \subseteq Keys /\ req[p].scan \subseteq Keys /\ req[p].batch \subseteq Keys
    BY RequestTyped
<1>1. CASE Del(p)
    <2>1. PICK k \in req[p].del :
             /\ cache' = [cache EXCEPT ![k] = None]
             /\ Become(p, Writing("evict", req[p].op, req[p].del \ {k}, req[p].scan, req[p].batch))
        BY <1>1 DEF Del
    <2>2. IsRequest(Writing("evict", req[p].op, req[p].del \ {k}, req[p].scan, req[p].batch))
        BY <1>t, WritingIsRequest
    <2>3. \A j \in Keys : cache'[j] = IF j = k THEN None ELSE cache[j]
        BY <1>0, <2>1 DEF Cache
    <2>4. WITNESS Writing("evict", req[p].op, req[p].del \ {k}, req[p].scan, req[p].batch)
    <2>. QED
        BY <2>1, <2>2, <2>3, WritingOwes DEF Pending
<1>2. CASE Scan(p)
    <2>1. PICK k \in req[p].scan :
             Become(p, Writing("evict", req[p].op, req[p].del, req[p].scan \ {k},
                               req[p].batch \cup {i \in {k} : cache[i] # None}))
        BY <1>2 DEF Scan
    <2>2. req[p].batch \cup {i \in {k} : cache[i] # None} \in SUBSET Keys
        BY <1>t
    <2>3. IsRequest(Writing("evict", req[p].op, req[p].del, req[p].scan \ {k},
                            req[p].batch \cup {i \in {k} : cache[i] # None}))
        BY <1>t, <2>2, WritingIsRequest
    <2>4. cache' = cache
        BY <1>2 DEF Scan
    <2>5. WITNESS Writing("evict", req[p].op, req[p].del, req[p].scan \ {k},
                          req[p].batch \cup {i \in {k} : cache[i] # None})
    <2>. QED
        BY <2>1, <2>3, <2>4, WritingOwes DEF Pending
<1>3. CASE Exec(p)
    <2>1. IsRequest(Writing("evict", req[p].op, req[p].del, req[p].scan, {}))
        BY <1>t, WritingIsRequest
    <2>2. \A j \in Keys : cache'[j] = IF j \in req[p].batch THEN None ELSE cache[j]
        BY <1>3 DEF Exec
    <2>3. Become(p, Writing("evict", req[p].op, req[p].del, req[p].scan, {}))
        BY <1>3 DEF Exec
    <2>4. WITNESS Writing("evict", req[p].op, req[p].del, req[p].scan, {})
    <2>. QED
        BY <2>1, <2>2, <2>3, WritingOwes DEF Pending
<1>4. CASE Miss(p)
    <2>1. PICK k \in Pending(p) :
             /\ cache' = [cache EXCEPT ![k] =
                             IF @ = None THEN None ELSE [value |-> @.value, cause |-> "named"]]
             /\ Become(p, Writing("evict", req[p].op, req[p].del \ {k},
                                  req[p].scan \ {k}, req[p].batch \ {k}))
        BY <1>4 DEF Miss
    <2>2. IsRequest(Writing("evict", req[p].op, req[p].del \ {k},
                            req[p].scan \ {k}, req[p].batch \ {k}))
        BY <1>t, WritingIsRequest
    <2>3. k \in Keys
        BY <1>t DEF Pending
    <2>4. cache'[k] = None \/ cache'[k].cause = "named"
        BY <1>0, <2>1, <2>3 DEF Cache
    <2>5. \A j \in Keys \ {k} : cache'[j] = cache[j]
        BY <1>0, <2>1, <2>3 DEF Cache
    <2>6. WITNESS Writing("evict", req[p].op, req[p].del \ {k},
                          req[p].scan \ {k}, req[p].batch \ {k})
    <2>. QED
        BY <2>1, <2>2, <2>4, <2>5, WritingOwes DEF Pending
<1>5. CASE Finish(p)
    <2>1. Become(p, Idle) /\ cache' = cache /\ Pending(p) = {}
        BY <1>5 DEF Finish
    <2>2. IsRequest(Idle) /\ Idle.pc = "idle"
        BY IdleIsRequest DEF Idle, Reading
    <2>. QED
        BY <2>1, <2>2
<1>. QED
    BY <1>1, <1>2, <1>3, <1>4, <1>5 DEF Evict

LEMMA EvictCause ==
    ASSUME IInv, NEW p \in Procs, Evict(p)
    PROVE  Owing' /\ StaleHasCause'
<1>0. TypeOK /\ Owing
    BY DEF IInv
<1>1. PICK r : /\ IsRequest(r) /\ Become(p, r) /\ r.pc \in {"idle", "evict"}
               /\ \A k \in Keys :
                     \/ cache'[k] = None
                     \/ cache'[k].cause = "named"
                     \/ /\ cache'[k] = cache[k]
                        /\ k \in Pending(p) => k \in r.del \cup r.scan \cup r.batch
    BY <1>0, EvictStep
<1>2. Owing'
    BY <1>0, <1>1, OwingKept
<1>3. db' = db
    BY DEF Evict, Del, Scan, Exec, Miss, Finish
<1>4. ASSUME NEW k \in Keys, Covered(k) PROVE HasCause(k)'
    <2>1. HasCause(k)
        BY <1>4 DEF IInv, StaleHasCause
    <2>2. CASE cache'[k] = None
        BY <2>2, NoEntryNoCause
    <2>3. CASE cache'[k].cause = "named"
        BY <2>3 DEF HasCause
    <2>4. CASE cache'[k] = cache[k] /\ (k \in Pending(p) => k \in r.del \cup r.scan \cup r.batch)
        BY <1>0, <1>1, <1>3, <2>1, <2>4, CauseKeptBy
    <2>. QED
        BY <1>1, <2>2, <2>3, <2>4
<1>. QED
    BY <1>2, <1>4 DEF StaleHasCause, Covered

LEMMA ElsewhereCause ==
    ASSUME IInv, WriteElsewhere
    PROVE  Owing' /\ StaleHasCause'
<1>0. TypeOK /\ Owing
    BY DEF IInv
<1>1. req' = req /\ \A q \in Procs : Pending(q)' = Pending(q)
    BY DEF WriteElsewhere, Pending
<1>2. ASSUME NEW k \in Keys, Covered(k) PROVE HasCause(k)'
    <2>1. HasCause(k)
        BY <1>2 DEF IInv, StaleHasCause
    <2>2. CASE cache'[k] = cache[k] /\ db'[k] = db[k]
        BY <1>1, <2>1, <2>2, CauseKept
    <2>3. CASE cache'[k].cause = "named"
        BY <2>3 DEF HasCause
    <2>. QED
        BY <1>0, <2>2, <2>3, ElsewhereMarks, NoEntryNoCause
<1>3. Owing'
    BY <1>0, <1>1 DEF Owing
<1>. QED
    BY <1>2, <1>3 DEF StaleHasCause, Covered

LEMMA NextCause == IInv /\ [Next]_vars => IInv'
<1> SUFFICES ASSUME IInv, [Next]_vars PROVE Owing' /\ StaleHasCause'
    BY NextTyped DEF IInv
<1>1. ASSUME NEW j \in Keys, Expire(j) PROVE Owing' /\ StaleHasCause'
    <2>1. UNCHANGED <<db, req>> /\ \A k \in Keys : cache'[k] = None \/ cache'[k] = cache[k]
        BY <1>1 DEF IInv, TypeOK, Expire
    <2>2. \A q \in Procs : Pending(q)' = Pending(q)
        BY <2>1 DEF Pending
    <2>3. ASSUME NEW k \in Keys, Covered(k) PROVE HasCause(k)'
        <3>1. HasCause(k)
            BY <2>3 DEF IInv, StaleHasCause
        <3>. QED
            BY <2>1, <2>2, <3>1, NoEntryNoCause, CauseKept
    <2>4. Owing'
        BY <2>1, <2>2 DEF IInv, Owing
    <2>. QED
        BY <2>3, <2>4 DEF StaleHasCause, Covered
<1>2. CASE UNCHANGED vars
    BY <1>2 DEF IInv, vars, Owing, Pending, StaleHasCause, Covered, HasCause, Stale
<1>. QED
    BY <1>1, <1>2, ReadCause, WriteCause, EvictCause, ElsewhereCause DEF Next

LEMMA InitCause == Init => IInv
<1> SUFFICES ASSUME Init PROVE Owing /\ StaleHasCause
    BY InitTyped DEF IInv
<1>1. \A p \in Procs : req[p] = Idle
    BY DEF Init
<1>2. Owing
    BY <1>1 DEF Owing, Idle, Reading
<1>3. \A k \in Keys : cache[k] = None
    BY DEF Init
<1>4. StaleHasCause
    BY <1>3 DEF StaleHasCause, HasCause, Stale
<1>. QED
    BY <1>2, <1>4

\* Whatever the keys, the writes and the number of requests: a stale entry of a key
\* that is evicted by every write that may change it has a cause.
THEOREM StalenessHasCause == Spec => []StaleHasCause
<1>1. IInv => StaleHasCause
    BY DEF IInv
<1>. QED
    BY <1>1, InitCause, NextCause, PTL DEF Spec
=============================================================================
