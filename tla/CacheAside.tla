------------------------------ MODULE CacheAside ------------------------------
(***************************************************************************)
(* The cache that every service keeps beside its tables, pkg/cache/cache.go *)
(* and the way the services use it: a read looks the key up, on a miss runs *)
(* its SELECTs and stores what they returned with a TTL; a write runs its   *)
(* statements and then evicts keys, by name (Del) or by pattern             *)
(* (DelPattern).  No lock, transaction or version ties the two stores       *)
(* together.                                                                *)
(*                                                                         *)
(* The module is generic: an instance says which keys there are, what each  *)
(* write touches and what it evicts.  db[k] is what the SELECTs of key k    *)
(* would return now.  Every Redis command is atomic and so is every SQL     *)
(* statement; requests interleave between them.  Any of them may fail, and  *)
(* any request may be cut short by a restart (GiveUp, Miss): the code looks *)
(* at the result of none of the Redis commands.  Nor does it look at all    *)
(* errors of a page with several SELECTs or rows: it stores what it got     *)
(* (SelectPart).  And other services write to the same tables and evict     *)
(* nothing (WriteElsewhere).                                                *)
(***************************************************************************)
EXTENDS FiniteSets

CONSTANTS Keys,      \* the Redis keys that reads fill
          Values,    \* what a key may hold
          Writes,    \* the writing operations, with their arguments
          Touches,   \* Touches[w]: the keys whose value write w may change
          Dels,      \* Dels[w]: the keys it evicts with Del
          Scans,     \* Scans[w]: the keys that its DelPattern matches
          Outside,   \* the keys whose value other services may change
          Procs,     \* request goroutines that may be in flight at once
          None       \* no key, no value, no write

ASSUME WritesAssumption == /\ Touches \in [Writes -> SUBSET Keys]
                           /\ Dels \in [Writes -> SUBSET Keys]
                           /\ Scans \in [Writes -> SUBSET Keys]
                           /\ Outside \subseteq Keys
ASSUME NoneAssumption == None \notin Keys \cup Values \cup Writes

VARIABLES db,      \* what the tables hold of each key
          cache,   \* the entry of each key, or None
          req      \* the requests in flight

vars == <<db, cache, req>>

\* cause is history: "named" if the value was no longer that of the tables when it was
\* stored (Set), or a part of it could not be read (SelectPart), or an eviction of the
\* entry was lost (Miss), or another service changed the tables since (WriteElsewhere).
Entry == [value : Values, cause : {"none", "named"}]

\* At "part" a request holds an incomplete page.
Request ==
    [pc : {"idle", "select", "set", "part", "write", "evict"}, key : Keys \cup {None},
     value : Values \cup {None}, op : Writes \cup {None},
     del : SUBSET Keys, scan : SUBSET Keys, batch : SUBSET Keys]

Reading(pc, k, v) == [pc |-> pc, key |-> k, value |-> v, op |-> None,
                      del |-> {}, scan |-> {}, batch |-> {}]

\* del and scan are the keys still to be evicted or scanned, batch the keys that the
\* pipeline of DelPattern holds.
Writing(pc, w, del, scan, batch) ==
    [pc |-> pc, key |-> None, value |-> None, op |-> w,
     del |-> del, scan |-> scan, batch |-> batch]

Idle == Reading("idle", None, None)

\* The evictions that request p still has ahead of it.
Pending(p) == req[p].del \cup req[p].scan \cup req[p].batch

Become(p, r) == req' = [req EXCEPT ![p] = r]

Init == /\ db \in [Keys -> Values]
        /\ cache = [k \in Keys |-> None]
        /\ req = [p \in Procs |-> Idle]

-----------------------------------------------------------------------------
(* Reads *)

\* A hit answers and changes nothing; this is a miss.
Get(p, k) ==
    /\ req[p] = Idle /\ cache[k] = None
    /\ Become(p, Reading("select", k, None))
    /\ UNCHANGED <<db, cache>>

\* Mutated form: the error of a failed SELECT is ignored.
SelectIgnoringErrors(p) ==
    /\ req[p].pc = "select"
    /\ \E v \in {db[req[p].key], None} : Become(p, Reading("set", req[p].key, v))
    /\ UNCHANGED <<db, cache>>

Select(p) ==
    /\ req[p].pc = "select"
    /\ Become(p, Reading("set", req[p].key, db[req[p].key]))
    /\ UNCHANGED <<db, cache>>

\* A value built from several SELECTs, between which the tables have changed, may be
\* a mixture that they never held.
SelectMore(p) ==
    /\ req[p].pc = "set" /\ req[p].value # db[req[p].key]
    /\ \E v \in Values : Become(p, Reading("set", req[p].key, v))
    /\ UNCHANGED <<db, cache>>

\* A SELECT after the first fails (repliesMap, _ := ...), or the connection does while
\* its rows come in (nothing looks at rows.Err): the page is v, without them.
SelectPart(p, v) ==
    /\ req[p].pc \in {"select", "set"}
    /\ Become(p, Reading("part", req[p].key, v))
    /\ UNCHANGED <<db, cache>>

ReadPart(p) == req[p].pc \in {"select", "set"} /\ \E v \in Values : SelectPart(p, v)

CauseOf(r) == IF r.pc = "set" /\ r.value = db[r.key] THEN "none" ELSE "named"

Set(p) ==
    /\ req[p].pc \in {"set", "part"}
    /\ cache' = [cache EXCEPT ![req[p].key] = [value |-> req[p].value, cause |-> CauseOf(req[p])]]
    /\ Become(p, Idle)
    /\ UNCHANGED db

\* The SELECT or the Set fails.
GiveUp(p) ==
    /\ req[p].pc \in {"select", "set", "part"}
    /\ Become(p, Idle)
    /\ UNCHANGED <<db, cache>>

\* Mutated form: entries are stored without a TTL.
NeverExpire(k) == k \notin Keys /\ UNCHANGED vars

\* The TTL of the entry has passed.
Expire(k) ==
    /\ cache[k] # None
    /\ cache' = [cache EXCEPT ![k] = None]
    /\ UNCHANGED <<db, req>>

-----------------------------------------------------------------------------
(* Writes *)

Change(w) == /\ db' \in [Keys -> Values]
             /\ \A k \in Keys \ Touches[w] : db'[k] = db[k]

\* What the handler of w remembers once its first statement has taken effect.
OwesEvictions(p, w) ==
    /\ req[p] = Idle
    /\ Become(p, Writing("write", w, Dels[w], Scans[w], {}))
    /\ UNCHANGED cache

\* The first statement of w, and the further ones of the same handler.
Write(p, w) == OwesEvictions(p, w) /\ Change(w)

WriteMore(p) ==
    /\ req[p].pc = "write"
    /\ Change(req[p].op)
    /\ UNCHANGED <<cache, req>>

\* A statement of another service, which knows nothing of these keys.
WriteElsewhere ==
    /\ db' \in [Keys -> Values]
    /\ \A k \in Keys \ Outside : db'[k] = db[k]
    /\ cache' = [k \in Keys |-> IF cache[k] = None \/ db'[k] = db[k] THEN cache[k]
                                ELSE [value |-> cache[k].value, cause |-> "named"]]
    /\ UNCHANGED req

Del(p) ==
    /\ \E k \in req[p].del :
          /\ cache' = [cache EXCEPT ![k] = None]
          /\ Become(p, Writing("evict", req[p].op, req[p].del \ {k}, req[p].scan, req[p].batch))
    /\ UNCHANGED db

\* The SCAN of DelPattern comes to k, and queues it if it is there.
Scan(p) ==
    /\ \E k \in req[p].scan :
          Become(p, Writing("evict", req[p].op, req[p].del, req[p].scan \ {k},
                            req[p].batch \cup {i \in {k} : cache[i] # None}))
    /\ UNCHANGED <<db, cache>>

\* Mutated form: the keys queued after the last full batch are dropped.
ExecFullBatches(p) ==
    /\ req[p].batch # {}
    /\ Become(p, Writing("evict", req[p].op, req[p].del, req[p].scan, {}))
    /\ UNCHANGED <<db, cache>>

\* The pipeline deletes what was queued.
Exec(p) ==
    /\ req[p].batch # {}
    /\ cache' = [k \in Keys |-> IF k \in req[p].batch THEN None ELSE cache[k]]
    /\ Become(p, Writing("evict", req[p].op, req[p].del, req[p].scan, {}))
    /\ UNCHANGED db

\* An eviction is lost: the command failed, or the statement did after it had taken
\* effect and the handler returned at once, or the server stopped.
Miss(p) ==
    /\ \E k \in Pending(p) :
          /\ cache' = [cache EXCEPT ![k] =
                          IF @ = None THEN None ELSE [value |-> @.value, cause |-> "named"]]
          /\ Become(p, Writing("evict", req[p].op, req[p].del \ {k},
                               req[p].scan \ {k}, req[p].batch \ {k}))
    /\ UNCHANGED db

Finish(p) ==
    /\ req[p].pc \in {"write", "evict"} /\ Pending(p) = {}
    /\ Become(p, Idle)
    /\ UNCHANGED <<db, cache>>

-----------------------------------------------------------------------------
\* The steps of a read whose SELECT does not fail halfway, and those of evictions.
Read(p) == (\E k \in Keys : Get(p, k)) \/ Select(p) \/ Set(p) \/ GiveUp(p)

Evict(p) == Del(p) \/ Scan(p) \/ Exec(p) \/ Miss(p) \/ Finish(p)

Next ==
    \/ \E p \in Procs : \/ Read(p) \/ SelectMore(p) \/ ReadPart(p)
                        \/ (\E w \in Writes : Write(p, w)) \/ WriteMore(p)
                        \/ Evict(p)
    \/ \E k \in Keys : Expire(k)
    \/ WriteElsewhere

Spec == Init /\ [][Next]_vars

\* Redis expires its keys; nothing else has to happen.
FairSpec == Spec /\ \A k \in Keys : WF_vars(Expire(k))

-----------------------------------------------------------------------------
(* Properties *)

\* Every store holds values of its keys, and every request is of one of its kinds.
TypeOK ==
    /\ db \in [Keys -> Values]
    /\ cache \in [Keys -> Entry \cup {None}]
    /\ req \in [Procs -> Request]
    /\ \A p \in Procs : /\ req[p].pc \in {"select", "set", "part"} => req[p].key \in Keys
                        /\ req[p].pc \in {"set", "part"} => req[p].value \in Values
                        /\ req[p].pc = "write" => req[p].op \in Writes

Stale(k) == cache[k] # None /\ cache[k].value # db[k]

\* Every write that may change the value of k evicts it.
Covered(k) == \A w \in Writes : k \in Touches[w] => k \in Dels[w] \cup Scans[w]

HasCause(k) ==
    Stale(k) => \/ cache[k].cause # "none"
                \/ \E p \in Procs : k \in Pending(p)

\* A stale entry of a key that is evicted by every write of its own service that
\* changes it has a cause: a request is about to evict it, or its eviction was lost, or
\* the read that stored it was overtaken by a write (DelPattern and Del after the
\* statement) or did not get all of the page, or another service changed the tables.
StaleHasCause == \A k \in Keys : Covered(k) => HasCause(k)

\* A stale entry of any key, whatever its cause, does not last: it expires.
StaleEnds == \A k \in Keys : Stale(k) ~> ~ Stale(k)
=============================================================================
