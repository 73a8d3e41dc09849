------------------------------ MODULE HubReplies ------------------------------
(***************************************************************************)
(* Requests over WebSocket and their answers, pkg/hub/hub.go: connMap       *)
(* remembers for each request id, which clients choose, the connection it   *)
(* came from; the answer is written to that connection, or, when the id is  *)
(* not known any more, to all connections of the account.                   *)
(*                                                                         *)
(* Each connection reads one message at a time (HandleClientConn); every    *)
(* handler runs in a goroutine, and so does cleanupConnMap.  A lock is held *)
(* for one statement here, so that each critical section is one step.       *)
(* Which actions have a handler is not in this repository (On has no        *)
(* caller): a handler is taken to answer once, with Reply or ReplyError.    *)
(***************************************************************************)
EXTENDS Naturals, FiniteSets, SequencesExt

CONSTANTS Users,
          Anonymous,    \* userID 0: no token, or one that is not valid
          Ids,          \* request ids
          None,
          MaxTracked,   \* entries that cleanupConnMap leaves alone; 10000 in the code
          MaxConns,     \* bound on connections
          MaxArrivals   \* bound on connections and requests together

VARIABLES conn,      \* the goroutine of each connection, and whose it is
          byUser,    \* h.byUser: the connections of each account, in order of arrival
          connMap,   \* h.connMap
          asks,      \* requests that have a handler, those answered included
          reused,    \* history: ids that were sent while an earlier request had them
          dropped    \* history: connMap was cleaned

vars == <<conn, byUser, connMap, asks, reused, dropped>>

-----------------------------------------------------------------------------
\* Connections, numbered as they arrive.
Conns == 1 .. MaxConns

\* id is that of a request that is being refused.
Conn == [pc : {"out", "read", "refuse", "gone"}, user : Users \cup {Anonymous},
         alive : BOOLEAN, id : Ids \cup {None}]

Local(pc, u, id) == [pc |-> pc, user |-> u, alive |-> TRUE, id |-> id]

User(c) == conn[c].user

\* walk: the slice of byUser that the fallback walks, and at: how far it has come;
\* shares: it has its array with byUser; moved: that was shifted meanwhile; got: who was
\* sent the answer.
Ask == [n : 1 .. MaxArrivals, by : Conns, id : Ids,
        pc : {"run", "send", "forget", "fallback", "spread", "done"},
        to : Conns \cup {None}, walk : Seq(Conns), at : Nat, shares : BOOLEAN,
        moved : BOOLEAN, got : SUBSET Conns]

NewAsk(c, id) == [n |-> Cardinality(asks) + 1, by |-> c, id |-> id, pc |-> "run",
                  to |-> None, walk |-> <<>>, at |-> 0, shares |-> FALSE,
                  moved |-> FALSE, got |-> {}]

Becomes(a, b) == asks' = (asks \ {a}) \cup {b}

Init == /\ conn = [c \in Conns |-> Local("out", Anonymous, None)]
        /\ byUser = [u \in Users |-> <<>>]
        /\ connMap = [id \in Ids |-> None]
        /\ asks = {} /\ reused = {} /\ dropped = FALSE

-----------------------------------------------------------------------------
(* Connections *)

Arrived == {c \in Conns : conn[c].pc # "out"}

MoreMayCome == Cardinality(Arrived) + Cardinality(asks) < MaxArrivals

\* conns is written to the array: a fallback that walks the same one sees it, up to the
\* length that its slice had.
Sees(a, u, conns) ==
    IF a.shares /\ User(a.by) = u
    THEN [a EXCEPT !.walk = [i \in 1 .. Len(@) |-> IF i <= Len(conns) THEN conns[i] ELSE @[i]]]
    ELSE a

\* append has copied the array.
Copied(a, u) == IF User(a.by) = u THEN [a EXCEPT !.shares = FALSE] ELSE a

\* The array has room for one more, or is copied; without connections it is a new one.
Enter(c, u) ==
    LET conns == Append(byUser[u], c)
    IN /\ byUser' = [byUser EXCEPT ![u] = conns]
       /\ \/ Len(byUser[u]) # 0 /\ asks' = {Sees(a, u, conns) : a \in asks}
          \/ asks' = {Copied(a, u) : a \in asks}

\* The identity is that of the token, or none.
Connect(c, u) ==
    /\ conn[c].pc = "out" /\ \A d \in Conns : d < c => conn[d].pc # "out"
    /\ MoreMayCome
    /\ conn' = [conn EXCEPT ![c] = Local("read", u, None)]
    /\ IF u = Anonymous THEN UNCHANGED <<byUser, asks>> ELSE Enter(c, u)
    /\ UNCHANGED <<connMap, reused, dropped>>

Break(c) ==
    /\ conn[c].pc \in {"read", "refuse"} /\ conn[c].alive
    /\ conn' = [conn EXCEPT ![c].alive = FALSE]
    /\ UNCHANGED <<byUser, connMap, asks, reused, dropped>>

\* append(conns[:i], conns[i+1:]...): what follows c moves to the left, in the same array.
Without(conns, c) == RemoveAt(conns, CHOOSE i \in DOMAIN conns : conns[i] = c)

Exit(c, u) ==
    LET conns == Without(byUser[u], c)
        Moved(a) == IF a.shares /\ User(a.by) = u THEN [a EXCEPT !.moved = TRUE] ELSE a
    IN /\ byUser' = [byUser EXCEPT ![u] = conns]
       /\ asks' = {Moved(Sees(a, u, conns)) : a \in asks}

\* ReadMessage fails, and the connection leaves the maps; connMap is left as it is.
Leave(c) ==
    /\ conn[c].pc = "read" /\ ~ conn[c].alive
    /\ conn' = [conn EXCEPT ![c].pc = "gone"]
    /\ IF User(c) = Anonymous THEN UNCHANGED <<byUser, asks>> ELSE Exit(c, User(c))
    /\ UNCHANGED <<connMap, reused, dropped>>

-----------------------------------------------------------------------------
(* Requests *)

\* An earlier request has the id: it is remembered, or its handler or its refusal is
\* not done.
InUse(id) == \/ connMap[id] # None
             \/ \E a \in asks : a.id = id /\ a.pc # "done"
             \/ \E c \in Conns : conn[c].id = id

\* The connection is known for the id, whoever was before.
Track(c, id) ==
    /\ conn[c].pc = "read" /\ conn[c].alive
    /\ connMap' = [connMap EXCEPT ![id] = c]
    /\ reused' = IF InUse(id) THEN reused \cup {id} ELSE reused
    /\ UNCHANGED <<byUser, dropped>>

\* The handler of the action runs in a goroutine.
Request(c, id) ==
    /\ MoreMayCome
    /\ Track(c, id)
    /\ asks' = asks \cup {NewAsk(c, id)}
    /\ UNCHANGED conn

\* The action has no handler.
RequestUnknown(c, id) ==
    /\ Track(c, id)
    /\ conn' = [conn EXCEPT ![c].pc = "refuse", ![c].id = id]
    /\ UNCHANGED asks

\* The error is sent, and then the entry of the id is deleted, whosever it is.
Refuse(c) ==
    /\ conn[c].pc = "refuse"
    /\ connMap' = [connMap EXCEPT ![conn[c].id] = None]
    /\ conn' = [conn EXCEPT ![c].pc = "read", ![c].id = None]
    /\ UNCHANGED <<byUser, asks, reused, dropped>>

-----------------------------------------------------------------------------
(* Reply and ReplyError *)

\* The socket takes the answer, or the error of a broken one is logged.
Sent(a, c) == IF conn[c].alive THEN a.got \cup {c} ELSE a.got

\* Mutated form: the account comes before the entry of the id.
LookupByUser(a) ==
    /\ a.pc = "run"
    /\ Becomes(a, [a EXCEPT !.to = connMap[a.id],
                            !.pc = IF User(a.by) # Anonymous THEN "fallback"
                                   ELSE IF connMap[a.id] # None THEN "send"
                                   ELSE "done"])
    /\ UNCHANGED <<conn, byUser, connMap, reused, dropped>>

\* Mutated form: without a fallback.
LookupOnly(a) ==
    /\ a.pc = "run"
    /\ Becomes(a, [a EXCEPT !.to = connMap[a.id],
                            !.pc = IF connMap[a.id] # None THEN "send" ELSE "done"])
    /\ UNCHANGED <<conn, byUser, connMap, reused, dropped>>

Lookup(a) ==
    /\ a.pc = "run"
    /\ Becomes(a, [a EXCEPT !.to = connMap[a.id],
                            !.pc = IF connMap[a.id] # None THEN "send"
                                   ELSE IF User(a.by) # Anonymous THEN "fallback"
                                   ELSE "done"])
    /\ UNCHANGED <<conn, byUser, connMap, reused, dropped>>

SendReply(a) ==
    /\ a.pc = "send"
    /\ Becomes(a, [a EXCEPT !.pc = "forget", !.to = None, !.got = Sent(a, a.to)])
    /\ UNCHANGED <<conn, byUser, connMap, reused, dropped>>

\* The entry is deleted, whosever it is by now.
Forget(a) ==
    /\ a.pc = "forget"
    /\ connMap' = [connMap EXCEPT ![a.id] = None]
    /\ Becomes(a, [a EXCEPT !.pc = "done"])
    /\ UNCHANGED <<conn, byUser, reused, dropped>>

\* The slice is read under the lock, and walked without it.
Fallback(a) ==
    /\ a.pc = "fallback"
    /\ Becomes(a, [a EXCEPT !.pc = "spread", !.walk = byUser[User(a.by)], !.shares = TRUE])
    /\ UNCHANGED <<conn, byUser, connMap, reused, dropped>>

Spread(a) ==
    /\ a.pc = "spread" /\ a.at < Len(a.walk)
    /\ Becomes(a, [a EXCEPT !.at = @ + 1, !.got = Sent(a, a.walk[a.at + 1])])
    /\ UNCHANGED <<conn, byUser, connMap, reused, dropped>>

EndSpread(a) ==
    /\ a.pc = "spread" /\ a.at = Len(a.walk)
    /\ Becomes(a, [a EXCEPT !.pc = "done", !.walk = <<>>, !.at = 0, !.shares = FALSE])
    /\ UNCHANGED <<conn, byUser, connMap, reused, dropped>>

\* The ticker: above the limit all entries go.
CleanConnMap ==
    /\ Cardinality({id \in Ids : connMap[id] # None}) > MaxTracked
    /\ connMap' = [id \in Ids |-> None]
    /\ dropped' = TRUE
    /\ UNCHANGED <<conn, byUser, asks, reused>>

-----------------------------------------------------------------------------
HandleClientConn(c) ==
    \/ \E u \in Users \cup {Anonymous} : Connect(c, u)
    \/ Break(c) \/ Leave(c) \/ Refuse(c)
    \/ \E id \in Ids : Request(c, id) \/ RequestUnknown(c, id)

Reply(a) ==
    Lookup(a) \/ SendReply(a) \/ Forget(a) \/ Fallback(a) \/ Spread(a) \/ EndSpread(a)

Next ==
    \/ \E c \in Conns : HandleClientConn(c)
    \/ \E a \in asks : Reply(a)
    \/ CleanConnMap

Spec == Init /\ [][Next]_vars

-----------------------------------------------------------------------------
(* Properties *)

\* byUser holds the connections of an account that are open, and each goroutine the
\* locals of its handler.
TypeOK ==
    /\ conn \in [Conns -> Conn]
    /\ byUser \in [Users -> Seq(Conns)]
    /\ connMap \in [Ids -> Conns \cup {None}]
    /\ asks \subseteq Ask
    /\ reused \subseteq Ids /\ dropped \in BOOLEAN

\* An answer goes to the socket that asked; or the id was sent again before the first
\* request with it was done; or connMap was cleaned, and then it goes to sockets of
\* the same account ("so replies go to the exact socket that sent the request",
\* hub.go, line 39).
RepliesGoHome ==
    \A a \in asks : \A c \in a.got :
        \/ c = a.by \/ a.id \in reused
        \/ dropped /\ User(c) = User(a.by)

\* Who asked and is still connected gets the answer: unless the id was sent again too
\* early, or connMap was cleaned and either the connection is anonymous or another one
\* of the account closed while the fallback was on its way (hub.go, lines 177-185).
AskerIsAnswered ==
    \A a \in asks : a.pc = "done" =>
        \/ a.by \in a.got \/ ~ conn[a.by].alive
        \/ a.id \in reused
        \/ dropped /\ (User(a.by) = Anonymous \/ a.moved)
=============================================================================
