---------------------------------- MODULE Hub ----------------------------------
(***************************************************************************)
(* The WebSocket hub, pkg/hub/hub.go: connections that come and go, and     *)
(* events that are broadcast to all of them.  The requests that connections *)
(* send are in HubReplies.                                                  *)
(*                                                                         *)
(* Every connection has a goroutine, HandleClientConn, and a broadcast from *)
(* a request handler is a goroutine of its own.  h.mu is Go's RWMutex: a    *)
(* writer that has announced itself waits for the readers that are in and   *)
(* keeps new ones out.  A broadcast reads under the lock, and writes to     *)
(* every socket before it lets go.                                          *)
(*                                                                         *)
(* A socket takes Room frames that its client has not read; then a write    *)
(* waits, without a deadline, until the client reads or the connection      *)
(* breaks.  cc.mu only keeps frames apart: a frame is written in one step.  *)
(***************************************************************************)
EXTENDS Naturals, FiniteSets

CONSTANTS Conns,     \* connections, each of which is accepted once
          Casters,   \* goroutines that broadcast an event for an HTTP handler
          None,
          Room       \* frames that a socket takes before a write waits

ASSUME HubNames == None \notin Conns /\ Conns \cap Casters = {}
ASSUME HubFinite == IsFiniteSet(Conns) /\ IsFiniteSet(Casters)
ASSUME HubBounds == Room \in Nat \ {0}

VARIABLES clients,   \* h.clients
          pending,   \* the goroutine that has announced itself as a writer of h.mu, or None
          readers,   \* the goroutines that broadcast, and hold h.mu to read
          left,      \* for each of them, the sockets it has still to write to
          conn,      \* the goroutine of each connection
          sock,      \* the sockets
          told       \* history: the last userCount written to each client

lockVars == <<clients, pending, readers, left>>
vars == <<lockVars, conn, sock, told>>

-----------------------------------------------------------------------------
Goroutines == Conns \cup Casters

Pcs == {"out", "enter", "count", "tell", "read", "leave", "gone"}

\* count is what ClientCount returned; late (history): clients has changed since.
Conn == [pc : Pcs, count : Nat, late : BOOLEAN]

Local(pc, n) == [pc |-> pc, count |-> n, late |-> FALSE]

Told == [count : Nat, late : BOOLEAN]

Nothing == [count |-> 0, late |-> FALSE]

Socket == [frames : 0 .. Room, alive : BOOLEAN]

At(pcs) == {c \in Conns : conn[c].pc \in pcs}

Goto(c, pc) == conn' = [conn EXCEPT ![c] = Local(pc, 0)]

\* clients changes: who has counted, and has not begun to tell, tells an old count.
Changes(c, pc, n) ==
    conn' = [d \in Conns |-> IF d = c THEN Local(pc, n)
                             ELSE [conn[d] EXCEPT !.late = @ \/ conn[d].pc = "tell"]]

Init == /\ clients = {} /\ pending = None /\ readers = {}
        /\ left = [g \in Goroutines |-> {}]
        /\ conn = [c \in Conns |-> Local("out", 0)]
        /\ sock = [c \in Conns |-> [frames |-> 0, alive |-> TRUE]]
        /\ told = [c \in Conns |-> Nothing]

-----------------------------------------------------------------------------
(* The sockets and their clients *)

\* send: WriteMessage waits for room; on a broken connection it fails at once, and
\* the error is logged.
Write(c) ==
    \/ /\ sock[c].alive /\ sock[c].frames < Room
       /\ sock' = [sock EXCEPT ![c].frames = @ + 1]
    \/ ~ sock[c].alive /\ UNCHANGED sock

\* The client reads all there is.
Drain(c) ==
    /\ sock[c].alive /\ sock[c].frames > 0
    /\ sock' = [sock EXCEPT ![c].frames = 0]
    /\ UNCHANGED <<lockVars, conn, told>>

\* The client closes the connection, or the network does.
Break(c) ==
    /\ sock[c].alive /\ conn[c].pc \notin {"out", "gone"}
    /\ sock' = [sock EXCEPT ![c].alive = FALSE, ![c].frames = 0]
    /\ UNCHANGED <<lockVars, conn, told>>

-----------------------------------------------------------------------------
(* h.mu, and who is connected *)

\* parseWSToken turns nobody away.
Connect(c) ==
    /\ conn[c].pc = "out"
    /\ Goto(c, "enter")
    /\ UNCHANGED <<lockVars, sock, told>>

\* Lock() announces a writer, one at a time.
Announce(c) ==
    /\ conn[c].pc \in {"enter", "leave"} /\ pending = None
    /\ pending' = c
    /\ UNCHANGED <<clients, readers, left, conn, sock, told>>

\* Mutated form: the lock is not let go.
LockedForever(c) == pending = c /\ readers = {} /\ UNCHANGED <<pending, readers, left>>

\* The writer is alone.
Locked(c) == pending = c /\ readers = {} /\ pending' = None /\ UNCHANGED <<readers, left>>

\* Mutated form: the count is taken before the connection is one of the clients.
RegisterAfterCount(c) ==
    /\ conn[c].pc = "enter" /\ Locked(c)
    /\ clients' = clients \cup {c}
    /\ Changes(c, "tell", Cardinality(clients))
    /\ UNCHANGED <<sock, told>>

Register(c) ==
    /\ conn[c].pc = "enter" /\ Locked(c)
    /\ clients' = clients \cup {c}
    /\ Changes(c, "count", 0)
    /\ UNCHANGED <<sock, told>>

Unregister(c) ==
    /\ conn[c].pc = "leave" /\ Locked(c)
    /\ clients' = clients \ {c}
    /\ Changes(c, "count", 0)
    /\ told' = [told EXCEPT ![c] = Nothing]
    /\ UNCHANGED sock

-----------------------------------------------------------------------------
(* Broadcasts *)

\* ClientCount, which reads under the lock and lets go of it.
Count(c) ==
    /\ conn[c].pc = "count" /\ pending = None
    /\ conn' = [conn EXCEPT ![c] = Local("tell", Cardinality(clients))]
    /\ UNCHANGED <<lockVars, sock, told>>

\* RLock waits for a writer that has announced itself.
StartBroadcast(g) ==
    /\ g \notin readers /\ pending = None
    /\ g \in Casters \cup At({"tell"})
    /\ readers' = readers \cup {g}
    /\ left' = [left EXCEPT ![g] = clients]
    /\ UNCHANGED <<clients, pending, conn, sock, told>>

Broadcast(g, c) ==
    /\ g \in readers /\ c \in left[g]
    /\ Write(c)
    /\ left' = [left EXCEPT ![g] = @ \ {c}]
    /\ told' = IF g \in Casters THEN told
               ELSE [told EXCEPT ![c] = [count |-> conn[g].count, late |-> conn[g].late]]
    /\ UNCHANGED <<clients, pending, readers, conn>>

\* The connection goes on to read, or is done.
GoOn(c) == Goto(c, IF c \in clients THEN "read" ELSE "gone")

\* Mutated form: a broadcast for a handler keeps the lock.
EndBroadcastLocked(g) ==
    /\ g \in readers /\ left[g] = {}
    /\ IF g \in Casters THEN UNCHANGED <<readers, conn>>
       ELSE GoOn(g) /\ readers' = readers \ {g}
    /\ UNCHANGED <<clients, pending, left, sock, told>>

EndBroadcast(g) ==
    /\ g \in readers /\ left[g] = {}
    /\ readers' = readers \ {g}
    /\ IF g \in Casters THEN UNCHANGED conn ELSE GoOn(g)
    /\ UNCHANGED <<clients, pending, left, sock, told>>

-----------------------------------------------------------------------------
(* What a connection sends *)

\* ReadMessage fails.
Fail(c) ==
    /\ conn[c].pc = "read" /\ ~ sock[c].alive
    /\ Goto(c, "leave")
    /\ UNCHANGED <<lockVars, sock, told>>

\* A ping is answered, and so is what is not JSON.
Answer(c) ==
    /\ conn[c].pc = "read" /\ sock[c].alive
    /\ Write(c)
    /\ UNCHANGED <<lockVars, conn, told>>

-----------------------------------------------------------------------------
Telling(g) == StartBroadcast(g) \/ (\E c \in Conns : Broadcast(g, c)) \/ EndBroadcast(g)

\* What the goroutine of a connection does by itself.
HandleClientConn(c) ==
    \/ Announce(c) \/ Register(c) \/ Unregister(c) \/ Count(c)
    \/ Telling(c) \/ Fail(c)

Client(c) == Connect(c) \/ Drain(c) \/ Break(c) \/ Answer(c)

Next ==
    \/ \E c \in Conns : Client(c) \/ HandleClientConn(c)
    \/ \E g \in Casters : Telling(g)

Spec == Init /\ [][Next]_vars

\* A goroutine that can go on does, the mutex of a socket is not kept from whoever
\* waits for it, and a client that is connected reads; none has to send, connect or leave.
Fairness ==
    /\ \A c \in Conns : WF_vars(HandleClientConn(c)) /\ WF_vars(Drain(c))
    /\ \A g \in Casters : WF_vars(EndBroadcast(g))
    /\ \A g \in Goroutines, c \in Conns : SF_vars(Broadcast(g, c))

FairSpec == Spec /\ Fairness

-----------------------------------------------------------------------------
(* Properties *)

\* The maps hold connections, and each goroutine the locals of its handler.
TypeOK ==
    /\ clients \subseteq Conns
    /\ pending \in At({"enter", "leave"}) \cup {None}
    /\ readers \subseteq Casters \cup At({"tell"})
    /\ left \in [Goroutines -> SUBSET Conns]
    /\ conn \in [Conns -> Conn]
    /\ sock \in [Conns -> Socket]
    /\ told \in [Conns -> Told]

\* When every announcement has been made, a client knows how many are connected,
\* unless others came or left between ClientCount and the broadcast of what it was
\* told last: the lock is let go in between (hub.go, lines 70 and 92), and an older
\* count may be the last to arrive.
CountsSettle ==
    At({"count", "tell"}) = {} =>
        \A c \in clients :
            sock[c].alive => told[c].count = Cardinality(clients) \/ told[c].late

\* Who connects becomes a client, and who is gone stops being one, although others
\* hold the lock while they write to sockets: as long as clients read (Broadcast).
LockIsHeldForAWhile ==
    \A c \in Conns : conn[c].pc \in {"enter", "leave"} ~> conn[c].pc \notin {"enter", "leave"}
=============================================================================
