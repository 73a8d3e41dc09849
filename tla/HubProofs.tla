------------------------------ MODULE HubProofs ------------------------------
(***************************************************************************)
(* Theorems about Hub.tla, for every finite set of connections and of       *)
(* broadcasters, and every room of the sockets.                             *)
(***************************************************************************)
EXTENDS Hub, FiniteSetTheorems, TLAPS

-----------------------------------------------------------------------------
(* Type correctness *)

LEMMA ClientCountIsNat == ASSUME NEW S \in SUBSET Conns PROVE Cardinality(S) \in Nat
BY HubFinite, FS_Subset, FS_CardinalityType

\* What a connection goes on as, and what the others become when clients changes.
LEMMA LocalTypes ==
    ASSUME TypeOK, NEW c \in Conns, NEW pc \in Pcs, NEW n \in Nat
    PROVE  /\ Local(pc, n) \in Conn /\ Local(pc, n).pc = pc
           /\ Local(pc, n).count = n /\ Local(pc, n).late = FALSE
           /\ conn' = [conn EXCEPT ![c] = Local(pc, n)] =>
                 /\ conn' \in [Conns -> Conn]
                 /\ conn'[c].pc = pc /\ conn'[c].count = n /\ conn'[c].late = FALSE
                 /\ \A d \in Conns \ {c} : conn'[d] = conn[d]
           /\ Changes(c, pc, n) =>
                 /\ conn' \in [Conns -> Conn]
                 /\ conn'[c].pc = pc
                 /\ \A d \in Conns \ {c} :
                       /\ conn'[d].pc = conn[d].pc /\ conn'[d].count = conn[d].count
                       /\ conn[d].late \/ conn[d].pc = "tell" => conn'[d].late
<1>1. /\ Local(pc, n) \in Conn /\ Local(pc, n).pc = pc
      /\ Local(pc, n).count = n /\ Local(pc, n).late = FALSE
  BY DEF Local, Conn
<1>2. conn \in [Conns -> Conn] BY DEF TypeOK
<1>3. conn' = [conn EXCEPT ![c] = Local(pc, n)] =>
         /\ conn' \in [Conns -> Conn]
         /\ conn'[c].pc = pc /\ conn'[c].count = n /\ conn'[c].late = FALSE
         /\ \A d \in Conns \ {c} : conn'[d] = conn[d]
  BY <1>1, <1>2
<1>4. ASSUME Changes(c, pc, n)
      PROVE  /\ conn' \in [Conns -> Conn]
             /\ conn'[c].pc = pc
             /\ \A d \in Conns \ {c} :
                   /\ conn'[d].pc = conn[d].pc /\ conn'[d].count = conn[d].count
                   /\ conn[d].late \/ conn[d].pc = "tell" => conn'[d].late
  <2> DEFINE new(d) == [conn[d] EXCEPT !.late = conn[d].late \/ conn[d].pc = "tell"]
  <2>1. conn' = [d \in Conns |-> IF d = c THEN Local(pc, n) ELSE new(d)]
    BY <1>4 DEF Changes
  <2>2. ASSUME NEW d \in Conns
        PROVE  /\ new(d) \in Conn /\ new(d).pc = conn[d].pc /\ new(d).count = conn[d].count
               /\ conn[d].late \/ conn[d].pc = "tell" => new(d).late
    <3>1. (conn[d].late \/ conn[d].pc = "tell") \in BOOLEAN BY <1>2 DEF Conn
    <3>2. QED BY <1>2, <3>1 DEF Conn
  <2> HIDE DEF new
  <2>3. QED BY <1>1, <2>1, <2>2
<1>5. QED BY <1>1, <1>3, <1>4

LEMMA GoesTo ==
    ASSUME TypeOK, NEW c \in Conns, NEW pc \in Pcs, NEW n \in Nat,
           conn' = [conn EXCEPT ![c] = Local(pc, n)]
    PROVE  /\ conn'[c].pc = pc /\ conn'[c].count = n
           /\ \A d \in Conns \ {c} : conn'[d] = conn[d]
BY LocalTypes

\* A frame more, or none.
LEMMA WriteTypes ==
    ASSUME TypeOK, NEW c \in Conns, Write(c)
    PROVE  sock' \in [Conns -> Socket]
<1>1. CASE sock[c].frames < Room /\ sock' = [sock EXCEPT ![c].frames = @ + 1]
  <2>1. sock \in [Conns -> Socket] BY DEF TypeOK
  <2>2. sock[c].frames + 1 \in 0 .. Room BY <1>1, <2>1, HubBounds DEF Socket
  <2>3. [sock[c] EXCEPT !.frames = sock[c].frames + 1] \in Socket BY <2>1, <2>2 DEF Socket
  <2>4. sock' = [sock EXCEPT ![c] = [sock[c] EXCEPT !.frames = sock[c].frames + 1]]
    BY <1>1, <2>1
  <2>5. QED BY <2>1, <2>3, <2>4
<1>2. CASE UNCHANGED sock BY <1>2 DEF TypeOK
<1>3. QED BY <1>1, <1>2 DEF Write

\* What the clients do, and what is done to their sockets, is none of the hub's business.
LEMMA ClientTypes ==
    ASSUME TypeOK, NEW c \in Conns, Client(c)
    PROVE  TypeOK'
<1>1. CASE Connect(c)
  <2>1. conn' = [conn EXCEPT ![c] = Local("enter", 0)] /\ conn[c].pc = "out"
        /\ UNCHANGED <<lockVars, sock, told>>
    BY <1>1 DEF Connect, Goto
  <2>2. conn' \in [Conns -> Conn] /\ \A d \in Conns \ {c} : conn'[d] = conn[d]
    BY <2>1, LocalTypes DEF Pcs
  <2>3. At({"enter", "leave"}) \subseteq At({"enter", "leave"})'
        /\ At({"tell"}) \subseteq At({"tell"})'
    BY <2>1, <2>2 DEF At
  <2>4. QED BY <2>1, <2>2, <2>3 DEF TypeOK, lockVars
<1>2. CASE Drain(c) \/ Break(c) \/ Answer(c)
  <2>1. sock' \in [Conns -> Socket]
    <3>1. CASE Answer(c) BY <3>1, WriteTypes DEF Answer
    <3>2. CASE Drain(c)
      <4>1. sock \in [Conns -> Socket] /\ 0 \in 0 .. Room BY HubBounds DEF TypeOK
      <4>2. [sock[c] EXCEPT !.frames = 0] \in Socket BY <4>1 DEF Socket
      <4>3. QED BY <3>2, <4>1, <4>2 DEF Drain
    <3>3. CASE Break(c)
      <4>1. sock \in [Conns -> Socket] /\ 0 \in 0 .. Room BY HubBounds DEF TypeOK
      <4>2. [sock[c] EXCEPT !.alive = FALSE, !.frames = 0] \in Socket BY <4>1 DEF Socket
      <4>3. sock' = [sock EXCEPT ![c] = [sock[c] EXCEPT !.alive = FALSE, !.frames = 0]]
        BY <3>3, <4>1 DEF Break
      <4>4. QED BY <4>1, <4>2, <4>3
    <3>4. QED BY <1>2, <3>1, <3>2, <3>3
  <2>2. UNCHANGED <<lockVars, conn, told>> BY <1>2 DEF Drain, Break, Answer
  <2>3. QED BY <2>1, <2>2 DEF TypeOK, lockVars, At
<1>3. QED BY <1>1, <1>2 DEF Client

\* A goroutine that broadcasts keeps the lock until it has told everyone.
LEMMA TellingTypes ==
    ASSUME TypeOK, NEW g \in Goroutines, Telling(g)
    PROVE  TypeOK'
<1>1. CASE StartBroadcast(g)
  <2>1. left' \in [Goroutines -> SUBSET Conns] BY <1>1 DEF StartBroadcast, TypeOK
  <2>2. QED BY <1>1, <2>1 DEF StartBroadcast, TypeOK, At
<1>2. ASSUME NEW c \in Conns, Broadcast(g, c) PROVE TypeOK'
  <2>1. sock' \in [Conns -> Socket] BY <1>2, WriteTypes DEF Broadcast
  <2>2. left' \in [Goroutines -> SUBSET Conns] BY <1>2 DEF Broadcast, TypeOK
  <2>3. told' \in [Conns -> Told]
    <3>1. g \notin Casters => [count |-> conn[g].count, late |-> conn[g].late] \in Told
      BY DEF TypeOK, Goroutines, Conn, Told
    <3>2. QED BY <1>2, <3>1 DEF Broadcast, TypeOK
  <2>4. QED BY <1>2, <2>1, <2>2, <2>3 DEF Broadcast, TypeOK, At
<1>3. CASE EndBroadcast(g)
  <2>1. UNCHANGED <<clients, pending, left, sock, told>> /\ readers' = readers \ {g}
    BY <1>3 DEF EndBroadcast
  <2>2. CASE g \in Casters
    BY <1>3, <2>1, <2>2 DEF EndBroadcast, TypeOK, At
  <2>3. CASE g \notin Casters
    <3>1. g \in Conns /\ g \in At({"tell"})
      BY <1>3, <2>3 DEF EndBroadcast, TypeOK, Goroutines
    <3>2. PICK pc \in {"read", "gone"} : conn' = [conn EXCEPT ![g] = Local(pc, 0)]
      BY <1>3, <2>3 DEF EndBroadcast, GoOn, Goto
    <3>3. conn' \in [Conns -> Conn] /\ \A d \in Conns \ {g} : conn'[d] = conn[d]
      BY <3>1, <3>2, LocalTypes DEF Pcs
    <3>4. At({"enter", "leave"}) \subseteq At({"enter", "leave"})'
          /\ At({"tell"}) \ {g} \subseteq At({"tell"})'
      BY <3>1, <3>3 DEF At
    <3>5. QED BY <2>1, <3>3, <3>4 DEF TypeOK
  <2>4. QED BY <2>2, <2>3
<1>4. QED BY <1>1, <1>2, <1>3 DEF Telling

LEMMA ConnTypes ==
    ASSUME TypeOK, NEW c \in Conns, HandleClientConn(c)
    PROVE  TypeOK'
<1>1. CASE Announce(c) BY <1>1 DEF Announce, TypeOK, At
<1>2. CASE Register(c) \/ Unregister(c)
  <2>1. Changes(c, "count", 0) /\ pending = c /\ pending' = None /\ UNCHANGED <<readers, left, sock>>
    BY <1>2 DEF Register, Unregister, Locked
  <2>2. conn' \in [Conns -> Conn] /\ \A d \in Conns \ {c} : conn'[d].pc = conn[d].pc
    BY <2>1, LocalTypes DEF Pcs
  <2>3. conn[c].pc # "tell" BY <1>2 DEF Register, Unregister
  <2>4. At({"tell"}) \subseteq At({"tell"})' BY <2>2, <2>3 DEF At
  <2>5. clients' \subseteq Conns BY <1>2 DEF Register, Unregister, TypeOK
  <2>6. told' \in [Conns -> Told]
    <3>1. Nothing \in Told BY DEF Nothing, Told
    <3>2. QED BY <1>2, <3>1 DEF Register, Unregister, TypeOK
  <2>7. QED BY <2>1, <2>2, <2>4, <2>5, <2>6 DEF TypeOK
<1>3. CASE Count(c)
  <2>1. Cardinality(clients) \in Nat BY ClientCountIsNat DEF TypeOK
  <2>2. conn' = [conn EXCEPT ![c] = Local("tell", Cardinality(clients))]
    BY <1>3 DEF Count
  <2>3. conn' \in [Conns -> Conn] /\ conn'[c].pc = "tell"
        /\ \A d \in Conns \ {c} : conn'[d] = conn[d]
    BY <2>1, <2>2, LocalTypes DEF Pcs
  <2>4. At({"enter", "leave"}) \subseteq At({"enter", "leave"})'
        /\ At({"tell"}) \subseteq At({"tell"})'
    BY <1>3, <2>3 DEF At, Count
  <2>5. QED BY <1>3, <2>3, <2>4 DEF Count, TypeOK, lockVars
<1>4. CASE Fail(c)
  <2>1. conn' = [conn EXCEPT ![c] = Local("leave", 0)] /\ conn[c].pc = "read"
    BY <1>4 DEF Fail, Goto
  <2>2. conn' \in [Conns -> Conn] /\ \A d \in Conns \ {c} : conn'[d] = conn[d]
    BY <2>1, LocalTypes DEF Pcs
  <2>3. At({"enter", "leave"}) \subseteq At({"enter", "leave"})'
        /\ At({"tell"}) \subseteq At({"tell"})'
    BY <2>1, <2>2 DEF At
  <2>4. QED BY <1>4, <2>2, <2>3 DEF Fail, TypeOK, lockVars
<1>5. c \in Goroutines BY DEF Goroutines
<1>6. QED BY <1>1, <1>2, <1>3, <1>4, <1>5, TellingTypes DEF HandleClientConn

LEMMA TypeInit == Init => TypeOK
<1> SUFFICES ASSUME Init PROVE TypeOK
  OBVIOUS
<1>1. Local("out", 0) \in Conn BY DEF Local, Conn, Pcs
<1>2. [frames |-> 0, alive |-> TRUE] \in Socket BY HubBounds DEF Socket
<1>3. Nothing \in Told BY DEF Nothing, Told
<1>4. QED BY <1>1, <1>2, <1>3 DEF Init, TypeOK

LEMMA TypeStep == TypeOK /\ [Next]_vars => TypeOK'
<1>1. TypeOK /\ UNCHANGED vars => TypeOK' BY DEF TypeOK, vars, lockVars, At
<1>2. Casters \subseteq Goroutines BY DEF Goroutines
<1>3. QED BY <1>1, <1>2, ClientTypes, ConnTypes, TellingTypes DEF Next

\* The lock, the map and the goroutines are well typed in every reachable state: who has
\* announced itself is a goroutine that wants to write, and who reads is one that tells.
THEOREM TypeCorrect == Spec => []TypeOK
BY TypeInit, TypeStep, PTL DEF Spec
-----------------------------------------------------------------------------
(* What the clients are told *)

\* Connection d is going to tell client c how many there are.
WillTell(d, c) == \/ conn[d].pc = "count"
                  \/ conn[d].pc = "tell" /\ (d \in readers => c \in left[d])

\* CountsSettle is not inductive: who is about to tell has to know the number, unless
\* clients has changed since it counted; and whoever was told something else is still to
\* be told by somebody.
CountsKnown == \A d \in At({"tell"}) : conn[d].count = Cardinality(clients) \/ conn[d].late

Informed(c) == told[c].count = Cardinality(clients) \/ told[c].late

EveryoneInformed == \A c \in clients : Informed(c) \/ \E d \in Conns : WillTell(d, c)

CountsInv == TypeOK /\ CountsKnown /\ EveryoneInformed

\* A step that changes no client, and nobody's number, and of those who tell only ends
\* the broadcast of one that has told everyone.
LEMMA InformedKept ==
    ASSUME CountsInv, UNCHANGED <<clients, told>>,
           \A d \in Conns : conn'[d].pc = "tell" => conn'[d] = conn[d],
           \A c \in clients, d \in Conns : WillTell(d, c) => WillTell(d, c)'
    PROVE  CountsKnown' /\ EveryoneInformed'
BY DEF CountsInv, CountsKnown, EveryoneInformed, Informed, At

\* Coming and going makes every count old that is about to be told, and a new one due.
LEMMA ChangesInform ==
    ASSUME CountsInv, NEW c \in Conns, Register(c) \/ Unregister(c)
    PROVE  CountsKnown' /\ EveryoneInformed'
<1>1. Changes(c, "count", 0) BY DEF Register, Unregister
<1>2. /\ conn'[c].pc = "count"
      /\ \A d \in Conns \ {c} : /\ conn'[d].pc = conn[d].pc
                                /\ conn[d].pc = "tell" => conn'[d].late
  BY <1>1, LocalTypes DEF CountsInv, Pcs
<1>3. CountsKnown' BY <1>2 DEF CountsKnown, At
<1>4. \A d : WillTell(c, d)' BY <1>2 DEF WillTell
<1>5. QED BY <1>3, <1>4 DEF EveryoneInformed

LEMMA CountInforms ==
    ASSUME CountsInv, NEW c \in Conns, Count(c)
    PROVE  CountsKnown' /\ EveryoneInformed'
<1>1. conn' = [conn EXCEPT ![c] = Local("tell", Cardinality(clients))]
      /\ UNCHANGED <<lockVars, sock, told>> /\ conn[c].pc = "count"
  BY DEF Count
<1>2. /\ conn'[c].pc = "tell" /\ conn'[c].count = Cardinality(clients)
      /\ \A d \in Conns \ {c} : conn'[d] = conn[d]
  <2>1. TypeOK /\ "tell" \in Pcs BY DEF CountsInv, Pcs
  <2>2. Cardinality(clients) \in Nat BY <2>1, ClientCountIsNat DEF TypeOK
  <2>3. QED BY <1>1, <2>1, <2>2, GoesTo
<1>3. c \notin readers
  <2>1. c \notin Casters /\ c \notin At({"tell"}) BY <1>1, HubNames DEF At
  <2>2. QED BY <2>1 DEF CountsInv, TypeOK
<1>4. CountsKnown' BY <1>1, <1>2 DEF CountsInv, CountsKnown, At, lockVars
<1>5. \A e : \A d \in Conns : WillTell(d, e) => WillTell(d, e)'
  BY <1>1, <1>2, <1>3 DEF WillTell, lockVars
<1>6. QED BY <1>1, <1>4, <1>5 DEF CountsInv, EveryoneInformed, Informed, lockVars

\* Who is told by a connection is told what that connection knows.
LEMMA BroadcastInforms ==
    ASSUME CountsInv, NEW g \in Goroutines, NEW c \in Conns, Broadcast(g, c)
    PROVE  CountsKnown' /\ EveryoneInformed'
<1>1. /\ UNCHANGED <<clients, readers, conn>> /\ g \in readers
      /\ left' = [left EXCEPT ![g] = @ \ {c}]
      /\ told' = IF g \in Casters THEN told
                 ELSE [told EXCEPT ![c] = [count |-> conn[g].count, late |-> conn[g].late]]
  BY DEF Broadcast
<1>2. CountsKnown' BY <1>1 DEF CountsInv, CountsKnown, At
<1>3. \A d \in Conns, e \in Conns : WillTell(d, e) /\ (d = g => e # c) => WillTell(d, e)'
  <2>1. \A d \in Conns, e \in Conns : e \in left[d] /\ (d = g => e # c) => e \in left'[d]
    BY <1>1 DEF CountsInv, TypeOK, Goroutines
  <2>2. QED BY <1>1, <2>1 DEF WillTell
<1>4. CASE g \in Casters
  <2>1. g \notin Conns BY <1>4, HubNames
  <2>2. QED
    BY <1>1, <1>2, <1>3, <1>4, <2>1 DEF CountsInv, TypeOK, EveryoneInformed, Informed
<1>5. CASE g \notin Casters
  <2>1. g \in At({"tell"}) BY <1>1, <1>5 DEF CountsInv, TypeOK
  <2>2. conn[g].count = Cardinality(clients) \/ conn[g].late
    BY <2>1 DEF CountsInv, CountsKnown
  <2>3. told'[c] = [count |-> conn[g].count, late |-> conn[g].late]
        /\ \A e \in Conns \ {c} : told'[e] = told[e]
    BY <1>1, <1>5 DEF CountsInv, TypeOK
  <2>4. Informed(c)' BY <1>1, <2>2, <2>3 DEF Informed
  <2>5. ASSUME NEW e \in clients, e # c PROVE Informed(e)' \/ \E d \in Conns : WillTell(d, e)'
    <3>1. e \in Conns BY DEF CountsInv, TypeOK
    <3>2. Informed(e) => Informed(e)' BY <1>1, <2>3, <2>5, <3>1 DEF Informed
    <3>3. QED BY <1>3, <2>5, <3>1, <3>2 DEF CountsInv, EveryoneInformed
  <2>6. QED BY <1>1, <1>2, <2>4, <2>5 DEF EveryoneInformed
<1>6. QED BY <1>4, <1>5

LEMMA CountsStep ==
    ASSUME CountsInv, [Next]_vars
    PROVE  CountsKnown' /\ EveryoneInformed'
<1> DEFINE Good == CountsKnown' /\ EveryoneInformed'
<1>0. TypeOK BY DEF CountsInv
<1>1. ASSUME NEW g \in Goroutines, StartBroadcast(g) PROVE Good
  <2>1. /\ UNCHANGED <<clients, conn, told>> /\ readers' = readers \cup {g}
        /\ left' = [left EXCEPT ![g] = clients] /\ g \notin readers
    BY <1>1 DEF StartBroadcast
  <2>2. \A c \in clients, d \in Conns : WillTell(d, c) => WillTell(d, c)'
    BY <1>0, <2>1 DEF WillTell, TypeOK, Goroutines
  <2>3. QED BY <2>1, <2>2, InformedKept
<1>2. ASSUME NEW g \in Goroutines, EndBroadcast(g) PROVE Good
  <2>1. /\ UNCHANGED <<clients, left, told>> /\ readers' = readers \ {g} /\ left[g] = {}
        /\ g \in readers
    BY <1>2 DEF EndBroadcast
  <2>2. CASE g \in Casters
    <3>1. conn' = conn /\ g \notin Conns BY <1>2, <2>2, HubNames DEF EndBroadcast
    <3>2. \A c \in clients, d \in Conns : WillTell(d, c) => WillTell(d, c)'
      BY <2>1, <3>1 DEF WillTell
    <3>3. QED BY <2>1, <3>1, <3>2, InformedKept
  <2>3. CASE g \notin Casters
    <3>1. g \in Conns /\ conn[g].pc = "tell"
      BY <1>0, <2>1, <2>3 DEF TypeOK, At
    <3>2. PICK pc \in {"read", "gone"} : conn' = [conn EXCEPT ![g] = Local(pc, 0)]
      BY <1>2, <2>3 DEF EndBroadcast, GoOn, Goto
    <3>3. conn'[g].pc = pc /\ \A d \in Conns \ {g} : conn'[d] = conn[d]
      <4>1. pc \in Pcs BY DEF Pcs
      <4>2. QED BY <1>0, <3>1, <3>2, <4>1, GoesTo
    <3>4. \A c : ~ WillTell(g, c) BY <2>1, <3>1 DEF WillTell
    <3>5. \A c \in clients, d \in Conns : WillTell(d, c) => WillTell(d, c)'
      BY <2>1, <3>3, <3>4 DEF WillTell
    <3>6. QED BY <2>1, <3>3, <3>5, InformedKept
  <2>4. QED BY <2>2, <2>3
<1>3. ASSUME NEW c \in Conns, Connect(c) \/ Fail(c) PROVE Good
  <2>1. UNCHANGED <<lockVars, told>> /\ conn[c].pc \notin {"tell", "count"}
    BY <1>3 DEF Connect, Fail
  <2>2. conn'[c].pc \in {"enter", "leave"} /\ \A d \in Conns \ {c} : conn'[d] = conn[d]
    <3>1. PICK pc \in {"enter", "leave"} : conn' = [conn EXCEPT ![c] = Local(pc, 0)]
      BY <1>3 DEF Connect, Fail, Goto
    <3>2. pc \in Pcs BY DEF Pcs
    <3>3. QED BY <1>0, <3>1, <3>2, GoesTo
  <2>3. \A e \in clients, d \in Conns : WillTell(d, e) => WillTell(d, e)'
    BY <2>1, <2>2 DEF WillTell, lockVars
  <2>4. QED BY <2>1, <2>2, <2>3, InformedKept DEF lockVars
<1>4. CASE UNCHANGED <<clients, readers, left, conn, told>>
  BY <1>4 DEF CountsInv, CountsKnown, EveryoneInformed, Informed, WillTell, At
<1>5. QED
  BY <1>1, <1>2, <1>3, <1>4, ChangesInform, CountInforms, BroadcastInforms
     DEF Next, Client, HandleClientConn, Telling, Goroutines, Drain, Break, Answer, Announce,
         vars, lockVars

\* When every announcement has been made, each client knows how many are connected, or was
\* told last by one that had counted before others came or left: whoever broadcasts,
\* breaks or waits for the lock in between.
THEOREM CountsDoSettle == Spec => []CountsSettle
<1>1. Init => CountsInv
  BY TypeInit DEF Init, CountsInv, CountsKnown, EveryoneInformed, At, Local
<1>2. CountsInv /\ [Next]_vars => CountsInv'
  BY TypeStep, CountsStep DEF CountsInv
<1>3. CountsInv => CountsSettle
  <2>1. \A c : \A d \in Conns : WillTell(d, c) => d \in At({"count", "tell"})
    BY DEF WillTell, At
  <2>2. QED BY <2>1 DEF CountsInv, EveryoneInformed, Informed, CountsSettle
<1>4. QED BY <1>1, <1>2, <1>3, PTL DEF Spec
=============================================================================
