---------------------------------- MODULE Bus ----------------------------------
(***************************************************************************)
(* Bus trips and their seats: pkg/services/bus_service.go over the          *)
(* statements of pkg/repository/bus_repository.go, with the cache of the    *)
(* list of trips (bus:trips:all, 5 minutes) and of the seats of each trip   *)
(* (bus:{trip}:seats, 1 second).                                            *)
(*                                                                         *)
(* The tables are concrete; reads, evictions and failures are the steps of  *)
(* CacheAside, run on what the SELECTs of the two pages return from these   *)
(* tables.  A statement is atomic: two reservations of one seat meet at its *)
(* row, and the second finds user_id set.  The name and the times of a trip *)
(* are left out, so an update that changes no is_completed only evicts.     *)
(* The table of contacts, bus_profiles, is on its own and is left out.      *)
(***************************************************************************)
EXTENDS Naturals

CONSTANTS Trips,      \* the ids an administrator may give to a trip
          Users,      \* accounts that may reserve
          NoUser,     \* user_id IS NULL
          MaxSeats,   \* bound on the total_seats of a trip
          AllTrips,   \* the key bus:trips:all; the key of the seats of t is t
          Procs, None

ASSUME SeatsAssumption == MaxSeats \in Nat
ASSUME NamesAssumption == NoUser \notin Users /\ AllTrips \notin Trips

VARIABLES trips,   \* table bus_trips
          seats,   \* table bus_seats
          opened,  \* trips that a transaction of CreateTrip has inserted and not committed
          cache, req

vars == <<trips, seats, opened, cache, req>>

TripRow == [id : Trips, total : 1 .. MaxSeats, completed : BOOLEAN]

SeatRow == [trip : Trips, number : 1 .. MaxSeats, holder : Users \cup {NoUser}]

SeatsOf(t) == {s \in seats : s.trip = t}

Ids(rows) == {r.id : r \in rows}

-----------------------------------------------------------------------------
(* The pages that are cached, and the writes that change them *)

Keys == Trips \cup {AllTrips}

\* What ListTrips and ListSeats return now.
Pages == [k \in Keys |-> IF k = AllTrips THEN trips ELSE SeatsOf(k)]

Mutation(op, t, u) == [op |-> op, trip |-> t, user |-> u]

\* The writes of administrators are nobody's, those of passengers name their account.
Writes ==
    {Mutation(op, t, NoUser) : op \in {"create", "update", "delete"}, t \in Trips} \cup
    {Mutation(op, t, u) : op \in {"reserve", "cancel"}, t \in Trips, u \in Users}

MayTouch(w) == CASE w.op \in {"create", "delete"} -> {AllTrips, w.trip}
                 [] w.op = "update" -> {AllTrips}
                 [] OTHER -> {w.trip}

\* Mutated form: the deletion of a trip forgets the map of its seats.
EvictedOnlyList(w) == IF w.op \in {"reserve", "cancel"} THEN {w.trip} ELSE {AllTrips}

\* CreateTrip does not evict the seats of its id, which were read as none before.
Evicted(w) == CASE w.op = "create" -> {AllTrips}
                [] w.op \in {"update", "delete"} -> {AllTrips, w.trip}
                [] OTHER -> {w.trip}

PageValues == (SUBSET TripRow) \cup (SUBSET SeatRow)

ASSUME NoneIsNothing == None \notin Keys \cup Writes /\ \A v \in PageValues : v # None

Touched == [w \in Writes |-> MayTouch(w)]
Named == [w \in Writes |-> Evicted(w)]
Matched == [w \in Writes |-> {}]

Aside == INSTANCE CacheAside WITH
    db <- Pages, Values <- PageValues, Touches <- Touched, Dels <- Named, Scans <- Matched,
    Outside <- {}

Init == /\ trips = {} /\ seats = {} /\ opened = {}
        /\ Aside!Init

-----------------------------------------------------------------------------
(* Trips *)

\* Mutated form: the two inserts are not one transaction.
OpenTripAlone(t, n) ==
    /\ t \notin Ids(trips \cup opened)
    /\ LET trip == [id |-> t, total |-> n, completed |-> FALSE]
       IN opened' = opened \cup {trip} /\ trips' = trips \cup {trip}
    /\ UNCHANGED <<seats, cache, req>>

\* BEGIN and the INSERT of the trip.  One of the same id fails, or waits for this
\* transaction to end.
OpenTrip(t, n) ==
    /\ t \notin Ids(trips \cup opened)
    /\ opened' = opened \cup {[id |-> t, total |-> n, completed |-> FALSE]}
    /\ UNCHANGED <<trips, seats, cache, req>>

\* Mutated form: the series of seat numbers starts at 0.
CommitTripFromZero(p, trip) ==
    /\ opened' = opened \ {trip}
    /\ trips' = trips \cup {trip}
    /\ seats' = seats \cup [trip : {trip.id}, number : 0 .. trip.total, holder : {NoUser}]
    /\ Aside!OwesEvictions(p, Mutation("create", trip.id, NoUser))

\* The INSERT of the seats 1 .. total, and COMMIT.
CommitTrip(p, trip) ==
    /\ opened' = opened \ {trip}
    /\ trips' = trips \cup {trip}
    /\ seats' = seats \cup [trip : {trip.id}, number : 1 .. trip.total, holder : {NoUser}]
    /\ Aside!OwesEvictions(p, Mutation("create", trip.id, NoUser))

\* An insert or the COMMIT failed, or the server stopped.
RollbackTrip(trip) ==
    /\ opened' = opened \ {trip}
    /\ UNCHANGED <<trips, seats, cache, req>>

\* is_completed can be set and unset; an id that is not there changes no row and is
\* no error.
UpdateTrip(p, t, completed) ==
    /\ trips' = {IF r.id = t THEN [r EXCEPT !.completed = completed] ELSE r : r \in trips}
    /\ Aside!OwesEvictions(p, Mutation("update", t, NoUser))
    /\ UNCHANGED <<seats, opened>>

\* The seats go by ON DELETE CASCADE.
DeleteTrip(p, t) ==
    /\ trips' = {r \in trips : r.id # t}
    /\ seats' = seats \ SeatsOf(t)
    /\ Aside!OwesEvictions(p, Mutation("delete", t, NoUser))
    /\ UNCHANGED opened

-----------------------------------------------------------------------------
(* Seats *)

SetHolder(s, u) == seats' = (seats \ {s}) \cup {[s EXCEPT !.holder = u]}

\* Mutated form: AND user_id IS NULL is missing.
ReserveAnySeat(p, u, s) ==
    /\ \E r \in trips : r.id = s.trip /\ ~ r.completed
    /\ SetHolder(s, u)
    /\ Aside!OwesEvictions(p, Mutation("reserve", s.trip, u))
    /\ UNCHANGED <<trips, opened>>

\* Mutated form: the reservation completes the trip.
ReserveAndComplete(p, u, s) ==
    /\ s.holder = NoUser
    /\ \E r \in trips : r.id = s.trip /\ ~ r.completed
    /\ SetHolder(s, u)
    /\ Aside!OwesEvictions(p, Mutation("reserve", s.trip, u))
    /\ trips' = {IF r.id = s.trip THEN [r EXCEPT !.completed = TRUE] ELSE r : r \in trips}
    /\ UNCHANGED opened

\* An UPDATE that finds no row answers 409 and evicts nothing.
Reserve(p, u, s) ==
    /\ s.holder = NoUser
    /\ \E r \in trips : r.id = s.trip /\ ~ r.completed
    /\ SetHolder(s, u)
    /\ Aside!OwesEvictions(p, Mutation("reserve", s.trip, u))
    /\ UNCHANGED <<trips, opened>>

\* Mutated form: AND user_id = $3 is missing.
CancelAnySeat(p, u, s) ==
    /\ s.holder # NoUser
    /\ SetHolder(s, NoUser)
    /\ Aside!OwesEvictions(p, Mutation("cancel", s.trip, u))
    /\ UNCHANGED <<trips, opened>>

Cancel(p, u, s) ==
    /\ s.holder = u
    /\ SetHolder(s, NoUser)
    /\ Aside!OwesEvictions(p, Mutation("cancel", s.trip, u))
    /\ UNCHANGED <<trips, opened>>

-----------------------------------------------------------------------------
(* ListTrips and GetSeats, evictions, and the TTL of the two pages *)

\* Nobody looks at rows.Err: a page of which only the first rows arrived is stored.
FirstRows(k) == IF k = AllTrips THEN (SUBSET trips) \ {trips}
                ELSE {{s \in SeatsOf(k) : s.number < n} : n \in {s.number : s \in SeatsOf(k)}}

SelectSome(p) ==
    /\ req[p].pc = "select"
    /\ \E v \in FirstRows(req[p].key) : Aside!SelectPart(p, v)

CacheStep ==
    /\ UNCHANGED <<trips, seats, opened>>
    /\ \/ \E p \in Procs : Aside!Read(p) \/ SelectSome(p) \/ Aside!Evict(p)
       \/ \E k \in Keys : Aside!Expire(k)

Next ==
    \/ \E t \in Trips, n \in 1 .. MaxSeats : OpenTrip(t, n)
    \/ \E trip \in opened : RollbackTrip(trip) \/ \E p \in Procs : CommitTrip(p, trip)
    \/ \E p \in Procs :
          \/ \E t \in Trips : DeleteTrip(p, t) \/ \E c \in BOOLEAN : UpdateTrip(p, t, c)
          \/ \E s \in seats, u \in Users : Reserve(p, u, s) \/ Cancel(p, u, s)
    \/ CacheStep

Spec == Init /\ [][Next]_vars

-----------------------------------------------------------------------------
(* Properties *)

\* The tables hold rows of their columns, and the cache and the requests what
\* CacheAside says of them.
TypeOK ==
    /\ trips \subseteq TripRow
    /\ opened \subseteq TripRow
    /\ seats \subseteq SeatRow
    /\ Aside!TypeOK

\* A trip that anybody can see has each of its seats once, and a seat has its trip:
\* the creation is all or nothing, whatever fails (CreateTrip, lines 66-94).
SeatsComplete ==
    /\ \A r, q \in trips : r.id = q.id => r = q
    /\ \A r \in trips : {s.number : s \in SeatsOf(r.id)} = 1 .. r.total
    /\ \A s, q \in seats : s.trip = q.trip /\ s.number = q.number => s = q
    /\ \A s \in seats : s.trip \in Ids(trips)

\* A request starts, and its first statement is that of w.
Started(w) == \E p \in Procs : req[p] = Aside!Idle /\ req'[p].op = w

\* Whoever holds a seat keeps it until they cancel it themselves or the trip is deleted:
\* nobody takes it over or gives it up for them, whatever the cached map showed; and a
\* free seat goes to whoever asked for it, on a trip that is not completed (ReserveSeat,
\* CancelSeat).
HolderKeepsSeat ==
    [][\A s \in seats :
          \/ s \in seats'
          \/ s.trip \notin Ids(trips')
          \/ /\ s.holder # NoUser
             /\ [s EXCEPT !.holder = NoUser] \in seats'
             /\ Started(Mutation("cancel", s.trip, s.holder))
          \/ /\ s.holder = NoUser
             /\ \E r \in trips : r.id = s.trip /\ ~ r.completed
             /\ \E u \in Users : /\ [s EXCEPT !.holder = u] \in seats'
                               /\ Started(Mutation("reserve", s.trip, u))]_vars

\* The list of trips, and the map of the seats of a trip, are stale only while a
\* request is about to evict them, or if an eviction was lost, or a read was overtaken or
\* got only some of the rows; and the map may still be the empty one of a trip that was
\* not there yet (CreateTrip evicts the list only, lines 71-73).
TripPagesHaveCause ==
    \A k \in Keys : Aside!HasCause(k) \/ (k \in Trips /\ cache[k].value = {})

\* The statements change no page but those that their handlers are taken to touch:
\* the bus service is an instance of CacheAside.
ImplementsCacheAside == Aside!Spec
=============================================================================
