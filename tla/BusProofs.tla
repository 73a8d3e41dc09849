------------------------------ MODULE BusProofs ------------------------------
(***************************************************************************)
(* Theorems about Bus.tla, for any trips, accounts and seats, and any       *)
(* number of requests in flight.                                            *)
(***************************************************************************)
EXTENDS Bus, TLAPS

\* What is proved of CacheAside, of the pages of the bus service.
Proved == INSTANCE CacheAsideProofs WITH
    db <- Pages, Values <- PageValues, Touches <- Touched, Dels <- Named, Scans <- Matched,
    Outside <- {}

-----------------------------------------------------------------------------
(* The pages satisfy the assumptions of CacheAside *)

LEMMA WritesAre ==
    ASSUME NEW w \in Writes
    PROVE  w.op \in {"create", "update", "delete", "reserve", "cancel"} /\ w.trip \in Trips
BY DEF Writes, Mutation

LEMMA WritesAssumed == Proved!WritesAssumption
<1>1. ASSUME NEW w \in Writes
      PROVE  MayTouch(w) \in SUBSET Keys /\ Evicted(w) \in SUBSET Keys
  BY WritesAre DEF MayTouch, Evicted, Keys
<1>2. QED BY <1>1 DEF Proved!WritesAssumption, Touched, Named, Matched

LEMMA NoneAssumed == Proved!NoneAssumption
BY NoneIsNothing DEF Proved!NoneAssumption

-----------------------------------------------------------------------------
(* The same definitions, of Bus and of this module *)

LEMMA SameState ==
    /\ Aside!Idle = Proved!Idle
    /\ Aside!vars = Proved!vars
    /\ Aside!TypeOK <=> Proved!TypeOK
    /\ \A p : Aside!Pending(p) = Proved!Pending(p)
    /\ \A k : Aside!HasCause(k) <=> Proved!HasCause(k)
BY DEF Aside!Idle, Aside!Reading, Aside!vars, Aside!TypeOK, Aside!Entry, Aside!Request,
       Aside!Pending, Aside!HasCause, Aside!Stale, Proved!Idle, Proved!Reading, Proved!vars,
       Proved!TypeOK, Proved!Entry, Proved!Request, Proved!Pending, Proved!HasCause,
       Proved!Stale

LEMMA SameSteps ==
    ASSUME NEW p
    PROVE  /\ Aside!Read(p) <=> Proved!Read(p)
           /\ Aside!ReadPart(p) <=> Proved!ReadPart(p)
           /\ Aside!Evict(p) <=> Proved!Evict(p)
           /\ \A k : Aside!Expire(k) <=> Proved!Expire(k)
           /\ \A w : Aside!OwesEvictions(p, w) <=> Proved!OwesEvictions(p, w)
<1>1. Aside!Read(p) <=> Proved!Read(p)
  BY DEF Aside!Read, Aside!Get, Aside!Select, Aside!Set, Aside!GiveUp, Aside!Reading,
         Aside!Idle, Aside!Become, Aside!CauseOf, Proved!Read, Proved!Get, Proved!Select,
         Proved!Set, Proved!GiveUp, Proved!Reading, Proved!Idle, Proved!Become, Proved!CauseOf
<1>2. Aside!Evict(p) <=> Proved!Evict(p)
  BY DEF Aside!Evict, Aside!Del, Aside!Scan, Aside!Exec, Aside!Miss, Aside!Finish,
         Aside!Pending, Aside!Writing, Aside!Become, Aside!Idle, Aside!Reading,
         Proved!Evict, Proved!Del, Proved!Scan, Proved!Exec, Proved!Miss, Proved!Finish,
         Proved!Pending, Proved!Writing, Proved!Become, Proved!Idle, Proved!Reading
<1>3. \A k : Aside!Expire(k) <=> Proved!Expire(k)
  BY DEF Aside!Expire, Proved!Expire
<1>4. \A w : Aside!OwesEvictions(p, w) <=> Proved!OwesEvictions(p, w)
  BY DEF Aside!OwesEvictions, Aside!Idle, Aside!Reading, Aside!Writing, Aside!Become,
         Proved!OwesEvictions, Proved!Idle, Proved!Reading, Proved!Writing, Proved!Become
<1>5. Aside!ReadPart(p) <=> Proved!ReadPart(p)
  BY DEF Aside!ReadPart, Aside!SelectPart, Aside!Reading, Aside!Become,
         Proved!ReadPart, Proved!SelectPart, Proved!Reading, Proved!Become
<1>6. QED BY <1>1, <1>2, <1>3, <1>4, <1>5
-----------------------------------------------------------------------------
(* What the statements do to the tables *)

\* The trips that are being created are new, each of them once.
Opening == /\ \A r, q \in opened : r.id = q.id => r = q
           /\ \A r \in opened, q \in trips : r.id # q.id

Tables == trips \subseteq TripRow /\ opened \subseteq TripRow /\ seats \subseteq SeatRow

\* The pages are lists of rows, and change only where the handler is taken to touch them.
Changed(w) == /\ Pages' \in [Keys -> PageValues]
              /\ \A k \in Keys \ Touched[w] : Pages'[k] = Pages[k]

TablesInv == Tables /\ SeatsComplete /\ Opening

LEMMA PagesTyped == Tables => Pages \in [Keys -> PageValues]
<1> SUFFICES ASSUME Tables, NEW k \in Keys
             PROVE  (IF k = AllTrips THEN trips ELSE SeatsOf(k)) \in PageValues
  BY DEF Pages
<1>1. SeatsOf(k) \subseteq SeatRow BY DEF Tables, SeatsOf
<1>2. QED BY <1>1 DEF PageValues, Tables

\* A page other than the two that w touches shows rows that stayed as they were.
LEMMA OnlyTouched ==
    ASSUME Tables', NEW w \in Writes,
           w.op \in {"reserve", "cancel"} => trips' = trips,
           \A t \in Trips : (t = w.trip /\ w.op # "update") \/ SeatsOf(t)' = SeatsOf(t)
    PROVE  Changed(w)
<1>1. Pages' \in [Keys -> PageValues]
  <2>1. \A k \in Keys : (IF k = AllTrips THEN trips' ELSE SeatsOf(k)') \in PageValues
    BY DEF Tables, SeatsOf, PageValues
  <2>2. QED BY <2>1 DEF Pages
<1>2. ASSUME NEW k \in Keys, k \notin MayTouch(w) PROVE Pages'[k] = Pages[k]
  <2>1. w.op \in {"create", "update", "delete", "reserve", "cancel"} BY WritesAre
  <2>2. CASE k = AllTrips
    BY <1>2, <2>1, <2>2 DEF MayTouch, Pages
  <2>3. CASE k # AllTrips
    <3>1. k \in Trips BY <2>3 DEF Keys
    <3>2. ~ (k = w.trip /\ w.op # "update") BY <1>2, <2>1 DEF MayTouch
    <3>3. SeatsOf(k)' = SeatsOf(k) BY <3>1, <3>2
    <3>4. QED BY <2>3, <3>3 DEF Pages
  <2>4. QED BY <2>2, <2>3
<1>3. Touched[w] = MayTouch(w) BY DEF Touched
<1>4. QED BY <1>1, <1>2, <1>3 DEF Changed

LEMMA MutationsAreWrites ==
    ASSUME NEW op \in {"create", "update", "delete", "reserve", "cancel"}, NEW t \in Trips,
           NEW u, IF op \in {"reserve", "cancel"} THEN u \in Users ELSE u = NoUser
    PROVE  /\ Mutation(op, t, u) \in Writes
           /\ Mutation(op, t, u).op = op /\ Mutation(op, t, u).trip = t
BY DEF Writes, Mutation

LEMMA CommitTables ==
    ASSUME TablesInv, NEW trip \in opened, NEW p, CommitTrip(p, trip)
    PROVE  TablesInv' /\ Changed(Mutation("create", trip.id, NoUser))
<1> DEFINE new == [trip : {trip.id}, number : 1 .. trip.total, holder : {NoUser}]
<1>1. /\ opened' = opened \ {trip} /\ trips' = trips \cup {trip} /\ seats' = seats \cup new
  BY DEF CommitTrip
<1>2. trip \in TripRow /\ trip.id \in Trips /\ trip.total \in 1 .. MaxSeats
  BY DEF TablesInv, Tables, TripRow
<1>3. \A s \in new : s.trip = trip.id /\ s.number \in 1 .. trip.total /\ s.holder = NoUser
  OBVIOUS
<1>4. new \subseteq SeatRow BY <1>2, SeatsAssumption DEF SeatRow
<1>5. Tables' BY <1>1, <1>2, <1>4 DEF TablesInv, Tables
<1>6. \A r \in trips : r.id # trip.id BY DEF TablesInv, Opening
<1>7. \A s \in seats : s.trip # trip.id
  BY <1>6 DEF TablesInv, SeatsComplete, Ids
<1>8. \A t : t # trip.id => SeatsOf(t)' = SeatsOf(t)
  BY <1>1, <1>3 DEF SeatsOf
<1>9. SeatsOf(trip.id)' = new
  BY <1>1, <1>3, <1>7 DEF SeatsOf
<1>10. SeatsComplete'
  <2>1. \A r, q \in trips' : r.id = q.id => r = q
    BY <1>1, <1>6 DEF TablesInv, SeatsComplete
  <2>2. ASSUME NEW r \in trips' PROVE {s.number : s \in SeatsOf(r.id)}' = 1 .. r.total
    <3>1. CASE r = trip
      <4>1. ASSUME NEW n \in 1 .. trip.total PROVE \E s \in new : s.number = n
        <5>1. [trip |-> trip.id, number |-> n, holder |-> NoUser] \in new OBVIOUS
        <5>2. [trip |-> trip.id, number |-> n, holder |-> NoUser].number = n OBVIOUS
        <5>3. QED BY <5>1, <5>2
      <4>2. {s.number : s \in new} = 1 .. trip.total
        <5> HIDE DEF new
        <5>1. QED BY <1>3, <4>1
      <4>3. QED BY <1>9, <3>1, <4>2
    <3>2. CASE r \in trips
      BY <1>6, <1>8, <3>2 DEF TablesInv, SeatsComplete
    <3>3. QED BY <1>1, <3>1, <3>2
  <2>3. \A s, q \in seats' : s.trip = q.trip /\ s.number = q.number => s = q
    <3>1. \A s, q \in new : s.number = q.number => s = q OBVIOUS
    <3>2. QED BY <1>1, <1>3, <1>7, <3>1 DEF TablesInv, SeatsComplete
  <2>4. \A s \in seats' : s.trip \in Ids(trips')
    BY <1>1, <1>3 DEF TablesInv, SeatsComplete, Ids
  <2>5. QED BY <2>1, <2>2, <2>3, <2>4 DEF SeatsComplete, Ids
<1>11. Opening'
  BY <1>1 DEF TablesInv, Opening
<1>12. Changed(Mutation("create", trip.id, NoUser))
  BY <1>2, <1>5, <1>8, MutationsAreWrites, OnlyTouched
<1>13. QED BY <1>5, <1>10, <1>11, <1>12 DEF TablesInv

LEMMA UpdateTables ==
    ASSUME TablesInv, NEW t \in Trips, NEW c \in BOOLEAN, NEW p, UpdateTrip(p, t, c)
    PROVE  TablesInv' /\ Changed(Mutation("update", t, NoUser))
<1>1. /\ trips' = {IF r.id = t THEN [r EXCEPT !.completed = c] ELSE r : r \in trips}
      /\ seats' = seats /\ opened' = opened
  BY DEF UpdateTrip
<1>2. \A r \in trips : /\ r \in TripRow /\ [r EXCEPT !.completed = c] \in TripRow
                       /\ [r EXCEPT !.completed = c].id = r.id
                       /\ [r EXCEPT !.completed = c].total = r.total
  BY DEF TablesInv, Tables, TripRow
<1> DEFINE new(r) == IF r.id = t THEN [r EXCEPT !.completed = c] ELSE r
<1>3. \A r \in trips : new(r) \in TripRow /\ new(r).id = r.id /\ new(r).total = r.total
  BY <1>2
<1>4. trips' = {new(r) : r \in trips} BY <1>1
<1> HIDE DEF new
<1>5. Tables' BY <1>1, <1>3, <1>4 DEF TablesInv, Tables
<1>6. \A k : SeatsOf(k)' = SeatsOf(k) BY <1>1 DEF SeatsOf
<1>7. SeatsComplete'
  <2>1. \A r, q \in trips' : r.id = q.id => r = q
    BY <1>3, <1>4 DEF TablesInv, SeatsComplete
  <2>2. \A r \in trips' : {s.number : s \in SeatsOf(r.id)}' = 1 .. r.total
    BY <1>3, <1>4, <1>6 DEF TablesInv, SeatsComplete
  <2>3. \A s \in seats' : s.trip \in Ids(trips')
    BY <1>1, <1>3, <1>4 DEF TablesInv, SeatsComplete, Ids
  <2>4. QED BY <1>1, <2>1, <2>2, <2>3 DEF TablesInv, SeatsComplete, Ids
<1>8. Opening' BY <1>1, <1>3, <1>4 DEF TablesInv, Opening
<1>9. Changed(Mutation("update", t, NoUser))
  BY <1>5, <1>6, MutationsAreWrites, OnlyTouched
<1>10. QED BY <1>5, <1>7, <1>8, <1>9 DEF TablesInv

LEMMA DeleteTables ==
    ASSUME TablesInv, NEW t \in Trips, NEW p, DeleteTrip(p, t)
    PROVE  TablesInv' /\ Changed(Mutation("delete", t, NoUser))
<1>1. trips' = {r \in trips : r.id # t} /\ seats' = seats \ SeatsOf(t) /\ opened' = opened
  BY DEF DeleteTrip
<1>2. Tables' BY <1>1 DEF TablesInv, Tables
<1>3. \A k : k # t => SeatsOf(k)' = SeatsOf(k) BY <1>1 DEF SeatsOf
<1>4. SeatsComplete'
  <2>1. \A r \in trips' : {s.number : s \in SeatsOf(r.id)}' = 1 .. r.total
    BY <1>1, <1>3 DEF TablesInv, SeatsComplete
  <2>2. \A s \in seats' : s.trip \in Ids(trips')
    BY <1>1 DEF TablesInv, SeatsComplete, Ids, SeatsOf
  <2>3. QED BY <1>1, <2>1, <2>2 DEF TablesInv, SeatsComplete, Ids
<1>5. Opening' BY <1>1 DEF TablesInv, Opening
<1>6. Changed(Mutation("delete", t, NoUser))
  BY <1>2, <1>3, MutationsAreWrites, OnlyTouched
<1>7. QED BY <1>2, <1>4, <1>5, <1>6 DEF TablesInv

\* A seat changes hands, and nothing else changes.
LEMMA SeatTables ==
    ASSUME TablesInv, NEW s \in seats, NEW u \in Users \cup {NoUser}, SetHolder(s, u),
           trips' = trips, opened' = opened,
           NEW w \in Writes, w.op \in {"reserve", "cancel"}, w.trip = s.trip
    PROVE  TablesInv' /\ Changed(w)
<1> DEFINE x == [s EXCEPT !.holder = u]
<1>1. s \in SeatRow /\ s.trip \in Trips BY DEF TablesInv, Tables, SeatRow
<1>2. x \in SeatRow /\ x.trip = s.trip /\ x.number = s.number BY <1>1 DEF SeatRow
<1>3. seats' = (seats \ {s}) \cup {x} BY DEF SetHolder
<1> HIDE DEF x
<1>4. Tables' BY <1>2, <1>3 DEF TablesInv, Tables
<1>5. \A k : k # s.trip => SeatsOf(k)' = SeatsOf(k) BY <1>2, <1>3 DEF SeatsOf
<1>6. \A k : {q.number : q \in SeatsOf(k)}' = {q.number : q \in SeatsOf(k)}
  BY <1>2, <1>3 DEF SeatsOf
<1>7. SeatsComplete'
  <2>1. \A q, r \in seats' : q.trip = r.trip /\ q.number = r.number => q = r
    BY <1>2, <1>3 DEF TablesInv, SeatsComplete
  <2>2. \A q \in seats' : q.trip \in Ids(trips')
    BY <1>2, <1>3 DEF TablesInv, SeatsComplete, Ids
  <2>3. QED BY <1>6, <2>1, <2>2 DEF TablesInv, SeatsComplete, Ids
<1>8. Opening' BY DEF TablesInv, Opening
<1>9. Changed(w)
  BY <1>4, <1>5, OnlyTouched
<1>10. QED BY <1>4, <1>7, <1>8, <1>9 DEF TablesInv
-----------------------------------------------------------------------------
(* Every step of Bus is a step of CacheAside, or none *)

\* A write of Bus is one of CacheAside; and a trip that is created had no seats.
Wrote(p, w) == Proved!Write(p, w) /\ (w.op = "create" => SeatsOf(w.trip) = {})

LEMMA WriteIs ==
    ASSUME NEW p, NEW w \in Writes, Aside!OwesEvictions(p, w), Changed(w)
    PROVE  Proved!Write(p, w)
<1>1. Proved!OwesEvictions(p, w) BY SameSteps
<1>2. QED BY <1>1 DEF Proved!Write, Proved!Change, Changed

\* The first rows of a page make a page.
LEMMA PartsArePages ==
    ASSUME Tables, NEW p, SelectSome(p)
    PROVE  Aside!ReadPart(p)
<1>1. PICK v \in FirstRows(req[p].key) : Aside!SelectPart(p, v) BY DEF SelectSome
<1>2. v \in PageValues
  BY DEF Tables, FirstRows, SeatsOf, PageValues
<1>3. QED BY <1>1, <1>2 DEF Aside!ReadPart, Aside!SelectPart

LEMMA StepIs ==
    ASSUME TablesInv, Next
    PROVE  /\ TablesInv'
           /\ \/ UNCHANGED <<Pages, cache, req>>
              \/ \E p \in Procs : Proved!Read(p) \/ Proved!ReadPart(p) \/ Proved!Evict(p)
              \/ \E k \in Keys : Proved!Expire(k)
              \/ \E p \in Procs, w \in Writes : Wrote(p, w)
<1> DEFINE Good ==
       /\ TablesInv'
       /\ \/ UNCHANGED <<Pages, cache, req>>
          \/ \E p \in Procs : Proved!Read(p) \/ Proved!ReadPart(p) \/ Proved!Evict(p)
          \/ \E k \in Keys : Proved!Expire(k)
          \/ \E p \in Procs, w \in Writes : Wrote(p, w)
<1>s. UNCHANGED <<trips, seats>> => UNCHANGED Pages /\ (SeatsComplete => SeatsComplete')
  BY DEF Pages, SeatsOf, SeatsComplete, Ids
<1>1. ASSUME NEW t \in Trips, NEW n \in 1 .. MaxSeats, OpenTrip(t, n) PROVE Good
  <2> DEFINE trip == [id |-> t, total |-> n, completed |-> FALSE]
  <2>1. /\ opened' = opened \cup {trip} /\ UNCHANGED <<trips, seats, cache, req>>
        /\ t \notin Ids(trips \cup opened) /\ trip \in TripRow /\ trip.id = t
    BY <1>1 DEF OpenTrip, TripRow
  <2> HIDE DEF trip
  <2>2. Tables' BY <2>1 DEF TablesInv, Tables
  <2>3. Opening' BY <2>1 DEF TablesInv, Opening, Ids
  <2>4. QED BY <1>s, <2>1, <2>2, <2>3 DEF TablesInv
<1>2. ASSUME NEW trip \in opened, RollbackTrip(trip) PROVE Good
  <2>1. opened' \subseteq opened /\ UNCHANGED <<trips, seats, cache, req>>
    BY <1>2 DEF RollbackTrip
  <2>2. QED BY <1>s, <2>1 DEF TablesInv, Tables, Opening
<1>3. ASSUME NEW p \in Procs, NEW trip \in opened, CommitTrip(p, trip) PROVE Good
  <2>1. trip.id \in Trips BY DEF TablesInv, Tables, TripRow
  <2> DEFINE w == Mutation("create", trip.id, NoUser)
  <2>2. w \in Writes /\ w.op = "create" /\ w.trip = trip.id BY <2>1, MutationsAreWrites
  <2>3. TablesInv' /\ Changed(w) BY <1>3, CommitTables
  <2>4. Aside!OwesEvictions(p, w) BY <1>3 DEF CommitTrip
  <2>5. SeatsOf(trip.id) = {}
    BY DEF TablesInv, SeatsComplete, Opening, SeatsOf, Ids
  <2>6. Wrote(p, w) BY <2>2, <2>3, <2>4, <2>5, WriteIs DEF Wrote
  <2>7. QED BY <2>2, <2>3, <2>6
<1>4. ASSUME NEW p \in Procs, NEW t \in Trips, NEW c \in BOOLEAN, UpdateTrip(p, t, c)
      PROVE  Good
  <2> DEFINE w == Mutation("update", t, NoUser)
  <2>1. w \in Writes /\ w.op = "update" BY MutationsAreWrites
  <2>2. TablesInv' /\ Changed(w) BY <1>4, UpdateTables
  <2>3. Aside!OwesEvictions(p, w) BY <1>4 DEF UpdateTrip
  <2>4. Wrote(p, w) BY <2>1, <2>2, <2>3, WriteIs DEF Wrote
  <2>5. QED BY <2>1, <2>2, <2>4
<1>5. ASSUME NEW p \in Procs, NEW t \in Trips, DeleteTrip(p, t) PROVE Good
  <2> DEFINE w == Mutation("delete", t, NoUser)
  <2>1. w \in Writes /\ w.op = "delete" BY MutationsAreWrites
  <2>2. TablesInv' /\ Changed(w) BY <1>5, DeleteTables
  <2>3. Aside!OwesEvictions(p, w) BY <1>5 DEF DeleteTrip
  <2>4. Wrote(p, w) BY <2>1, <2>2, <2>3, WriteIs DEF Wrote
  <2>5. QED BY <2>1, <2>2, <2>4
<1>6. ASSUME NEW p \in Procs, NEW s \in seats, NEW u \in Users, Reserve(p, u, s)
      PROVE  Good
  <2> DEFINE w == Mutation("reserve", s.trip, u)
  <2>1. s.trip \in Trips BY DEF TablesInv, Tables, SeatRow
  <2>2. w \in Writes /\ w.op = "reserve" /\ w.trip = s.trip BY <2>1, MutationsAreWrites
  <2>3. TablesInv' /\ Changed(w)
    <3> HIDE DEF w
    <3>1. QED BY <1>6, <2>2, SeatTables DEF Reserve
  <2>4. Aside!OwesEvictions(p, w) BY <1>6 DEF Reserve
  <2>5. Wrote(p, w) BY <2>2, <2>3, <2>4, WriteIs DEF Wrote
  <2>6. QED BY <2>2, <2>3, <2>5
<1>c. ASSUME NEW p \in Procs, NEW s \in seats, NEW u \in Users, Cancel(p, u, s)
      PROVE  Good
  <2> DEFINE w == Mutation("cancel", s.trip, u)
  <2>1. s.trip \in Trips BY DEF TablesInv, Tables, SeatRow
  <2>2. w \in Writes /\ w.op = "cancel" /\ w.trip = s.trip BY <2>1, MutationsAreWrites
  <2>3. TablesInv' /\ Changed(w)
    <3> HIDE DEF w
    <3>1. QED BY <1>c, <2>2, SeatTables DEF Cancel
  <2>4. Aside!OwesEvictions(p, w) BY <1>c DEF Cancel
  <2>5. Wrote(p, w) BY <2>2, <2>3, <2>4, WriteIs DEF Wrote
  <2>6. QED BY <2>2, <2>3, <2>5
<1>7. CASE CacheStep
  <2>1. UNCHANGED <<trips, seats, opened>> BY <1>7 DEF CacheStep
  <2>2. TablesInv' BY <1>s, <2>1 DEF TablesInv, Tables, Opening
  <2>3. \/ \E p \in Procs : Proved!Read(p) \/ Proved!ReadPart(p) \/ Proved!Evict(p)
        \/ \E k \in Keys : Proved!Expire(k)
    <3>1. \A p : SelectSome(p) => Aside!ReadPart(p) BY PartsArePages DEF TablesInv
    <3>2. QED BY <1>7, <3>1, SameSteps DEF CacheStep
  <2>4. QED BY <2>2, <2>3
<1>8. QED BY <1>1, <1>2, <1>3, <1>4, <1>5, <1>6, <1>c, <1>7 DEF Next

LEMMA TablesStep == TablesInv /\ [Next]_vars => TablesInv'
<1>1. TablesInv /\ UNCHANGED vars => TablesInv'
  BY DEF TablesInv, Tables, SeatsComplete, Opening, SeatsOf, Ids, vars
<1>2. QED BY <1>1, StepIs

LEMMA StepMaps == TablesInv /\ [Next]_vars => [Proved!Next]_Proved!vars
<1>1. UNCHANGED vars => UNCHANGED Proved!vars
  BY DEF vars, Proved!vars, Pages, SeatsOf
<1>2. QED BY <1>1, StepIs DEF Wrote, Proved!Next, Proved!vars

LEMMA InitIs ==
    ASSUME Init
    PROVE  TablesInv /\ Aside!Init /\ Proved!Init
<1>1. TablesInv BY DEF Init, TablesInv, Tables, SeatsComplete, Opening
<1>2. Aside!Init BY DEF Init
<1>3. Proved!Init
  BY <1>2 DEF Aside!Init, Proved!Init, Aside!Idle, Proved!Idle, Aside!Reading, Proved!Reading
<1>4. QED BY <1>1, <1>2, <1>3

\* The bus service is an instance of CacheAside: its statements change no page that their
\* handlers are not taken to touch, and everything else is a step of the cache.
THEOREM CacheAsideIsImplemented == Spec => ImplementsCacheAside
<1>1. Init => TablesInv /\ Aside!Init BY InitIs
<1>2. TablesInv /\ [Next]_vars => TablesInv' BY TablesStep
<1>3. TablesInv /\ [Next]_vars => [Aside!Next]_Aside!vars
  <2>1. UNCHANGED vars => UNCHANGED Aside!vars
    BY DEF vars, Aside!vars, Pages, SeatsOf
  <2>2. \A p, w : Proved!Write(p, w) <=> Aside!Write(p, w)
    BY SameSteps DEF Proved!Write, Aside!Write, Proved!Change, Aside!Change
  <2>3. QED BY <2>1, <2>2, StepIs, SameSteps DEF Wrote, Aside!Next, Aside!vars
<1>4. QED BY <1>1, <1>2, <1>3, PTL DEF Spec, ImplementsCacheAside, Aside!Spec

-----------------------------------------------------------------------------
(* The safety of the tables *)

LEMMA TablesHold == Spec => []TablesInv
<1>1. Init => TablesInv BY InitIs
<1>2. QED BY <1>1, TablesStep, PTL DEF Spec

\* A trip that anybody can see has each of its seats once, and a seat has its trip,
\* whatever the number of creations, failures, deletions and reservations at once.
THEOREM SeatsAreComplete == Spec => []SeatsComplete
<1>1. TablesInv => SeatsComplete BY DEF TablesInv
<1>2. QED BY <1>1, TablesHold, PTL

\* The request that starts is the one that the statement is of.
LEMMA WriteStarts ==
    ASSUME Proved!TypeOK, NEW p \in Procs, NEW op, NEW t, NEW u,
           Aside!OwesEvictions(p, Mutation(op, t, u))
    PROVE  Started(Mutation(op, t, u))
<1> DEFINE w == Mutation(op, t, u)
<1>1. Aside!OwesEvictions(p, w) OBVIOUS
<1>2. req \in [Procs -> Proved!Request] BY DEF Proved!TypeOK
<1> HIDE DEF w
<1>3. req[p] = Aside!Idle /\ req'[p].op = w
  BY <1>1, <1>2 DEF Aside!OwesEvictions, Aside!Become, Aside!Writing
<1>4. QED BY <1>3 DEF Started, w

\* Nobody loses a seat but by cancelling it, or with its trip; and a free seat goes to
\* whoever asked for it, on a trip that is not completed.
THEOREM HoldersKeepSeats == Spec => HolderKeepsSeat
<1> DEFINE Kept(s) ==
       \/ s \in seats'
       \/ s.trip \notin Ids(trips')
       \/ /\ s.holder # NoUser
          /\ [s EXCEPT !.holder = NoUser] \in seats'
          /\ Started(Mutation("cancel", s.trip, s.holder))
       \/ /\ s.holder = NoUser
          /\ \E r \in trips : r.id = s.trip /\ ~ r.completed
          /\ \E u \in Users : /\ [s EXCEPT !.holder = u] \in seats'
                            /\ Started(Mutation("reserve", s.trip, u))
<1>1. TablesInv /\ Proved!TypeOK /\ [Next]_vars => [\A s \in seats : Kept(s)]_vars
  <2> SUFFICES ASSUME TablesInv, Proved!TypeOK, Next, NEW s \in seats
               PROVE  Kept(s)
    OBVIOUS
  <2>1. CASE \E p \in Procs, t \in Trips : DeleteTrip(p, t)
    BY <2>1 DEF DeleteTrip, SeatsOf, Ids
  <2>2. ASSUME NEW p \in Procs, NEW u \in Users, NEW q \in seats, Reserve(p, u, q)
        PROVE  Kept(s)
    <3>1. CASE s = q
      <4>1. /\ s.holder = NoUser /\ [s EXCEPT !.holder = u] \in seats'
            /\ \E r \in trips : r.id = s.trip /\ ~ r.completed
        BY <2>2, <3>1 DEF Reserve, SetHolder
      <4>2. Started(Mutation("reserve", s.trip, u))
        BY <2>2, <3>1, WriteStarts DEF Reserve
      <4>3. QED BY <4>1, <4>2
    <3>2. CASE s # q BY <2>2, <3>2 DEF Reserve, SetHolder
    <3>3. QED BY <3>1, <3>2
  <2>3. ASSUME NEW p \in Procs, NEW u \in Users, NEW q \in seats, Cancel(p, u, q)
        PROVE  Kept(s)
    <3>1. CASE s = q
      <4>1. s.holder = u /\ s.holder # NoUser /\ [s EXCEPT !.holder = NoUser] \in seats'
        BY <2>3, <3>1, NamesAssumption DEF Cancel, SetHolder
      <4>2. Started(Mutation("cancel", s.trip, u))
        BY <2>3, <3>1, WriteStarts DEF Cancel
      <4>3. QED BY <4>1, <4>2
    <3>2. CASE s # q BY <2>3, <3>2 DEF Cancel, SetHolder
    <3>3. QED BY <3>1, <3>2
  <2>4. CASE seats \subseteq seats' BY <2>4
  <2>5. QED
    BY <2>1, <2>2, <2>3, <2>4
       DEF Next, OpenTrip, RollbackTrip, CommitTrip, UpdateTrip, CacheStep
<1>2. Init => Proved!TypeOK BY InitIs, WritesAssumed, NoneAssumed, Proved!InitTyped
<1>3. TablesInv /\ Proved!TypeOK /\ [Next]_vars => Proved!TypeOK'
  BY StepMaps, WritesAssumed, NoneAssumed, Proved!NextTyped
<1>4. QED BY <1>1, <1>2, <1>3, TablesHold, PTL DEF Spec, HolderKeepsSeat

\* The tables and the cache hold what they can hold.
THEOREM TypeCorrect == Spec => []TypeOK
<1>1. Init => TablesInv /\ Proved!TypeOK BY InitIs, WritesAssumed, NoneAssumed, Proved!InitTyped
<1>2. TablesInv /\ Proved!TypeOK /\ [Next]_vars => TablesInv' /\ Proved!TypeOK'
  BY TablesStep, StepMaps, WritesAssumed, NoneAssumed, Proved!NextTyped
<1>3. TablesInv /\ Proved!TypeOK => TypeOK
  BY SameState DEF TablesInv, Tables, TypeOK
<1>4. QED BY <1>1, <1>2, <1>3, PTL DEF Spec

-----------------------------------------------------------------------------
(* The staleness of the pages *)

\* The seats of a trip are not evicted by its creation, so StaleHasCause does not speak of
\* them; but what a reader stored before is the empty map.
SeatsCaused == \A t \in Trips : Proved!HasCause(t) \/ cache[t].value = {}

PagesInv == TablesInv /\ Proved!IInv /\ SeatsCaused

LEMMA SeatsCausedStep ==
    ASSUME PagesInv, Next
    PROVE  SeatsCaused'
<1> SUFFICES ASSUME NEW t \in Trips
             PROVE  Proved!HasCause(t)' \/ cache'[t].value = {}
  BY DEF SeatsCaused
<1>0. /\ Proved!TypeOK /\ Proved!Owing /\ t \in Keys
      /\ cache \in Proved!Cache /\ TablesInv
      /\ Proved!HasCause(t) \/ cache[t].value = {}
  BY DEF PagesInv, Proved!IInv, Proved!TypeOK, Proved!Cache, SeatsCaused, Keys
<1>1. CASE UNCHANGED <<Pages, cache, req>>
  BY <1>0, <1>1 DEF Proved!HasCause, Proved!Stale, Proved!Pending
<1>2. ASSUME NEW p \in Procs, Proved!Read(p) PROVE Proved!HasCause(t)' \/ cache'[t].value = {}
  <2>1. CASE Proved!Set(p) /\ t = req[p].key
    <3>1. /\ cache'[t].value = req[p].value /\ Pages' = Pages
          /\ cache'[t].cause = "named" \/ req[p].value = Pages[t]
      BY <1>0, <2>1 DEF Proved!Set, Proved!Cache, Proved!CauseOf
    <3>2. QED BY <3>1 DEF Proved!HasCause, Proved!Stale
  <2>2. CASE ~ (Proved!Set(p) /\ t = req[p].key)
    <3>1. Pages' = Pages /\ cache'[t] = cache[t]
      BY <1>0, <1>2, <2>2
         DEF Proved!Read, Proved!Get, Proved!Select, Proved!Set, Proved!GiveUp, Proved!Cache
    <3>2. \A q \in Procs : t \in Proved!Pending(q) => q # p
      <4>1. req[p] = Proved!Idle \/ req[p].pc \in {"select", "set", "part"}
        BY <1>2 DEF Proved!Read, Proved!Get, Proved!Select, Proved!Set, Proved!GiveUp
      <4>2. req[p] = Proved!Idle => Proved!Pending(p) = {}
        BY DEF Proved!Pending, Proved!Idle, Proved!Reading
      <4>3. Proved!Pending(p) = {} BY <1>0, <4>1, <4>2 DEF Proved!Owing
      <4>4. QED BY <4>3
    <3>3. \A q \in Procs : q # p => req'[q] = req[q]
      BY <1>0, <1>2
         DEF Proved!Read, Proved!Get, Proved!Select, Proved!Set, Proved!GiveUp,
             Proved!Become, Proved!TypeOK
    <3>4. \A q \in Procs : t \in Proved!Pending(q) => t \in Proved!Pending(q)'
      BY <3>2, <3>3 DEF Proved!Pending
    <3>5. Proved!HasCause(t) => Proved!HasCause(t)'
      BY <1>0, <3>1, <3>4 DEF Proved!HasCause, Proved!Stale
    <3>6. QED BY <1>0, <3>1, <3>5
  <2>3. QED BY <2>1, <2>2
<1>p. ASSUME NEW p \in Procs, Proved!ReadPart(p) PROVE Proved!HasCause(t)' \/ cache'[t].value = {}
  <2>1. PICK v \in PageValues : Proved!SelectPart(p, v) BY <1>p DEF Proved!ReadPart
  <2>2. /\ Pages' = Pages /\ cache' = cache /\ Proved!Pending(p) = {}
        /\ \A q \in Procs : q # p => req'[q] = req[q]
    BY <1>0, <2>1 DEF Proved!SelectPart, Proved!Owing, Proved!Become, Proved!TypeOK
  <2>3. \A q \in Procs : t \in Proved!Pending(q) => t \in Proved!Pending(q)'
    BY <2>2 DEF Proved!Pending
  <2>4. Proved!HasCause(t) => Proved!HasCause(t)'
    BY <2>2, <2>3 DEF Proved!HasCause, Proved!Stale
  <2>5. QED BY <1>0, <2>2, <2>4
<1>3. ASSUME NEW p \in Procs, Proved!Evict(p) PROVE Proved!HasCause(t)' \/ cache'[t].value = {}
  <2>1. PICK r : /\ Proved!IsRequest(r) /\ Proved!Become(p, r)
                 /\ \/ cache'[t] = None
                    \/ cache'[t].cause = "named"
                    \/ /\ cache'[t] = cache[t]
                       /\ t \in Proved!Pending(p) => t \in r.del \cup r.scan \cup r.batch
    BY <1>0, <1>3, WritesAssumed, NoneAssumed, Proved!EvictStep
  <2>2. CASE cache'[t] = None \/ cache'[t].cause = "named"
    BY <2>2 DEF Proved!HasCause, Proved!Stale
  <2>3. CASE /\ cache'[t] = cache[t]
             /\ t \in Proved!Pending(p) => t \in r.del \cup r.scan \cup r.batch
    <3>1. Pages' = Pages
      BY <1>3 DEF Proved!Evict, Proved!Del, Proved!Scan, Proved!Exec, Proved!Miss, Proved!Finish
    <3>2. Proved!HasCause(t) => Proved!HasCause(t)'
      BY <1>0, <2>1, <2>3, <3>1, WritesAssumed, NoneAssumed, Proved!CauseKeptBy
    <3>3. QED BY <1>0, <2>3, <3>2
  <2>4. QED BY <2>1, <2>2, <2>3
<1>4. ASSUME NEW k \in Keys, Proved!Expire(k) PROVE Proved!HasCause(t)' \/ cache'[t].value = {}
  <2>1. /\ cache'[t] = None \/ cache'[t] = cache[t]
        /\ Pages' = Pages /\ req' = req
    BY <1>0, <1>4 DEF Proved!Expire, Proved!Cache
  <2>2. QED BY <1>0, <2>1 DEF Proved!HasCause, Proved!Stale, Proved!Pending
<1>5. ASSUME NEW p \in Procs, NEW w \in Writes, Wrote(p, w)
      PROVE  Proved!HasCause(t)' \/ cache'[t].value = {}
  <2>1. /\ cache' = cache /\ req[p] = Proved!Idle
        /\ req' = [req EXCEPT ![p] = Proved!Writing("write", w, Named[w], Matched[w], {})]
        /\ \A k \in Keys \ Touched[w] : Pages'[k] = Pages[k]
    BY <1>5 DEF Wrote, Proved!Write, Proved!OwesEvictions, Proved!Become, Proved!Change
  <2>2. Named[w] = Evicted(w) /\ Touched[w] = MayTouch(w)
    BY DEF Named, Touched
  <2>3. t \in Proved!Pending(p)' <=> t \in Evicted(w)
    <3>1. req'[p] = Proved!Writing("write", w, Named[w], Matched[w], {})
      BY <1>0, <2>1 DEF Proved!TypeOK
    <3>2. Matched[w] = {} BY DEF Matched
    <3>3. QED BY <2>2, <3>1, <3>2 DEF Proved!Pending, Proved!Writing
  <2>4. CASE t \in Evicted(w) BY <2>3, <2>4 DEF Proved!HasCause
  <2>5. \A q \in Procs : t \in Proved!Pending(q) => t \in Proved!Pending(q)'
    <3>1. Proved!Pending(p) = {}
      BY <2>1 DEF Proved!Pending, Proved!Idle, Proved!Reading
    <3>2. \A q \in Procs : q # p => req'[q] = req[q]
      BY <1>0, <2>1 DEF Proved!TypeOK
    <3>3. QED BY <3>1, <3>2 DEF Proved!Pending
  <2>6. CASE t \notin MayTouch(w)
    <3>1. Pages'[t] = Pages[t] BY <1>0, <2>1, <2>2, <2>6
    <3>2. Proved!HasCause(t) => Proved!HasCause(t)'
      BY <2>1, <2>5, <3>1 DEF Proved!HasCause, Proved!Stale
    <3>3. QED BY <1>0, <2>1, <3>2
  <2>7. CASE w.op = "create" /\ t = w.trip
    <3>1. Pages[t] = {}
      BY <1>0, <1>5, <2>7, NamesAssumption DEF Wrote, Pages
    <3>2. CASE Proved!Stale(t)
      BY <1>0, <2>1, <2>5, <3>2 DEF Proved!HasCause
    <3>3. CASE ~ Proved!Stale(t)
      BY <2>1, <3>1, <3>3 DEF Proved!HasCause, Proved!Stale
    <3>4. QED BY <3>2, <3>3
  <2>8. t \in Evicted(w) \/ t \notin MayTouch(w) \/ (w.op = "create" /\ t = w.trip)
    BY WritesAre, NamesAssumption DEF Evicted, MayTouch
  <2>9. QED BY <2>4, <2>6, <2>7, <2>8
<1>6. QED BY <1>0, <1>1, <1>2, <1>p, <1>3, <1>4, <1>5, StepIs

\* The list of trips, and the map of a trip, are stale only with a cause, or the map is
\* the empty one of a trip that was not there yet.
THEOREM TripPagesCause == Spec => []TripPagesHaveCause
<1>1. Init => PagesInv
  <2>1. Init => \A k \in Keys : cache[k] = None
    BY InitIs DEF Proved!Init
  <2>2. Init => SeatsCaused
    BY <2>1 DEF SeatsCaused, Proved!HasCause, Proved!Stale, Keys
  <2>3. QED BY <2>2, InitIs, WritesAssumed, NoneAssumed, Proved!InitCause DEF PagesInv
<1>2. PagesInv /\ [Next]_vars => PagesInv'
  <2>1. PagesInv /\ UNCHANGED vars => SeatsCaused'
    BY DEF PagesInv, SeatsCaused, Proved!HasCause, Proved!Stale, Proved!Pending, Pages,
           SeatsOf, vars
  <2>2. QED
    BY <2>1, SeatsCausedStep, TablesStep, StepMaps, WritesAssumed, NoneAssumed,
       Proved!NextCause DEF PagesInv
<1>3. PagesInv => TripPagesHaveCause
  <2> SUFFICES ASSUME PagesInv, NEW k \in Keys
               PROVE  Proved!HasCause(k) \/ (k \in Trips /\ cache[k].value = {})
    BY SameState DEF TripPagesHaveCause
  <2>1. CASE k = AllTrips
    <3>1. \A w \in Writes : AllTrips \in Touched[w] => AllTrips \in Named[w]
      BY WritesAre, NamesAssumption DEF Touched, Named, MayTouch, Evicted
    <3>2. Proved!Covered(k) BY <2>1, <3>1 DEF Proved!Covered
    <3>3. QED BY <3>2 DEF PagesInv, Proved!IInv, Proved!StaleHasCause
  <2>2. CASE k \in Trips BY <2>2 DEF PagesInv, SeatsCaused
  <2>3. QED BY <2>1, <2>2 DEF Keys
<1>4. QED BY <1>1, <1>2, <1>3, PTL DEF Spec
=============================================================================
