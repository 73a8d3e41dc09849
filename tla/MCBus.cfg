SPECIFICATION Spec
CONSTANTS
    None = None
    NoUser = NoUser
    AllTrips = AllTrips
    Trips = {t1}
    Users = {u1, u2}
    MaxSeats = 2
    Procs = {p1, p2}
INVARIANTS TypeOK SeatsComplete TripPagesHaveCause
PROPERTIES HolderKeepsSeat ImplementsCacheAside
SYMMETRY Symmetry
