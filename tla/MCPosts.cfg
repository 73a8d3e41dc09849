SPECIFICATION Spec
CONSTANTS
    NoUser = NoUser
    Users = {u1, u2}
    Procs = {p1, p2}
    Texts = {{u1, u2}}
    MaxPosts = 2
    MaxFaults = 1
INVARIANTS TypeOK LikesAccounted RepliesCounted EveryoneIsTold
PROPERTY ClampOnlyInARace
SYMMETRY Symmetry
