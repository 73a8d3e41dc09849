SPECIFICATION Spec
CONSTANTS
    None = None
    Users = {u1}
    Viewers = {u1}
    Posts = {t1}
    Values = {v1, v2}
    Procs = {p1, p2}
INVARIANTS FeedsHaveCause
SYMMETRY Symmetry
