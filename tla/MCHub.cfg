SPECIFICATION FairSpec
CONSTANTS
    None = None
    Conns = {c1, c2}
    Casters = {b1}
    Room = 1
INVARIANTS TypeOK CountsSettle
PROPERTIES LockIsHeldForAWhile
