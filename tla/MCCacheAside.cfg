SPECIFICATION FairSpec
CONSTANTS
    None = None
    k1 = k1
    k2 = k2
    delete = delete
    scan = scan
    forget = forget
    Keys <- MCKeys
    Writes <- MCWrites
    Touches <- MCTouches
    Dels <- MCDels
    Scans <- MCScans
    Outside = {k1}
    Values = {v1, v2}
    Procs = {p1, p2}
INVARIANTS TypeOK StaleHasCause
PROPERTY StaleEnds
