SPECIFICATION Spec
CONSTANTS
    g1 = g1
    g2 = g2
    e1 = e1
    e2 = e2
    e3 = e3
    n1 = n1
    n2 = n2
    NoIdentity = NoIdentity
    Renamed = Renamed
    Names = {n1, n2}
    Emails = {e1, e2, e3}
    Profiles <- MCProfiles
    Procs = {p1, p2}
    MaxAccounts = 2
    MaxFaults = 1
INVARIANTS TypeOK UnverifiedCanVerify
PROPERTIES LinkFollowsAddress SignsInToLinkedOrRenamed
SYMMETRY Symmetry
