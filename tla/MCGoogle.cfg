SPECIFICATION Spec
CONSTANTS
    g1 = g1
    g2 = g2
    e1 = e1
    e2 = e2
    e3 = e3
    n1 = n1
    n2 = n2
    NoIdentity = NoIdentity
    Renamed = Renamed
    Names = {n1, n2}
    Emails = {e1, e2, e3}
    Profiles <- MCProfiles
    Procs = {p1}
    MaxAccounts = 2
    MaxFaults = 0
PROPERTY SignsInToLinked
