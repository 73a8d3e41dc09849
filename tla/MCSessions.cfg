SPECIFICATION FairSpec
CONSTANTS
    NoUser = NoUser
    Users = {u1}
    Procs = {p1, p2}
    MaxSessions = 2
    MaxTokens = 3
    MaxFaults = 1
INVARIANTS TypeOK SessionsBounded ResetRevokes
PROPERTIES ImplementsRegistry NeverReopened NeverReissued
PROPERTY ExpiredPurged
