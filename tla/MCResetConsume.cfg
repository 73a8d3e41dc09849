SPECIFICATION Spec
CONSTANTS
    NoUser = NoUser
    Users = {u1}
    Procs = {p1, p2}
    MaxSessions = 1
    MaxTokens = 2
    MaxFaults = 0
PROPERTY ResetTokenUsedOnce
