SPECIFICATION FairSpec
CONSTANTS
    c1 = c1
    c2 = c2
    Server = {s1, s2}
    Reloader = {s1}
    Version <- ThreeVersions
    Client = {c1, c2}
    Null = Null
    Start <- Starts
    MayFail = TRUE
    MayRestart = TRUE
    MaxEdits = 1
    MaxInbox = 1
INVARIANTS
    OneQuery
PROPERTIES
    NeverOlder
    ReloadReaches
