SPECIFICATION Spec
CONSTANTS
    Server = {s1, s2}
    Caller = s1
    Window <- Overlapping
    Start <- AtFirst
    Offset <- Ahead
    MaxTables = 3
    MaxJumps = 2
    MaxTime = 2
    MaxInbox = 2
INVARIANTS
    ReloadArrives
    MaintenanceIsKept
    JumpSurvivesRestart
PROPERTIES
    NeverOlder
