SPECIFICATION Spec
CONSTANTS
    Slot = {1, 2}
    AppId = {"npb"}
    Client = {"2.01.01", "2.02.00"}
    FirstRows <- Seeded
    MaxIdx = 2
    ListLimit = 2
    Preset <- Hours
    Typed <- Seconds
    Target <- Times
    BrowserAhead = 300
    Pauses = {1600}
    MaxJumps = 2
    MaxTime = 1600
    Db = {"game", "shard"}
    GameDb = "game"
    FileOf <- FilesByDb
    Local = TRUE
    MaxRuns = 1
    Tours <- EachPage
INVARIANTS
    ReportsAreTrue
    PagesShowOwnWork
    OffsetIsLastRow
    ViewerShowsFile
    BusyIsOneJob
PROPERTIES
    DeletesWhatWasConfirmed
    NeverShortOfTarget
    StatusNeverOlder
    EveryJobEnds
