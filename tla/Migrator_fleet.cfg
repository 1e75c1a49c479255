SPECIFICATION Spec
CONSTANTS
    ShardIds <- Databases
    File <- Inverted
    InitFiles <- Roots
    MayShareIds = FALSE
    MayFail = TRUE
INVARIANTS
    JournalMatchesSchema
PROPERTIES
    RunsInOrder
    GameFirst
    UpSettles
    DownTakesLast
