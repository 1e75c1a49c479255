SPECIFICATION Spec
CONSTANTS
    ShardIds <- Databases
    File <- SameSecond
    InitFiles <- Roots
    MayShareIds = TRUE
    MayFail = FALSE
INVARIANTS
    SameSecondIsNoticed
