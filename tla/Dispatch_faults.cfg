CONSTANTS
    Request = {u1, u2, l1}
    Upgrades = {u1, u2}
    Reads = {}
    Logins = {l1}
    Relogins = {}
    Miss = Miss
    MayLapse = TRUE
    MayCrash = TRUE
    MayLoseDelete = TRUE
SPECIFICATION Spec
SYMMETRY UpgradesInterchangeable
INVARIANTS
    NothingUncommittedIsSeen
    AnswerTellsOutcome
\* Each request is made once; the system stops when all are over.
CHECK_DEADLOCK FALSE
