CONSTANTS
    Request = {u1, u2, g1, r1}
    Upgrades = {u1, u2}
    Reads = {g1}
    Logins = {}
    Relogins = {r1}
    Miss = Miss
    MayLapse = FALSE
    MayCrash = FALSE
    MayLoseDelete = FALSE
SPECIFICATION FairSpec
INVARIANTS
    CacheCoherent
    NoLostUpdate
PROPERTIES
    SingleCopy
    EveryRequestIsAnswered
\* Each request is made once; the system stops when all are over.
CHECK_DEADLOCK FALSE
