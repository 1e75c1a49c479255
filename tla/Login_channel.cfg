SPECIFICATION Spec
CONSTANTS
    Logins = {l1, l2, l3}
    None = None
    Shards <- ThreeDatabases
    SessionTTL = 2
    MayFail = TRUE
SYMMETRY Interchangeable
INVARIANTS
    OneAccountUnlessRaced
    GrantsFollowAccount
    LoggedOutForAReason
    PickIsProportional
\* Each login is made once; the system stops when all are over.
CHECK_DEADLOCK FALSE
