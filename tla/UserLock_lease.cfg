CONSTANTS
    Request = {r1, r2, r3}
    NoToken = NoToken
    TTL = 2
    MaxRetries = 2
    HoldBound = 3
SPECIFICATION FairSpec
INVARIANTS
    SerialisesWithinTTL
    OrphanOnlyAfterFault
PROPERTIES
    OnlyOwnerReleases
    LeaseSpec
    AcquireReturns
\* Every request calls Acquire once; when all have returned nothing is left to do.
CHECK_DEADLOCK FALSE
