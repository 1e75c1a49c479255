SPECIFICATION Spec
CONSTANTS
    Lists = {items}
    Account = account
    Key = {k1, k2}
    Self = self
    Registered = {items}
    Miss = Miss
    Absent = Absent
    MaxAmount = 2
    MaxCalls = 2
SYMMETRY Symmetry
INVARIANTS
    CacheIsTable
    InsertsAreNew
    SyncKeepsClientCurrent
PROPERTIES
    TransactionAppliesCalls
