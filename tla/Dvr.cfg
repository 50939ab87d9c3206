CONSTANTS
    onRequest = onRequest
    periodic = periodic
    Kinds = {onRequest, periodic}
    Concurrent = {periodic}
    NameOf <- MCNames
    IdentityOf <- MCNames
    PriorityOf <- MCPriority
    NoKind = NoKind
    NoEntry = NoEntry
    Kept = 1
    MayFail = TRUE
    MaxEvents = 2
SPECIFICATION DvrSpec
PROPERTIES
    UnsyncedRowsSurvive
    Converges
