CONSTANTS
    onRequest = onRequest
    periodic = periodic
    Kinds = {onRequest, periodic}
    Concurrent = {periodic}
    NameOf <- MCNames
    IdentityOf <- MCNames
    PriorityOf <- MCPriority
    NoKind = NoKind
    NoEntry = NoEntry
    Kept = 1
    MayFail = FALSE
    MaxEvents = 2
SPECIFICATION DvrSpec
PROPERTIES
    DeletedStaysDeleted
