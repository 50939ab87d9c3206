CONSTANTS
    HlsClients = {c1, c2}
    HlsNobody = HlsNobody
    MaxStops = 2
    Watchers = {w1, w2}
    ChannelCleanup = ChannelCleanup
    NoWatcher = NoWatcher
    MaxLives = 2
    MaxFfmpegs = 2
    publish = publish
    guideA = guideA
    guideB = guideB
    syncA = syncA
    syncB = syncB
    Kinds = {publish, guideA, guideB, syncA, syncB}
    Concurrent = {syncA, syncB}
    NameOf <- MCNames
    IdentityOf <- MCIdentity
    PriorityOf <- MCPriority
    NoKind = NoKind
SPECIFICATION ServicesSpec
INVARIANTS
    LivesTakeTurns
    OwedIsQueued
PROPERTIES
    ViewersGoOn
    StopsFinish
    UrgentIsServed
CHECK_DEADLOCK FALSE
