CONSTANTS
    k2 = k2
    h1 = h1
    h2 = h2
    Keys = {k2}
    Owners = {h1, h2, o1}
    Slots = {h1, h2}
    Limit <- MCLimit
    MaxExternal = 1
    HealthSources = {h1, h2}
    HealthKey <- MCHealthKey
    MuxStreams = {g1, g2, g3}
    MuxClients = {m1, m2}
    MuxNone = MuxNone
    Segments = {s1, s2}
    MaxSegments = 1
    i1 = i1
    i2 = i2
    i3 = i3
    t1 = t1
    t2 = t2
    t3 = t3
    Curated = {b1, b2}
    UpCategories = {u1, u2}
    UpItems = {i1, i2, i3}
    TitleOf <- MCTitleOf
    Nowhere = Nowhere
    MaxLibEdits = 1
    MaxLibFails = 1
    Conns = {p1}
    MaxOpens = 2
    MaxAudits = 2
    MaxRestarts = 1
    Users = {v}
    r1 = r1
    r2 = r2
    UserRequests = {r1, r2}
    MaxIds = 2
    MaxUserEdits = 2
    MaxUserFails = 1
    q1 = q1
    q2 = q2
    q3 = q3
    q4 = q4
    Programmes = {q1, q2, q3, q4}
    Row <- MCRow
    Series = {t1}
    Films = {t1}
    Episodes = {q1}
    Pictured = {t1}
    Concurrency = 2
    MaxCalls = 1
    MaxRetries = 1
    MaxScans = 2
    MaxFaults = 2
    Wishes <- MCWishes
    ChannelProfiles <- MCChannelProfiles
    Media <- MCMedia
    Hosts <- MCHosts
    Setups <- MCSetups
    MaxStarts = 2
    MaxStartFaults = 1
    EpClients = {r1, r2}
    LinkOrder <- MCLinkOrder
    EpisodeKeys = {t1, t2}
    Uncached = Uncached
    MaxEpTurns = 2
    l1 = l1
    l2 = l2
    w1 = w1
    w2 = w2
    x1 = x1
    x2 = x2
    x3 = x3
    Viewings = {r1, r2}
    Rows = {w1, w2}
    RowOf <- MCRowOf
    PlayLists = {l1, l2}
    AccountsOf <- MCAccountsOf
    AccountLimit <- MCAccountLimit
    MaxPlayTurns = 1
SYMMETRY MCSymmetry
SPECIFICATION PartsSpec
INVARIANTS
    RunningIsRegistered
    HealthSlotsHaveRuns
    OpenIsTracked
    SyncedUsersMatch
    
    SoftwareIsTried
    AskedIsPlayed
    EpisodeIdsHold
    NoNeedlessRefusal
PROPERTIES
    ImplementsLimiter
    
CHECK_DEADLOCK FALSE
