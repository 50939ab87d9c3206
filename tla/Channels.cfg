CONSTANTS
    m = m
    x = x
    a1 = a1
    a2 = a2
    Playlists = {m, x}
    XcPlaylists = {x}
    Streams = {s}
    Edited = {a2}
    AccountOrder <- MCAccountOrder
    NoAccount = NoAccount
    Manual = Manual
    MaxVersion <- MCMaxVersion
    MayDrop = {x}
    MaxDialogs = 1
    n1 = n1
    n2 = n2
    Names = {n1, n2}
    Unnamed = Unnamed
    MaxChannels = 2
    MaxUuids = 2
    MaxEdits = 2
    MaxTvhFails = 1
    c1 = c1
    c2 = c2
    f1 = f1
    f3 = f3
    MuxedChannels = {c1, c2}
    Feeds = {f1, f3}
    FeedOf <- MCFeedOf
    Placeholder = Placeholder
    MaxMuxes = 4
    MaxMuxEdits = 2
    MaxMuxFails = 1
    guide = guide
    title = title
    Guides = {guide}
    GuideChannels = {c1}
    NoGuide = NoGuide
    TitlesOf <- MCTitlesOf
    Batches = 1
    MaxGuideVersion = 2
    MaxGuideEdits = 2
    MaxGuideFails = 1
    Sources = {s1}
    Passes = {"periodic", "saved"}
    Combined = combined
    NoDevice = NoDevice
    MaxTuners = 2
    MaxAddresses = 2
    KeyOf <- MCKeyOf
    MaxPlexEdits = 1
    MaxMeddles = 1
    MaxPlexFails = 1
    film = film
    saga = saga
    Items = {film, saga}
    Item <- MCItem
    Plans <- MCPlans
    SchedulePlaylists = {"l1", "l2"}
    ShuffleOf <- MCShuffle
    Players = {p}
    NoSchedule = NoSchedule
    Torn = Torn
    TARGET_EPG_WINDOW_HOURS = 24
    FirstSeconds = 6000000
    StepSeconds = 50000
    LastSeconds = 6100000
    MaxEpisodes = 2
    MaxTurns = 2
SPECIFICATION ChannelsSpec
SYMMETRY MCSymmetry
INVARIANTS
    GuideMatches
    TunersMatch
    ScheduleIsStable
PROPERTIES
    RefreshedIsCurrent
    SkipIsSafe
    MovesKeepNumbers
    MuxesMatch
CHECK_DEADLOCK FALSE
