CONSTANTS
    account = account
    s1 = s1
    Keys = {account}
    Self = self
    NoSource = NoSource
    Owners = {self, other}
    Slots = {s1, s2, x}
    Sources = {s1, s2}
    HandoffSources = {s2}
    MaxExternal = 0
    Clients = {c1}
    FailoverModes = {TRUE, FALSE}
    MaxProcess = 2
    MaxLives = 2
    DbMayFail = FALSE
    MayCancel = TRUE
    Limit <- MCLimit
    KeyOf <- MCKeyOf
SPECIFICATION StudySpec
INVARIANTS
    FirstLifeIsClean
    ReaderWatches
    RunningIsServed
PROPERTIES
    FailoverTriesOthersFirst
CHECK_DEADLOCK FALSE
