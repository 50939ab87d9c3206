CONSTANTS
    account = account
    s1 = s1
    Keys = {account}
    Self = self
    NoSource = NoSource
    Owners = {self}
    Slots = {s1}
    Sources = {s1}
    HandoffSources = {}
    MaxExternal = 0
    Clients = {c1}
    FailoverModes = {TRUE, FALSE}
    MaxProcess = 2
    MaxLives = 1
    DbMayFail = TRUE
    MayCancel = TRUE
    Limit <- MCLimit
    KeyOf <- MCKeyOf
SPECIFICATION LiveSpec
PROPERTIES
    HuntEnds
    WaitersGetTheLock
    ViewersAreTold
CHECK_DEADLOCK FALSE
