CONSTANTS
    account = account
    Keys = {account}
    Self = self
    NoSource = NoSource
    Owners = {self}
    Slots = {s1}
    Sources = {s1}
    HandoffSources = {}
    MaxExternal = 0
    Clients = {c1}
    FailoverModes = {TRUE}
    MaxProcess = 2
    MaxLives = 1
    DbMayFail = FALSE
    MayCancel = FALSE
    Limit <- MCLimit
    KeyOf <- MCKeyOf
SPECIFICATION Spec
INVARIANTS
    SlotsReturned
CHECK_DEADLOCK FALSE
