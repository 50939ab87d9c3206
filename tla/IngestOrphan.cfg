CONSTANTS
    account = account
    Keys = {account}
    Self = self
    NoSource = NoSource
    Owners = {self}
    Slots = {s1}
    Sources = {s1}
    HandoffSources = {}
    MaxExternal = 0
    Clients = {c1}
    FailoverModes = {TRUE}
    MaxProcess = 3
    MaxLives = 2
    DbMayFail = FALSE
    MayCancel = FALSE
    Limit <- MCLimit
    KeyOf <- MCKeyOf
SPECIFICATION Spec
INVARIANTS
    CurrentIsReserved
CHECK_DEADLOCK FALSE
