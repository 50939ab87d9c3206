CONSTANTS
    a = a
    b = b
    file = file
    Keys = {a, b, file}
    Accounts = {a, b}
    NoAccount = file
    s1 = s1
    s2 = s2
    s3 = s3
    Sessions = {s1, s2, s3}
    AccountOf <- MCAccountOf
    Company <- MCCompany
    Slot = slot
    Slots = {slot}
    other = other
    Owners <- MCOwners
    Others <- MCOthers
    Limit <- MCLimit
    MaxExternal = 0
    Entries = {1, 2}
    Files = {1, 2, 3}
    NoEntry = NoEntry
    NoFile = NoFile
    Size <- MCSize
    MaxAttempts = 2
    MaxRestarts = 1
SPECIFICATION VodSpec
INVARIANTS
    CompleteIsWhole
    ConnectionsAreHeld
    NobodySpins
PROPERTY WaitersWake
CONSTRAINT NotBeyondRaced
CHECK_DEADLOCK FALSE
