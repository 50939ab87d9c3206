CONSTANTS
    Sources = {s1}
    Passes = {"periodic", "saved"}
    Combined = combined
    NoDevice = NoDevice
    MaxTuners = 2
    MaxAddresses = 1
    KeyOf <- MCKeyOf
    MaxPlexEdits = 1
    MaxMeddles = 0
    MaxPlexFails = 0
SPECIFICATION PlexSpec
PROPERTIES
    DvrIsKept
CHECK_DEADLOCK FALSE
