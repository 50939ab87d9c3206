CONSTANTS
    Viewers = {v1, v2}
    Outputs = {o1}
    Cleanup = Cleanup
    Nobody = Nobody
    Need = 2
SPECIFICATION OutFairSpec
INVARIANTS
    ClientsHaveEncoder
PROPERTIES
    LocksAreReleased
    PictureComes
CHECK_DEADLOCK FALSE
