CONSTANTS
    Client = {c1, c2}
    Nobody = Nobody
    NR_SEC_CACHE = 2
    SECTOR_SIZE = 1
    NR_SECTOR = 3
    Val = {0}
    v0 = 0
    MaxLen = 2
    PERIOD = 1
    MaxPending = 1
SPECIFICATION FairSpec

PROPERTY DirtyGetsWritten
