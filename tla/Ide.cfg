CONSTANTS
    Client = {c1, c2}
    Nobody = Nobody
    NR_SEC_CACHE = 1
    SECTOR_SIZE = 1
    NR_SECTOR = 2
    Val = {0, 1}
    v0 = 0
    MaxLen = 2
    PERIOD = 1
    MaxPending = 1
SPECIFICATION FairSpec
INVARIANTS NoInterruptLeaks CleanMatchesDisk
PROPERTIES StoreSpec RequestsAnswered
