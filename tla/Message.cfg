CONSTANTS
    Proc = {a, b}
    Driver = {a}
    MSG_POOL_SIZE = 2
    ANY = ANY
    HARD_INTR = HARD_INTR
    NoMsg = NoMsg
    MaxQueue = 2
SPECIFICATION FairSpec
INVARIANTS UnitsMatchMessages DeliveredAsSent
PROPERTY AskedForArrives
