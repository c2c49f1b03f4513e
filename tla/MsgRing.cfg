CONSTANTS
    A = A
    B = B
    C = C
    D = D
    E = E
    TIMER = TIMER
    Proc = {A, B, C, D, E, TIMER}
    Driver = {TIMER}
    MSG_POOL_SIZE = 8
    ANY = ANY
    HARD_INTR = HARD_INTR
    NoMsg = NoMsg
    MaxQueue = 2
SPECIFICATION RingSpec
INVARIANT RingAssertHolds
CHECK_DEADLOCK FALSE
