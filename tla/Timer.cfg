CONSTANTS
    Client = {c1, c2, c3}
    Nobody = Nobody
    NR_TIMER = 2
    HZ = 2
    MaxSec = 1
    MaxPending = 2
SPECIFICATION FairTimerSpec
INVARIANTS OneAlarmEach NeverEarly
PROPERTY EveryAlarmRings
