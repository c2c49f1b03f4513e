SPECIFICATION BootSpec
CONSTANTS
    NR_TTY = 2
    HZ = 1
    BANNER = 1
    MaxIrq = 3
    CmosTimes <- MCCmosTimes
    Reader <- MCReader
INVARIANTS GettysOwnTheirConsoles OnlyKeysComeEarly MessagesReachTheirServers DateValid NeverAhead
