CONSTANTS
    NR_TTY = 2
    Ch = {97, 50}
    LBUF_SZ = 3
    CBUF_SZ = 4
    RSTK_SZ = 1
    READ_SZ = 3
    MaxKeys = 5
    MaxPending = 1
SPECIFICATION FairSpec
INVARIANTS OneMessagePerKey ReadersWaitForInput
PROPERTIES TerminalSpec LinesAreRead
CHECK_DEADLOCK FALSE
