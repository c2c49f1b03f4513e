CONSTANTS
    SCR_W = 3
    SCR_H = 3
    LBUF_SZ = 5
    Ch = {"x", "y"}
SPECIFICATION ScreenSpec
INVARIANTS  CursorInWindow
CHECK_DEADLOCK FALSE
