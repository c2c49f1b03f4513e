CONSTANTS
    PCB_POOL_SIZE = 4
    s1 = s1
    Sem <- LiveSem
    RawSem = {}
    InitToken <- LiveInitToken
    IrqWork <- LiveIrqWork
    MaxToken = 1
SPECIFICATION Spec
PROPERTY NestedUnlockKeepsCli
