CONSTANTS
    PCB_POOL_SIZE = 4
    s1 = s1
    s2 = s2
    raw = raw
    Sem <- MCSem
    RawSem <- MCRawSem
    InitToken <- MCInitToken
    IrqWork <- MCIrqWork
    MaxToken = 1
SPECIFICATION FairSpec
INVARIANTS ListIntegrity NoLostUnit WaitersStop LockBalance PreemptionPoints WakeupAssertHolds
PROPERTIES SemaphoreSpec NoStarvation
