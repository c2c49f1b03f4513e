SPECIFICATION FairSpec
CONSTANTS
    NR_PDE = 12
    NR_PTE = 2
    PHY_PD = 6
    KOFFSET = 6
    KERNEL_PD = 3
    FRAME = 2
    N_KERNEL_PTE = 3
    NR_MAX_FILE = 3
    HASH_SIZE = 4
    MaxAsked = 2
    PM = PM
    FM = FM
    MM = MM
    RAMDISK = RAMDISK
    DEV_NULL = DEV_NULL
    DEV_ZERO = DEV_ZERO
    RANDOM = RANDOM
    DEV_MEM = DEV_MEM
    DEV_KMEM = DEV_KMEM
    Idle = Idle
    ANY = ANY
    t1 = t1
    t2 = t2
    Tester = {t1, t2}
    Proc = {p1, p2, p3}
    Segments <- MCSegments
    PageOf <- MCPageOf
    Tests <- MCTests
INVARIANTS ProgramInPlace AddressSpacesApart KernelEverywhere  IllegalOnlyIfOutrun TestsSeeTheirData
PROPERTIES EveryRequestStarts
CHECK_DEADLOCK FALSE
