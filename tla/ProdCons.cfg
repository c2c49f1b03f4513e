CONSTANTS
    Producer = {p1, p2}
    Consumer = {c1, c2}
    NBUF = 2
    GMAX = 5
SPECIFICATION FairSpec
INVARIANTS MutualExclusion ProductsInOrder SlotsConserved
PROPERTY EveryThreadProceeds
