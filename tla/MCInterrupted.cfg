SPECIFICATION FairSpec
CONSTANTS
    RING = 4
    OUT_MAX = 2
    TX_MAX = 2
    Again = 0
INVARIANTS TypeOK WildNeverUsed AgreeBetweenPasses
PROPERTIES PassEnds
