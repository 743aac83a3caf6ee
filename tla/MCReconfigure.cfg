SPECIFICATION FairSpec
CONSTANTS
    RING = 3
    OUT_MAX = 2
    TX_MAX = 1
    Again = 1
PROPERTIES PacketsKeepComing
