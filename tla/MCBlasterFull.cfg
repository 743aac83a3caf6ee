\* The host may have as many replies under way as the ring holds.
CONSTANTS
    UINT8 = 3
    UINT16 = 16
    TXFIFO_SIZE = 3
    TX_MAX = 2
    OUT_MAX = 2
    Commands = {73, 128}
    MaxBytes = 3
    Window = 3
    MaxResets = 0
    MaySuspend = FALSE
SPECIFICATION FairSpec
PROPERTY WorkFinishes
CHECK_DEADLOCK FALSE
