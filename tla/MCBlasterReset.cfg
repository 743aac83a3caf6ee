\* The host never has more than one reply under way, one less than the ring.
CONSTANTS
    UINT8 = 2
    UINT16 = 16
    TXFIFO_SIZE = 2
    TX_MAX = 1
    OUT_MAX = 2
    Commands = {73,129}
    MaxBytes = 3
    Window = 1
    MaxResets = 1
    MaySuspend = TRUE
SPECIFICATION FairSpec
INVARIANTS PingPongInStep
PROPERTIES CpldSpec PacketsKeepComing WorkFinishes
CHECK_DEADLOCK FALSE
