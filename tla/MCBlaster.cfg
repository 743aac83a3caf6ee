CONSTANTS
    UINT8 = 3
    UINT16 = 16
    TXFIFO_SIZE = 3
    TX_MAX = 2
    OUT_MAX = 2
    Commands = {73, 194}
    MaxBytes = 4
    Window = 4
    MaxResets = 0
    MaySuspend = FALSE
SPECIFICATION Spec
INVARIANTS TypeOK ReceiveBuffersExclusive
PROPERTIES ClockedByCommandsOnly TransmitBufferStable FifoSpec CpldSpec
CHECK_DEADLOCK FALSE
