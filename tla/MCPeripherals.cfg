\* A ring of four bytes with two-bit indexes; packets of up to three bytes each
\* way, so that batches and packets do not divide the ring.
SPECIFICATION PeripheralsSpec
CONSTANTS
    UINT8 = 4
    UINT16 = 16
    TXFIFO_SIZE = 4
    TX_MAX = 3
    OUT_MAX = 3
    Reply = {r1, r2, r3}
    Bytes = {1, 46, 200}
    Chain = 3
    device_dsc <- the_device_dsc
    attributes = 192  \* _DEFAULT | _SELF
    power = 50
    strings <- the_strings
INVARIANTS TypeOK NoOverflow IndexesAgree ChecksumAccepted StringsFound
PROPERTIES QueueSpec ShiftSpec
