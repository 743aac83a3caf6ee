CONSTANTS
    EP0_SIZE = 2
    TIMEOUT = 1
    Requests <- MCRequests
    DropsAddress = FALSE
    MaxSetups = 4
    MaxLost = 1
    MaxResets = 1
SPECIFICATION Spec
INVARIANTS TypeOK SetupAlwaysPossible PointersInStep AlwaysAnswered
PROPERTY TransferSpec
