CONSTANTS
    EP0_SIZE = 2
    TIMEOUT = 1
    Requests <- MCFewRequests
    DropsAddress = TRUE
    MaxSetups = 3
    MaxLost = 0
    MaxResets = 0
SPECIFICATION Spec
PROPERTY AddressAgreed
