CONSTANTS
    Directions = {"out"}
    MaxPackets = 3
    MaxReplies = 0
    MaxLost = 0
    MaxRequests = 1
SPECIFICATION Spec
INVARIANT ActiveEntry
CHECK_DEADLOCK FALSE
