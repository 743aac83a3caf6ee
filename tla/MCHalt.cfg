CONSTANTS
    Directions = {"out", "in"}
    MaxPackets = 3
    MaxReplies = 2
    MaxLost = 1
    MaxRequests = 2
SPECIFICATION FairSpec
INVARIANTS TypeOK ArmedWhereSieLooks DeliveredOnce NothingLost RepliesKept
PROPERTY LinkRecovers
CHECK_DEADLOCK FALSE
