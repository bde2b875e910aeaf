CONSTANTS
    MaxQueuedSendData = 1
    MaxQueuedReceivedData = 1
    MaxSends = 2
    MaxReceives = 1
    MaxBlocks = 2
    MaxChanges = 0
    MaxAhead = 1
SPECIFICATION FairSpec
PROPERTY ClosingEnds
\* A closed channel is done.
CHECK_DEADLOCK FALSE
