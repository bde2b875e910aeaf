CONSTANTS
    MaxQueuedSendData = 2
    MaxQueuedReceivedData = 1
    MaxSends = 3
    MaxReceives = 2
    MaxBlocks = 2
    MaxChanges = 1
    MaxAhead = 1
SPECIFICATION Spec
INVARIANTS
    ReceiveOrder
    SendOrder
    OpenBeforeData
    AmountDoesNotWrap
    BlockedQueueIsWoken
PROPERTY KeepsContract
\* A closed channel is done.
CHECK_DEADLOCK FALSE
