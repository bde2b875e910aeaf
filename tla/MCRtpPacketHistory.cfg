CONSTANTS
    M = 8
    kMaxCapacity = 3
    kMaxPaddingHistory = 3
    number_to_store = 2
    Numbers = {7, 0, 2}
    MaxInserted = 3
    MaxTimes = 2
    MaxResets = 1
SPECIFICATION Spec
INVARIANTS
    EntriesAreInPlace
    PaddingIsStored
    PendingIsQueued
PROPERTY CullingKeepsPending
\* Every packet may have been stored and every retransmission sent.
CHECK_DEADLOCK FALSE
