CONSTANTS
    M = 16
    kMaxPacketAge = 4
    kMaxNackPackets = 2
    kMaxNackRetries = 2
    First = 14
    Last = 20
    MaxJump = 3
    MaxDelay = 2
    MaxKeyframes = 1
    MaxRecovered = 1
SPECIFICATION FairSpec
INVARIANTS
    ListsAreSmall
    NackedAreMissing
    AskedAtMost
    NoSilentLoss
PROPERTY MissingIsResolved
\* All packets may have been received.
CHECK_DEADLOCK FALSE
