CONSTANTS
    MaxSid = 1
    OpenedBy1 = {1, 2}
    OpenedBy2 = {}
    Early = {1}
    MaxData = 2
    MaxOverflows = 1
    MaxLosses = 1
    CloseAfterAck = TRUE
SPECIFICATION FairSpec
INVARIANTS
    UsedSidsAreListed
    SignalsReachTheirChannel
PROPERTY BothEndsClose
\* All channels may be closed.
CHECK_DEADLOCK FALSE
