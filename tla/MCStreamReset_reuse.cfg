CONSTANTS
    Sids = {0, 1}
    Preopened = {0}
    StartConnected = FALSE
    MaxOpens = 1
    MaxDenials = 1
SPECIFICATION Spec
INVARIANTS
    InitiatedResetIsOutstanding
\* Once every stream is closed nothing has to happen any more.
CHECK_DEADLOCK FALSE
