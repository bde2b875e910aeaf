CONSTANTS
    Sids = {0, 1}
    Preopened = {0, 1}
    StartConnected = TRUE
    MaxOpens = 0
    MaxDenials = 1
SPECIFICATION FairSpec
INVARIANTS
    TypeOK
    NoForgottenReset
    InitiatedResetIsOutstanding
    CompleteStreamsAreGone
    CompletionIsAgreed
PROPERTY ClosingCompletes
\* Once every stream is closed nothing has to happen any more.
CHECK_DEADLOCK FALSE
