CONSTANTS
    Threads = {a, b, c}
    Owner = a
    MaxPending = 4
    MaxNested = 2
SPECIFICATION FairInvokerSpec
INVARIANTS
    PendingIsExact
    NoUseAfterDestruction
PROPERTY DestructorEnds
\* After the destructor nothing happens.
CHECK_DEADLOCK FALSE
