CONSTANTS
    Threads = {a, b, c}
    Busy = {a}
    MaxCalls = 3
    MaxQuits = 1
SPECIFICATION FairSpec
INVARIANTS
    NoLostWakeUp
    NoSendDeadlock
PROPERTY EverythingIsHandled
\* All threads may sleep or have exited.
CHECK_DEADLOCK FALSE
