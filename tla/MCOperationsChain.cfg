CONSTANT MaxOperations = 5
SPECIFICATION FairSpec
INVARIANTS
    FrontIsTheRunningOne
    AliveWhileUsed
PROPERTIES
    KeepsPromise
    AllExecuted
\* The application may stop chaining operations.
CHECK_DEADLOCK FALSE
