CONSTANTS
    Sids = {1, 2}
    BufferSize = 3
    MaxMessages = 3
    MaxResets = 1
SPECIFICATION Spec
INVARIANT NotReadyMeansCongested
\* The bound on messages ends every run.
CHECK_DEADLOCK FALSE
