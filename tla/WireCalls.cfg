SPECIFICATION WSpec
CONSTANTS
    MaxUnset = 1
    Forms = {"builder", "legacy", "handmade", "cpi_queue", "cpi_other"}
INVARIANTS
    BoundAsMeant
    CompleteCallsServed
    NoNeedlessLocks
    DetachOnlyByQueue
