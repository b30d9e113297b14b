\* A stopped recorder, its last session over, has nothing left to do.
CONSTANTS
    Protocols = {p, q}
    MaxWriteFailures = 2
    MaxSessions = 2
    MaxSlot = 3
SPECIFICATION Spec
INVARIANTS
    NoSpanIsForgotten
PROPERTIES
    RowsWithinSpans
    EndedSessionsAreWritten
CHECK_DEADLOCK FALSE
