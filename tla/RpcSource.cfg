\* A source that has returned takes no step.
CONSTANTS
    Targets = {pool1, pool2}
    MaxNotes = 2
    MaxAttempts = 2
    StageCapacity = 1
    MaxFetches = 1
    FetchRetries = 1
    Room = 1
    NoNote = none
SPECIFICATION Spec
INVARIANTS
    NoSilentLoss
    NoFailureSwallowed
PROPERTIES
    SourceEnds
    ImplementsPort
CHECK_DEADLOCK FALSE
