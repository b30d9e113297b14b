SPECIFICATION Spec
CONSTANTS
    Scenarios <- MCScenarios
    Pools = {1, 2}
    Releases <- MCReleases
    MaxIndex = 2
    Deliveries = 3
    Mishaps = 1
    Times <- MCTimes
    Limit = 1
    WindowLength <- MCWindowLength
    Margin = 1
INVARIANTS
    EachEventOnce
    StoredOrCounted
    StateCatchesUp
    WalkIsWhole
    ReadsAsEmitted
CHECK_DEADLOCK FALSE
