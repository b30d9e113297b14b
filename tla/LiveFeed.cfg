\* Pollers that have stopped, and clients that left, may stay so.
CONSTANTS
    Topics <- MCTopics
    LastId <- MCLastId
    PollBatch = 1
    GapSettle = 1
    ChannelCapacity = 1
    MaxStreams = 1
    Clients = {client}
    Requests <- MCRequests
    MaxFailures = 1
    NoMark = unanchored
    NoConn = closed
SPECIFICATION MCSpec
INVARIANTS
    BroadcastOnce
    NothingSkipped
    NoSilentGap
PROPERTIES
    FreshIsBroadcast
CHECK_DEADLOCK FALSE
