\* The bounds end every behaviour: the slots run out, or the process does.
CONSTANTS
    Slots = {1, 2, 3, 4, 5, 6, 7}
    BankIds = {b}
    Unknown = Unknown
    Times = {t}
    GivenUp = GivenUp
    None = None
    MaxPendingSlots = 3
    MaxPendingPayloads = 2
    MaxKnownSlots = 4
    MaxArrivals = 3
    Protocols = {p}
    MaxWriteFailures = 1
    QueueCapacity = 1
    MaxConcurrent = 1
    NoTx = NoTx
    HeldBackSlots = 2
    Unroutable = {1}
    Malformed = {3}
    TxCount <- MCTxCount
    Untimed = {5}
    StreamBank = b
    Lateness = 2
    MaxSessions = 2
SPECIFICATION Spec
INVARIANT
    RecordedSlotsAreWhole
CHECK_DEADLOCK FALSE
