CONSTANTS
    Slots = {1, 2, 3}
    BankIds = {a, b}
    Unknown = Unknown
    Times = {t1, t2}
    GivenUp = GivenUp
    None = None
    MaxPendingSlots = 1
    MaxPendingPayloads = 2
    MaxKnownSlots = 2
    MaxArrivals = 3
    MaxFacts = 4
SYMMETRY BanksAndTimes
SPECIFICATION MCSpec
INVARIANTS
    WithinBounds
    EachPayloadOnce
    KnownInWindow
    NothingDecidedWaits
PROPERTIES
    BoundsTakeTheirOwnEnd
    VerdictsFollowTheStream
    VerdictIsStable
CHECK_DEADLOCK FALSE
