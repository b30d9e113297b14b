SPECIFICATION Spec
CONSTANTS
    MintA = a
    MintB = b
    ReserveA = 1
    ReserveB = 4
    StorageCeiling = 100
    NoPrice = NoPrice
    Interval = 1
    MaxGap = 3
    RetryMax = 4
    LowValueEvery = 2
    NeverPricedEvery = 3
    LowValueBelow = 3
    Grace = 2
    Window = 7
    ChunkMax = 2
    AddressSlot <- MCAddressSlot
    DetectorInterval = 2
    Cooldown = 5
    MaxPriceAge = 5
    MaxSpotAge = 7
    MinTvl = 6
    Threshold = 50
    Critical = 100
    Prices <- MCPrices
    PriceB = 2
    Spots <- MCSpots
    MaxTick = 1
    MaxDetectorTick = 0
    Lag = 6
    MaxUpsets = 2
    LastNow = 11
INVARIANTS
    PricesStayCurrent
    DeviationIsTold
    SignalsEscalate
    RememberedIsWritten
CHECK_DEADLOCK FALSE
