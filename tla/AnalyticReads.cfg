SPECIFICATION Spec
CONSTANTS
    Writers = {w1, w2}
    Txs <- MCTxs
    Late <- MCLate
    Hour = 2
    Margin = 1
    MaxHours = 1
    Day = 2
    RunGap = 1
    Mints <- MCMints
    None = None
    LastNow = 9
    Lists <- MCLists
INVARIANTS
    FactsAreWhole
    AnswersStand
    WalkIsOneList
    CyclesCatchUp
CHECK_DEADLOCK FALSE
