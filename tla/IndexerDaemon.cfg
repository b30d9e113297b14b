\* An exited process takes no step.
CONSTANTS
    QueueCapacity = 2
    MaxConcurrent = 2
    NoTx = NoTx
    Txs = {x1, x2, x3}
    Grace = 2
SPECIFICATION Spec
INVARIANTS
    EachTxOnce
    NoInsertDestroyed
    CleanExitMeansNoError
PROPERTIES
    StopEnds
CHECK_DEADLOCK FALSE
