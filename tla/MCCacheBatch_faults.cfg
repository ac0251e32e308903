CONSTANTS
    node = node
    t1 = t1
    t2 = t2
    Dest = {node, t1, t2}
    Batches <- MCBatches
    MaxGen = 2
    Crashes = TRUE
    RestoreFails = TRUE
SPECIFICATION Spec
INVARIANTS TypeOK LastGoodRecoverable AllOrNothing
PROPERTY ImplementsAtomicStore
\* No batch may be left to start: NewBatch is bounded by MaxGen.
CHECK_DEADLOCK FALSE
