CONSTANTS
    a = a b = b c = c p = p q = q
    inverseOf = inverseOf
    pPlus = pPlus qPlus = qPlus inverseOfPlus = inverseOfPlus
    Key <- MCKey
    NoKey = NoKey
    InverseOf = inverseOf
    PlusKey <- MCPlusKey
    Batches <- MCBatches
    MaxTransactions = 3
    MaxFailures = 2
SPECIFICATION FairSpec
INVARIANTS TypeOK IndexSound PredInGraph BatchDurable InverseClosed
PROPERTIES NothingLost InsertReturns InsertsAreAtomic
CHECK_DEADLOCK FALSE
