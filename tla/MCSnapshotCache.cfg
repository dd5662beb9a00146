CONSTANTS
    i1 = i1 i2 = i2 node = node far = far
    Key = {node, far}
    Insert = {i1, i2}
    Query = {q1}
    None = None
    Writes <- MCWrites
    Reads <- MCReads
    Evicts <- MCEvicts
    EvictCapacity = 1
SPECIFICATION FairSpec
INVARIANTS CacheCommitted SnapPredInGraph EvictionWorks
PROPERTIES InsertsReturn
CHECK_DEADLOCK FALSE
