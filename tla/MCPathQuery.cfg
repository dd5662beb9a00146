SPECIFICATION Spec
CONSTANTS
    k1 = k1
    k2 = k2
    k3 = k3
    p = p
    q = q
    MaxEdges = 3
    Blank = Blank
    Key <- MCKey
    Predicate <- MCPredicate
    Databases <- MCDatabases
    Queries <- MCQueries
INVARIANTS PathsSound PathsComplete
PROPERTIES SearchEnds
CHECK_DEADLOCK FALSE
