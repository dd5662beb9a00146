SPECIFICATION EngineSpec
CONSTANTS
    x = x
    y = y
    z = z
    w = w
    a = a
    b = b
    c = c
    p = p
    q = q
    RESOLVED = RESOLVED
    UNRESOLVED = UNRESOLVED
    Empty = Empty
    Var = {x, y, z, w}
    Constant = {a, b, c, p, q}
    Queries <- TriangleQueries
    Graphs <- MCGraphs
CHECK_DEADLOCK FALSE
INVARIANTS AllTermsHold
