SPECIFICATION FairSpec
CONSTANTS
    x = x
    y = y
    z = z
    k = k
    RESOLVED = RESOLVED
    UNRESOLVED = UNRESOLVED
    Var = {x, y, z}
    Constant = {k}
    Queries <- TreeQueries
PROPERTIES PlanningEnds
CHECK_DEADLOCK FALSE
