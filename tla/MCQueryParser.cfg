SPECIFICATION Spec
CONSTANTS
    Callers = {g1}
    Kinds <- MCKinds
    MaxCalls = 2
INVARIANTS StackParsesText QueryMeansText PanicsOnlyOnParentheses
CHECK_DEADLOCK FALSE
