SPECIFICATION Spec
CONSTANTS
    a1 = a1
    q1 = q1
    q2 = q2
    d1 = d1
    d2 = d2
    d3 = d3
    Agent = {a1}
    Call = {q1, q2}
    AgentOf <- MCAgentOf
    Database = {d1, d2, d3}
    Loaded = {d1, d2}
    From <- MCFrom
    Allowed <- MCAllowed
    MaxCopies = 2
PROPERTIES CallsAreRemoteQueries ResultsTaken
CHECK_DEADLOCK FALSE
