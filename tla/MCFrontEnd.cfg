SPECIFICATION Spec
CONSTANTS
    c1 = c1
    c2 = c2
    c3 = c3
    d1 = d1
    d2 = d2
    d3 = d3
    b1 = b1
    b2 = b2
    k1 = k1
    k2 = k2
    Caller = {c1, c2}
    DB = {d1, d2, d3}
    Branch = {b1, b2}
    Full <- MCFull
    VarsOf <- MCVarsOf
    URI <- MCURI
    Variable <- MCVariable
    Leftover <- MCLeftover
    Contents <- MCContents
    Queries <- MCQueries
    Unseen <- MCUnseen
    Key = {k1, k2}
    Reads <- MCReads
    Under <- MCUnder
    Own <- MCOwn
    FailingDBs = {d2}
INVARIANTS AnswersWhatWasFound CountsRows SeesEarlierInserts FailuresNamed
PROPERTIES CallsReturn
CHECK_DEADLOCK FALSE
