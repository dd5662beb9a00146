SPECIFICATION FairSpec
CONSTANTS
    b1 = b1
    b2 = b2
    f1 = f1
    f2 = f2
    None = None
    Building = {b1, b2}
    File = {f1, f2}
    FileOf <- OwnFiles
    Worker = {w1, w2}
    MaxEdits = 1
    MaxStarts = 2
    MaxFailures = 2
INVARIANTS ClosedWhenQuiet ErrorsFit LoadsUnlessLost SavedMeansLoaded
PROPERTIES StartsEnd
CHECK_DEADLOCK FALSE
