SPECIFICATION Spec
CONSTANTS
    b1 = b1
    b2 = b2
    f1 = f1
    f2 = f2
    None = None
    Building = {b1, b2}
    File = {f1, f2}
    FileOf <- OwnFiles
    Worker = {w1, w2}
    MaxEdits = 0
    MaxStarts = 1
    MaxFailures = 1
INVARIANTS LoadsAnew
CHECK_DEADLOCK FALSE
