SPECIFICATION Spec
CONSTANTS
    WorkUnits = {w1, w2}
    Accounts = {a1}
    Commands = {c1, c2}
    None = None
    MaxResults = 2
    MaxEntries = 2
    MaxReceipts = 2
    MaxReleases = 2
SYMMETRY IdSymmetry
CONSTRAINT ReleaseBound
INVARIANTS
    ForkNeedsOverlap
    ReceiptBillsItsWork
    ReceiptHashesResolve
CHECK_DEADLOCK FALSE
