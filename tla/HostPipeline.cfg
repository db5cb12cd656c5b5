SPECIFICATION Spec
CONSTANTS
    WorkUnits = {w1}
    Requests = {r1, r2}
    None = None
    MaxResults = 2
    MaxErrors = 2
INVARIANTS
    WorkIsApproved
    SucceededIsVerified
PROPERTIES
    ResultIsShown
CHECK_DEADLOCK FALSE
