SPECIFICATION Spec
CHECK_DEADLOCK FALSE
CONSTANTS
    None = None
    Malformed = Malformed
    Blank = Blank
    Gateway = gateway
    Config <- MCConfig
    Texts <- MCTexts
    Edits <- MCEdits
    Requests <- MCRequests
    Returned <- MCReturned
CONSTRAINT DecisionsBound
INVARIANTS
    ApprovedIsPlaced
    PolicyAndRouterAgree
    ValidatedRoutes
    PrivateDataStays
    ImprovementKeepsRoute
    QuoteIsPlan
    DoorsAgree
    VerdictIsSafe
    OwnOutputAccepted
    BilledFairly
