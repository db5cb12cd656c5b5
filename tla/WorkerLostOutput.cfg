SPECIFICATION SystemSpec
CONSTANTS
    WorkUnits = {w1}
    AttemptIds = {t1}
    AssignmentIds = {a1}
    Workers = {k1}
    Handlers = {h1, h2}
    LeaseDuration = 0
    MaxLeaseVersion = 2
    MaxReplays = 4
    MaxClock = 0
    Daemons = {d1}
    Worker = k1
    NoAssignment = none
    Faults = {"timeout"}
    MaxFaults = 1
PROPERTIES
    SubmitFailureIsSpooled
