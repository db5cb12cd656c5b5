SPECIFICATION FairSystemSpec
CONSTANTS
    WorkUnits = {w1}
    AttemptIds = {t1, t2}
    AssignmentIds = {a1, a2}
    Workers = {k1}
    Handlers = {h1}
    LeaseDuration = 0
    MaxLeaseVersion = 2
    MaxReplays = 4
    MaxClock = 1
    Daemons = {d1}
    Worker = k1
    NoAssignment = none
    Faults = {"timeout", "crash", "error", "raise"}
    MaxFaults = 2
PROPERTIES
    SpoolDrains
    WorkFinishes
