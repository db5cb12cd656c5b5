SPECIFICATION SystemSpec
CONSTANTS
    WorkUnits = {w1}
    AttemptIds = {t1, t2}
    AssignmentIds = {a1}
    Workers = {k1}
    Handlers = {h1, h2}
    LeaseDuration = 0
    MaxLeaseVersion = 2
    MaxReplays = 5
    MaxClock = 1
    Daemons = {d1, d2}
    Worker = k1
    NoAssignment = none
    Faults = {"timeout", "crash", "error", "raise"}
    MaxFaults = 2
INVARIANTS
    ExecutedOnce
    SpoolAcceptable
PROPERTIES
    RemovedOnlyWhenRecorded
