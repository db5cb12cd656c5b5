SPECIFICATION MCSpec
CONSTANTS
    WorkUnits = {w1}
    AttemptIds = {t1, t2, t3}
    AssignmentIds = {a1}
    Workers = {k1}
    Handlers = {h1, h2}
    LeaseDuration = 0
    MaxLeaseVersion = 2
    MaxReplays = 1
    MaxClock = 1
SYMMETRY IdSymmetry
CONSTRAINT AttemptsBound
INVARIANTS
    LeaseGrantedOnce
    QuarantineSound
    StatusBackedByResult
    EventsExplainTables
    AttemptsNumbered
PROPERTIES
    LeaseMovesWithVersion
    LateResultsQuarantined
