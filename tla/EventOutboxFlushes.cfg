SPECIFICATION Spec
CONSTANTS
    Flushers = {f1, f2}
    Limit = 2
    MaxEvents = 3
    MaxStops = 2
CHECK_DEADLOCK FALSE
INVARIANTS
    WrittenIsInFile
    FileInOrder
    LossBounded
PROPERTIES
    EventsSettle
