SPECIFICATION Spec
CONSTANTS
    Transactors = {r1, r2}
    Sweeps = {s1}
    PlainWriters = {}
CHECK_DEADLOCK FALSE
INVARIANTS
    NoUnannouncedChange
