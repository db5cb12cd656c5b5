SPECIFICATION Spec
CONSTANTS
    Transactors = {r1, r2, r3}
    Sweeps = {s1}
    PlainWriters = {p1}
CHECK_DEADLOCK FALSE
INVARIANTS
    AcknowledgedIsDurable
    NoOrphanTransaction
