SPECIFICATION Spec
CONSTANTS
    Transactors = {r1, r2, r3, r4}
    Sweeps = {}
    PlainWriters = {}
CHECK_DEADLOCK FALSE
INVARIANTS
    SequenceGapless
PROPERTIES
    IsAtomicStore
