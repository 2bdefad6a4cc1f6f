SPECIFICATION Spec
SYMMETRY Symmetry
CONSTANTS
    Workers = {a, b}
    Lease = 1
    Ring = 2
    MaxGap = 1
    MaxTime = 5
    MaxCount = 3
    MaxEvents = 3
    None = None
INVARIANTS
    TypeOK
    NothingMissed
    CountedOnce
