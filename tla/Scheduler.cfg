SPECIFICATION Spec
CONSTANTS
    N = 3
    TwoClass = TRUE
    LightTurns = 2
INVARIANTS
    TypeOK
    NoStarvation
    WorkConserving
