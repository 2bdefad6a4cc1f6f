SPECIFICATION Spec
SYMMETRY Symmetry
CONSTANTS
    Tenants = {t1}
    Workers = {w1}
    Ids = {1, 2}
    Kinds = {"good"}
    ClaimBatch = 2
    ClaimTimeout = 0
    Retention = 1
    ExpireLimit = 1
    SinkCap = 3
INVARIANTS
    SinkBounded
