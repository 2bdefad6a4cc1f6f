SPECIFICATION Spec
SYMMETRY Symmetry
CONSTANTS
    Tenants = {t1, t2}
    Workers = {w1, w2}
    Ids = {1, 2}
    Kinds = {"good", "poison", "refused"}
    ClaimBatch = 2
    ClaimTimeout = 0
    Retention = 1
    ExpireLimit = 1
    SinkCap = 3
INVARIANTS
    TypeOK
    LedgerExact
    NoLoss
    SinkCovers
PROPERTIES
    NoResurrection
