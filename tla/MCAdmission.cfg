SPECIFICATION Spec
SYMMETRY Symmetry
CONSTANTS
    Tenants = {t1, t2, t3}
    Requests = {r1, r2}
    TenantCap = 3
    GlobalCap = 3
    FairShareOn = TRUE
    MaxClaimed = 1
INVARIANTS
    TypeOK
    TenantBounded
    ShareBounded
