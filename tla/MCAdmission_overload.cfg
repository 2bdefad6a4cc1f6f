SPECIFICATION Spec
SYMMETRY Symmetry
CONSTANTS
    Tenants = {t1, t2, t3}
    Requests = {r1}
    TenantCap = 5
    GlobalCap = 4
    FairShareOn = TRUE
    MaxClaimed = 1
INVARIANT
    TotalWithinTwiceCap
