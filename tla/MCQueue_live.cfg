SPECIFICATION FairSpec
CONSTANTS
    Tenants = {t1}
    Workers = {w1, w2}
    Ids = {1, 2}
    Kinds = {"good"}
    ClaimBatch = 1
    ClaimTimeout = 0
    Retention = 1
    ExpireLimit = 1
    SinkCap = 3
PROPERTIES
    EveryMessageArrives
