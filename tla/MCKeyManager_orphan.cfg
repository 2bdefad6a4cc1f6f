SPECIFICATION Spec
VIEW Relative
CONSTANTS
    Procs = {p1, p2}
    Modes = {"passthrough"}
    TTL = 2
    SoftTTL = 1
    Early = 1
    BackoffMin = 1
    BackoffMax = 1
    JitterPct = 0
    RevokedReprobe = 1
    SweepInterval = 1
    TenantInflight = 1
    IngestWaiters = 1
    OpenSlack = 0
    ClockLag = 0
    MaxDEKs = 2
    MaxHandles = 1
    AttemptCap = 0
INVARIANTS
    NoOrphanMessage
