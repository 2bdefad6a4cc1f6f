SPECIFICATION Spec
VIEW Relative
CONSTANTS
    Procs = {p1, p2}
    Modes = {"async", "passthrough"}
    TTL = 3
    SoftTTL = 1
    Early = 1
    BackoffMin = 1
    BackoffMax = 1
    JitterPct = 0
    RevokedReprobe = 1
    SweepInterval = 1
    TenantInflight = 1
    IngestWaiters = 1
    OpenSlack = 1
    ClockLag = 0
    MaxDEKs = 1
    MaxHandles = 1
    AttemptCap = 0
INVARIANTS
    JoinersShareTheCall
