SPECIFICATION Spec
CONSTANTS
    Clients = {c1, c2}
    Worlds = {w1, w2}
    r1 = r1
    r2 = r2
    Runs = {r1, r2}
    Bounds <- OneBound
    None = None
INVARIANTS
    CardIdleCanStart
