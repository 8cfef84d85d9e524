SPECIFICATION Spec
CONSTANTS
    k1 = k1
    k2 = k2
    k3 = k3
    t1 = t1
    t2 = t2
    None = None
    Threads = {t1, t2}
    Keys = {k1, k2}
    Values = {a, b}
    MaxSize = 1
    DefaultTTL = 1
    TTLs = {None}
    MaxAges = {None}
    MaxTime = 1
    Persistence = TRUE
    StoreFails = TRUE
    Restarts = TRUE
    Owner <- OneWriter
INVARIANTS
    Durable
