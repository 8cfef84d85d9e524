SPECIFICATION Spec
CONSTANTS
    k1 = k1
    k2 = k2
    k3 = k3
    t1 = t1
    t2 = t2
    None = None
    Threads = {t1, t2}
    Keys = {k1, k2, k3}
    Values = {a, b}
    MaxSize = 2
    DefaultTTL = 1
    TTLs = {None, 2}
    MaxAges = {None, 1}
    MaxTime = 2
    Persistence = FALSE
    StoreFails = FALSE
    Restarts = FALSE
    Owner <- AnyWriter
SYMMETRY CacheSymmetry
INVARIANTS
    SizeBound
    ObserverInSync
PROPERTIES
    ImplementsLRU
