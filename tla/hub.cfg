SPECIFICATION Spec
CONSTANTS
    None = None
    Threads = {t1, t2}
    Names = {n1}
    Caps = {c1, c2, c3}
    Protocols = {p1, p2}
    MaxDevices = 2
    MaxRegistered = 3
SYMMETRY HubSymmetry
INVARIANTS
    TypeOK
    CountsAgree
    WithinMaxDevices
