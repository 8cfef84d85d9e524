SPECIFICATION FairSpec
CONSTANTS
    Threads = {t1, t2, t3}
    FailureThreshold = 2
    RecoveryTimeout = 2
    HalfOpenMaxCalls = 2
    MaxFailureCount = 3
    Interrupts = TRUE
INVARIANTS
    TypeOK
    ClosedBelowThreshold
    ProbesAccountedFor
    NoWedge
PROPERTIES
    ImplementsContract
    OpenIsTried
    HalfOpenDecides
