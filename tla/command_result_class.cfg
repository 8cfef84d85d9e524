SPECIFICATION Spec
CONSTANTS
    None = None
    Threads = {t1}
    FailureThreshold = 1
    RecoveryTimeout = 0
    HalfOpenMaxCalls = 1
    MaxFailureCount = 1
    Interrupts = FALSE
    Confirm = TRUE
    Limited = FALSE
    Unreliable = FALSE
    Manual = FALSE
    ByOrder = FALSE
    Fieldless = Fieldless
    ResultClasses = {"imported"}
INVARIANTS
    CommandReturns
