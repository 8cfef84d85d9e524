SPECIFICATION Spec
CONSTANTS
    None = None
    Threads = {t1, t2}
    FailureThreshold = 1
    RecoveryTimeout = 0
    HalfOpenMaxCalls = 1
    MaxFailureCount = 1
    Interrupts = FALSE
    Confirm = TRUE
    Limited = TRUE
    Unreliable = TRUE
    Manual = TRUE
    ByOrder = TRUE
    Fieldless = Fieldless
    ResultClasses = {"complete", "imported"}
SYMMETRY ThreadSymmetry
INVARIANTS
    ConfirmedMeansReached
    VerifiedConsistent
