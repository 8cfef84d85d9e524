CONSTANTS
    Total = 4
    AsyncOps = {4}
    MaxConcurrent = 2
    Workers = 1
    ResultClasses = {"complete", "imported"}
SPECIFICATION Spec
INVARIANTS WithinConcurrency StopsAtFailure
PROPERTIES BatchEnds
CHECK_DEADLOCK FALSE
