SPECIFICATION LimiterSpec
CONSTANTS
    Requests = 2
    Window = 3
    Token = 3
    Rate = 2
    Capacity = 4
    Amounts = {3, 5}
    MaxTime = 6
INVARIANTS
    WindowBound
    WaitIsExact
    BurstBound
    PromiseKept
