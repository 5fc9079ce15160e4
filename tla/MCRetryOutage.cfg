\* DefaultConfig: 5 s, 10 attempts, 200 ms to 10 s, 30 s, in units of 200 ms.
CONSTANTS
    RequestTimeout = 25
    AttemptLimits = {5, 10}
    DefaultAttempts = 10
    BackoffBase = 1
    BackoffMax = 50
    RetryBudget = 150
    Second = 5
    DurationLimit = 1024
    DelaySeconds = {4, 10, 100, 300, 420}
    Dates = {3}
    RefusedFor = 100
    DownFor = 110
SPECIFICATION ClockSpec
INVARIANT OutageLosesNothing
