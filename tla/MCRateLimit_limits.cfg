SPECIFICATION RateSpec
CONSTANTS
    Requests = 2
    Window = 3
    Burst = 3
    Strategies = {"sliding", "fixed", "bucket"}
    Backends = {"memory", "redis", "flaky"}
    MaxTime = 7
    MaxGrants = 6
    MaxInflight = 1
    MaxCount = 4
INVARIANTS
    SlidingBound
    CountsBound
    RetryHonoured
CHECK_DEADLOCK FALSE
