SPECIFICATION RateSpec
CONSTANTS
    Requests = 2
    Window = 3
    Burst = 3
    Strategies = {"sliding"}
    Backends = {"redis"}
    MaxTime = 6
    MaxGrants = 6
    MaxInflight = 1
    MaxCount = 4
INVARIANTS
    RuleKept
CHECK_DEADLOCK FALSE
