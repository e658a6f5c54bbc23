SPECIFICATION DeploySpec
CONSTANTS
    c1 = c1
    c2 = c2
    Deployments = {"app"}
    Callers = {c1, c2}
    MaxHistory = 2
    QueueLimit = 1
    Calls = {"trigger"}
    AuditFails = FALSE
    MaxRestarts = 0
INVARIANTS
    FailingIsStopped
CHECK_DEADLOCK FALSE
