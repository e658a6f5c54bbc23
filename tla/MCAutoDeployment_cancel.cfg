SPECIFICATION DeploySpec
CONSTANTS
    c1 = c1
    c2 = c2
    Deployments = {"app"}
    Callers = {c1, c2}
    MaxHistory = 2
    QueueLimit = 1
    Calls = {"trigger", "cancel"}
    AuditFails = FALSE
    MaxRestarts = 0
PROPERTIES
    CompletedIsFinal
CHECK_DEADLOCK FALSE
