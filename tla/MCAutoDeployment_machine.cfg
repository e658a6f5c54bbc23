SPECIFICATION DeploySpec
CONSTANTS
    c1 = c1
    c2 = c2
    Deployments = {"app"}
    Callers = {c1, c2}
    MaxHistory = 3
    QueueLimit = 1
    Calls = {"trigger", "rollback"}
    AuditFails = FALSE
    MaxRestarts = 0
PROPERTIES
    ImplementsMachine
CHECK_DEADLOCK FALSE
