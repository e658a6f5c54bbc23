SPECIFICATION DeploySpec
CONSTANTS
    c1 = c1
    c2 = c2
    Deployments = {"app"}
    Callers = {c1, c2}
    MaxHistory = 3
    QueueLimit = 1
    Calls = {"trigger", "rollback", "cancel"}
    AuditFails = TRUE
    MaxRestarts = 1
SYMMETRY CallerSymmetry
INVARIANTS
    DeployTypeOK
    DeployedIsUp
CHECK_DEADLOCK FALSE
