SPECIFICATION ServicesSpec
CONSTANTS
    Parts = {"hub", "alerts", "logs", "audit", "retention", "environments",
             "promotions", "builds", "dependencies", "search", "health", "cache", "index",
             "history", "analytics", "validation", "envfiles",
             "orchestrator", "reliable"}
    Clients = {c1, c2, c3}
    Unreliable = {}
    Broadcasts = {b1}
    MaxClients = 1
    Handshakes = 2
    HubStops = 1
    Rules = {r1}
    Suppressing = {}
    Escalating = {r1}
    Suppression = 1
    EscalationDelay = 1
    RuleChanges = 1
    AlertRestarts = {q1, q2}
    LogContainers = {k1}
    BufferSize = 2
    Lines = 2
    Tasks = {t1, t2}
    LogStops = 1
    WriteFailures = 0
    Sources = {s1}
    Kinds = {{"failure", "user"}}
    MaxEvents = 3
    MaxFailed = 2
    MaxRequests = 1
    Hour = 2
    Minute = 1
    SaveFailures = 0
    MaxExits = 1
    Cleaners = {l1, l2}
    CompressFailures = 1
    ServiceExits = 1
    EnvCalls = {e1, e2, e3}
    Settings = {x1, x2}
    VarKeys = {v1, v2}
    Promos = {p1}
    Voters = {u1, u2, u3}
    MaxApprovals = 3
    MaxVotes = 3
    ConfigChanges = 1
    Aborts = 1
    Builds = {b1, b2}
    MaxConcurrent = 1
    DatabaseFails = TRUE
    MaxRestarts = 0
    Stack = {"web", "api", "db"}
    Strangers = {"ghost"}
    Volumes = {"data"}
    Networks = {"web", "api", "db"}
    Files <- SomeGraphs
    Rebuilds = {i1}
    BatchSize = 1
    LogLines = 2
    Rotations = 1
    SearchEvents = 2
    Checks = {"db"}
    CheckTasks = 3
    Stoppers = {z1, z2}
    History = 3
    MaxFailures = 2
    HealthEvents = 4
    CacheKeys <- SomeKeys
    Askers = {a1, a2}
    MaxSize = 1
    Ttls = {1, 2}
    Slow = 1
    CacheHorizon = 4
    LogIds = {g1, g2}
    SearchTtl = 1
    Retention = 2
    IndexOffsets <- SomeLeads
    LoadLimit = 1
    IndexStarts = 2
    IndexHorizon = 3
    MetricContainers = {"web"}
    DayTicks = 2
    RetentionDays = 3
    Offsets <- SomeOffsets
    Windows = {1, 3}
    Measures = 1
    MetricHorizon = 6
    Analysed = {"web", "db"}
    TrendWindow = 1
    Passes = 2
    AnalysisHorizon = 3
    FileServices = {"web", "api", "db"}
    Missing = {"ghost"}
    Mappings <- SomeMappings
    DockerPorts = {2375}
    Candidates <- SomeFiles
    EnvPaths = {".env", ".env.local", "app.env"}
    Copies = {"env.backup", "app.backup", "env.deleted", "app.deleted"}
    BackupOf <- FolderBackup
    DeletedOf <- FolderDeleted
    MaxVersions = 4
    Interruptions = 2
    Names = {"web", "api"}
    NoService = "none"
    Configured = {"web"}
    Composed = {}
    MaxContainers = 2
    Edits = {"policy"}
    DockerFails = TRUE
    Restarts = TRUE
CHECK_DEADLOCK FALSE
INVARIANTS
    ServicesTypeOK
    ClientsCounted
    BroadcastOnce
    OneAlert
    LogsCollected
    AuditTrailKept
    EnvironmentKept
    QuorumJudged
    BuildsBounded
    LogsFound
    DaysFound
    FailuresCounted
    ServedRecent
    ValidStarts
    Recoverable
    DependentsFirst
    ReportAgrees
    ContainersOwned
    ReliableDocker
PROPERTIES
    Reached
    EscalationKept
    BruteForceReported
    OutcomeKept
