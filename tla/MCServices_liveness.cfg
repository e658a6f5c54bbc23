SPECIFICATION ServicesSpec
CONSTANTS
    Parts = {"hub", "alerts", "logs", "audit", "retention", "builds", "health"}
    Clients = {c1, c2}
    Unreliable = {c1}
    Broadcasts = {}
    MaxClients = 1
    Handshakes = 2
    HubStops = 1
    Rules = {r1}
    Suppressing = {r1}
    Escalating = {r1}
    Suppression = 1
    EscalationDelay = 1
    RuleChanges = 1
    AlertRestarts = {q1}
    LogContainers = {k1, k2}
    BufferSize = 2
    Lines = 1
    Tasks = {t1, t2}
    LogStops = 1
    WriteFailures = 1
    Sources = {s1}
    Kinds = {{"failure", "user"}}
    MaxEvents = 2
    MaxFailed = 2
    MaxRequests = 1
    Hour = 2
    Minute = 1
    SaveFailures = 1
    MaxExits = 1
    Cleaners = {l1, l2}
    CompressFailures = 1
    ServiceExits = 1
    EnvCalls = {e1, e2, e3}
    Settings = {x1, x2}
    VarKeys = {v1, v2}
    Promos = {p1}
    Voters = {u1, u2, u3}
    MaxApprovals = 3
    MaxVotes = 4
    ConfigChanges = 1
    Aborts = 2
    Builds = {b1, b2}
    MaxConcurrent = 1
    DatabaseFails = FALSE
    MaxRestarts = 1
    Stack = {"web", "api", "db"}
    Strangers = {"ghost"}
    Volumes = {"data"}
    Networks = {"web", "api", "db"}
    Files <- SomeGraphs
    Rebuilds = {i1}
    BatchSize = 1
    LogLines = 2
    Rotations = 1
    SearchEvents = 2
    Checks = {"db"}
    CheckTasks = 3
    Stoppers = {z1, z2}
    History = 1
    MaxFailures = 1
    HealthEvents = 4
    CacheKeys <- SomeKeys
    Askers = {a1, a2}
    MaxSize = 1
    Ttls = {1, 2}
    Slow = 1
    CacheHorizon = 4
    LogIds = {g1, g2}
    SearchTtl = 1
    Retention = 2
    IndexOffsets <- SomeLeads
    LoadLimit = 1
    IndexStarts = 2
    IndexHorizon = 3
    MetricContainers = {"web"}
    DayTicks = 2
    RetentionDays = 2
    Offsets <- SomeOffsets
    Windows = {3}
    Measures = 2
    MetricHorizon = 5
    Analysed = {"web", "db"}
    TrendWindow = 2
    Passes = 2
    AnalysisHorizon = 4
    FileServices = {"web", "api", "db"}
    Missing = {"ghost"}
    Mappings <- SomeMappings
    DockerPorts = {2375}
    Candidates <- SomeFiles
    EnvPaths = {".env", ".env.local", "app.env"}
    Copies = {"env.backup", "app.backup", "env.deleted", "app.deleted"}
    BackupOf <- FolderBackup
    DeletedOf <- FolderDeleted
    MaxVersions = 4
    Interruptions = 2
    Names = {"web", "api"}
    NoService = "none"
    Configured = {"web"}
    Composed = {}
    MaxContainers = 3
    Edits = {"policy"}
    DockerFails = FALSE
    Restarts = FALSE
CHECK_DEADLOCK FALSE
PROPERTIES
    Reaped
    AlertsFollow
    Drained
    AuditKeepsUp
    BuildSettles
    MonitorStops
