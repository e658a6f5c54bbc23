------------------------------- MODULE Services -------------------------------
(***************************************************************************)
(* The services beside one another.  They run in one process, but share no *)
(* state and call nothing of each other that changes any: a behaviour of   *)
(* the process is, seen from one of them, a behaviour of that one with     *)
(* stuttering steps.  So the steps of the others need not be interleaved   *)
(* with its own: a behaviour here is one of the part that it begins with,  *)
(* and the properties of every part are checked over all of them at once.  *)
(***************************************************************************)
EXTENDS MetricsHub, AlertRules, LogBuffers, SecurityAudit, AuditRetention,
        Environments, Promotions, CICDBuilds, DependencyGraph, LogSearch,
        HealthMonitor, MobileCache, LogIndex, MetricsHistory, Analytics,
        ComposeValidation, EnvFiles, Orchestrator

CONSTANT Parts      \* the services that are looked at

VARIABLE part       \* the one this behaviour is about

servicesVars == <<part, hubVars, alertVars, logVars, auditVars, retentionVars,
                  envVars, promotionVars, buildVars, graphVars, indexVars,
                  healthVars, cacheVars, logIndexVars, historyVars,
                  analysisVars, validationVars, envFileVars, orchestratorVars>>

\* The orchestrator with a Docker daemon that does not fail, no restart, and clients that
\* may turn a service from an image to a compose file, or back, but only while it is
\* stopped: after a PUT that does it to a running one, sleep_service and delete_service
\* take the way of the new runtime and leave what runs running.
Reliable == INSTANCE Orchestrator WITH DockerFails <- FALSE, Restarts <- FALSE,
                Edits <- (Edits \ {"runtime"}) \cup {"idleRuntime"}

-----------------------------------------------------------------------------
ServicesInit ==
    /\ part \in Parts
    /\ part = "alerts" \/ rules = {}        \* the others begin in one state each
    /\ part = "environments" \/ (envRow = FALSE /\ flushing = FALSE)
    /\ part = "promotions" \/ (autoflush = FALSE /\ target = CHOOSE d \in Demands : TRUE)
    /\ part = "dependencies" \/ compose = CHOOSE f \in Files : TRUE
    /\ part = "validation" \/ file = CHOOSE f \in Candidates : TRUE
    /\ HubInit /\ AlertInit /\ LogInit /\ AuditInit /\ RetentionInit /\
       EnvInit /\ PromotionInit /\ BuildInit /\ GraphInit /\ SearchInit /\
       HealthInit /\ CacheInit /\ LogIndexInit /\ HistoryInit /\
       AnalysisInit /\ ValidationInit /\ EnvFilesInit /\ OrchestratorInit

HubPart ==
    /\ part = "hub"
    /\ UNCHANGED <<part, alertVars, logVars, auditVars, retentionVars, envVars,
                   promotionVars, buildVars, graphVars, indexVars, healthVars,
                   cacheVars, logIndexVars, historyVars, analysisVars,
                   validationVars, envFileVars, orchestratorVars>>
    /\ HubNext

AlertPart ==
    /\ part = "alerts"
    /\ UNCHANGED <<part, hubVars, logVars, auditVars, retentionVars, envVars,
                   promotionVars, buildVars, graphVars, indexVars, healthVars,
                   cacheVars, logIndexVars, historyVars, analysisVars,
                   validationVars, envFileVars, orchestratorVars>>
    /\ AlertNext

LogPart ==
    /\ part = "logs"
    /\ UNCHANGED <<part, hubVars, alertVars, auditVars, retentionVars, envVars,
                   promotionVars, buildVars, graphVars, indexVars, healthVars,
                   cacheVars, logIndexVars, historyVars, analysisVars,
                   validationVars, envFileVars, orchestratorVars>>
    /\ LogNext

AuditPart ==
    /\ part = "audit"
    /\ UNCHANGED <<part, hubVars, alertVars, logVars, retentionVars, envVars,
                   promotionVars, buildVars, graphVars, indexVars, healthVars,
                   cacheVars, logIndexVars, historyVars, analysisVars,
                   validationVars, envFileVars, orchestratorVars>>
    /\ AuditNext

RetentionPart ==
    /\ part = "retention"
    /\ UNCHANGED <<part, hubVars, alertVars, logVars, auditVars, envVars,
                   promotionVars, buildVars, graphVars, indexVars, healthVars,
                   cacheVars, logIndexVars, historyVars, analysisVars,
                   validationVars, envFileVars, orchestratorVars>>
    /\ RetentionNext

EnvPart ==
    /\ part = "environments"
    /\ UNCHANGED <<part, hubVars, alertVars, logVars, auditVars, retentionVars,
                   promotionVars, buildVars, graphVars, indexVars, healthVars,
                   cacheVars, logIndexVars, historyVars, analysisVars,
                   validationVars, envFileVars, orchestratorVars>>
    /\ EnvNext

PromotionPart ==
    /\ part = "promotions"
    /\ UNCHANGED <<part, hubVars, alertVars, logVars, auditVars, retentionVars,
                   envVars, buildVars, graphVars, indexVars, healthVars,
                   cacheVars, logIndexVars, historyVars, analysisVars,
                   validationVars, envFileVars, orchestratorVars>>
    /\ PromotionNext

BuildPart ==
    /\ part = "builds"
    /\ UNCHANGED <<part, hubVars, alertVars, logVars, auditVars, retentionVars,
                   envVars, promotionVars, graphVars, indexVars, healthVars,
                   cacheVars, logIndexVars, historyVars, analysisVars,
                   validationVars, envFileVars, orchestratorVars>>
    /\ BuildNext

GraphPart ==
    /\ part = "dependencies"
    /\ UNCHANGED <<part, hubVars, alertVars, logVars, auditVars, retentionVars,
                   envVars, promotionVars, buildVars, indexVars, healthVars,
                   cacheVars, logIndexVars, historyVars, analysisVars,
                   validationVars, envFileVars, orchestratorVars>>
    /\ GraphNext

SearchPart ==
    /\ part = "search"
    /\ UNCHANGED <<part, hubVars, alertVars, logVars, auditVars, retentionVars,
                   envVars, promotionVars, buildVars, graphVars, healthVars,
                   cacheVars, logIndexVars, historyVars, analysisVars,
                   validationVars, envFileVars, orchestratorVars>>
    /\ SearchNext

HealthPart ==
    /\ part = "health"
    /\ UNCHANGED <<part, hubVars, alertVars, logVars, auditVars, retentionVars,
                   envVars, promotionVars, buildVars, graphVars, indexVars,
                   cacheVars, logIndexVars, historyVars, analysisVars,
                   validationVars, envFileVars, orchestratorVars>>
    /\ HealthNext

CachePart ==
    /\ part = "cache"
    /\ UNCHANGED <<part, hubVars, alertVars, logVars, auditVars, retentionVars,
                   envVars, promotionVars, buildVars, graphVars, indexVars,
                   healthVars, logIndexVars, historyVars, analysisVars,
                   validationVars, envFileVars, orchestratorVars>>
    /\ CacheNext

IndexPart ==
    /\ part = "index"
    /\ UNCHANGED <<part, hubVars, alertVars, logVars, auditVars, retentionVars,
                   envVars, promotionVars, buildVars, graphVars, indexVars,
                   healthVars, cacheVars, historyVars, analysisVars,
                   validationVars, envFileVars, orchestratorVars>>
    /\ LogIndexNext

HistoryPart ==
    /\ part = "history"
    /\ UNCHANGED <<part, hubVars, alertVars, logVars, auditVars, retentionVars,
                   envVars, promotionVars, buildVars, graphVars, indexVars,
                   healthVars, cacheVars, logIndexVars, analysisVars,
                   validationVars, envFileVars, orchestratorVars>>
    /\ HistoryNext

AnalysisPart ==
    /\ part = "analytics"
    /\ UNCHANGED <<part, hubVars, alertVars, logVars, auditVars, retentionVars,
                   envVars, promotionVars, buildVars, graphVars, indexVars,
                   healthVars, cacheVars, logIndexVars, historyVars,
                   validationVars, envFileVars, orchestratorVars>>
    /\ AnalysisNext

ValidationPart ==
    /\ part = "validation"
    /\ UNCHANGED <<part, hubVars, alertVars, logVars, auditVars, retentionVars,
                   envVars, promotionVars, buildVars, graphVars, indexVars,
                   healthVars, cacheVars, logIndexVars, historyVars,
                   analysisVars, envFileVars, orchestratorVars>>
    /\ ValidationNext

EnvFilesPart ==
    /\ part = "envfiles"
    /\ UNCHANGED <<part, hubVars, alertVars, logVars, auditVars, retentionVars,
                   envVars, promotionVars, buildVars, graphVars, indexVars,
                   healthVars, cacheVars, logIndexVars, historyVars,
                   analysisVars, validationVars, orchestratorVars>>
    /\ EnvFilesNext

OrchestratorPart ==
    /\ part = "orchestrator"
    /\ UNCHANGED <<part, hubVars, alertVars, logVars, auditVars, retentionVars,
                   envVars, promotionVars, buildVars, graphVars, indexVars,
                   healthVars, cacheVars, logIndexVars, historyVars,
                   analysisVars, validationVars, envFileVars>>
    /\ OrchestratorNext

ReliablePart ==
    /\ part = "reliable"
    /\ UNCHANGED <<part, hubVars, alertVars, logVars, auditVars, retentionVars,
                   envVars, promotionVars, buildVars, graphVars, indexVars,
                   healthVars, cacheVars, logIndexVars, historyVars,
                   analysisVars, validationVars, envFileVars>>
    /\ Reliable!OrchestratorNext

ServicesNext ==
    \/ HubPart \/ AlertPart \/ LogPart \/ AuditPart \/ RetentionPart \/
       EnvPart \/ PromotionPart \/ BuildPart \/ GraphPart \/ SearchPart \/
       HealthPart \/ CachePart \/ IndexPart \/ HistoryPart \/ AnalysisPart \/
       ValidationPart \/ EnvFilesPart \/ OrchestratorPart \/ ReliablePart

\* Each part is fair in its own behaviours (see the fairness of its module).
ServicesFairness ==
    /\ \A l \in Loops : WF_hubVars(part = "hub" /\ Iterate(l))
    /\ \A b \in Broadcasts : WF_hubVars(part = "hub" /\ Notify(b))
    /\ WF_hubVars(part = "hub" /\ WakePing)
    /\ WF_hubVars(part = "hub" /\ Cleanup)
    /\ \A c \in Clients : WF_hubVars(part = "hub" /\ Stranded(c))
    /\ WF_alertVars(part = "alerts" /\ AlertTick)
    /\ \A w \in Pairs : /\ WF_alertVars(part = "alerts" /\ Monitor(w))
                        /\ WF_alertVars(part = "alerts" /\ Escalator(w))
    /\ \A q \in AlertRestarts : WF_alertVars(part = "alerts" /\ GoesOn(q))
    /\ SF_logVars(part = "logs" /\ LoopFree /\ \E f \in Flushers : FlushStep(f))
    /\ SF_logVars(part = "logs" /\ LoopFree /\ WorkerFlushes)
    /\ WF_auditVars(part = "audit" /\ Process)
    /\ \A k \in Cleaners : WF_retentionVars(part = "retention" /\ Clean(k))
    /\ WF_buildVars(part = "builds" /\ Processor)
    /\ \A b \in Builds : /\ WF_buildVars(part = "builds" /\ Task(b))
                         /\ WF_buildVars(part = "builds" /\ Call(b))
    /\ \A t \in 1 .. CheckTasks : WF_healthVars(part = "health" /\ t \in TaskIds /\ CheckTask(t))
    /\ \A s \in Stoppers : WF_healthVars(part = "health" /\ StopReturns(s))

ServicesSpec == ServicesInit /\ [][ServicesNext]_servicesVars /\ ServicesFairness

-----------------------------------------------------------------------------
\* Every variable of the service that is looked at keeps its type.
ServicesTypeOK ==
    /\ part = "hub" => HubTypeOK
    /\ part = "alerts" => AlertTypeOK
    /\ part = "logs" => LogTypeOK
    /\ part = "audit" => AuditTypeOK
    /\ part = "retention" => RetentionTypeOK
    /\ part = "environments" => EnvTypeOK
    /\ part = "promotions" => PromotionTypeOK
    /\ part = "builds" => BuildTypeOK
    /\ part = "dependencies" => GraphTypeOK
    /\ part = "search" => SearchTypeOK
    /\ part = "health" => HealthTypeOK
    /\ part = "cache" => CacheTypeOK
    /\ part = "index" => LogIndexTypeOK
    /\ part = "history" => HistoryTypeOK
    /\ part = "analytics" => AnalysisTypeOK
    /\ part = "validation" => ValidationTypeOK
    /\ part = "envfiles" => EnvFilesTypeOK
    /\ part \in {"orchestrator", "reliable"} => OrchestratorTypeOK

\* While Docker answers, the process lives on, and no client renames a service or changes
\* what a running one runs on, the orchestrator never lists a service as stopped whose
\* container runs, and never loses sight of a running container: the monitor only puts to
\* sleep what is listed as running, and delete_service what it can find.
ReliableDocker == part = "reliable" => StoppedMeansStopped /\ NoOrphan

\* The audit's processor and its cleaner get their work done.
AuditKeepsUp == AuditProcessed /\ LogCleaned

\* What is collected is found: the index on disk is whole, and a search answers from
\* the index in memory with every entry that is due.
LogsFound == IndexWhole /\ SearchFinds

\* What the audit knows is not lost: neither the events under way nor the files.
AuditTrailKept == AuditKept /\ LogKept

\* What the files of a day hold is found again: by a query for the recent metrics, and
\* by the analysis, which recommends something for each trend that calls for it.
DaysFound == RecentFound /\ PassRecommends
===============================================================================
