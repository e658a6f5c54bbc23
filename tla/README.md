# WakeDock in TLA+

A verification project for the WakeDock backend: TLA+ modules of the parts that
carry its logic, TLC configurations that check them on small instances, and
TLAPS proofs for every value of the constants. Paths are relative to the
repository; `core/` and `api/` are short for `wakedock/core/` and
`wakedock/api/`. To repeat a result, in this directory:

    tlc -config MCServices_safety.cfg MCServices      # any MC module with its .cfg
    tlapm OrchestratorProofs.tla                      # any *Proofs module

`PROJECT.json` lists the runs, the lines of code each definition stands for,
the mutants that show that each property can fail, the hazards and the
theorems.

## 1. The system

WakeDock is a FastAPI process. It starts a container when a request for its
subdomain arrives, stops it when it is idle, and around that core it deploys
from Git, runs CI builds, limits request rates, watches metrics, raises alerts,
collects and searches logs, keeps an audit and manages environments. Everything
runs in one asyncio event loop. This is what decides the grain of the models:
code between two `await`s is atomic, and every `await` on something real (the
database, an HTTP call, a sleep, a queue) is a point where any other handler may
run. The Docker client is synchronous, so Docker calls are not such points; nor
are the file operations of the services that open files the ordinary way. A
synchronous call that waits stops the whole process: the log collector waits so
for the next line of a container (`core/log_collector.py:185`), and until that
comes nothing else runs.

### Inventory

| component | state | operations | talks to | what makes it correct |
|---|---|---|---|---|
| Docker orchestrator (`core/orchestrator.py`) | dictionary of services, `container_map` | create, update, delete, wake, sleep, probe | Docker (sync), Caddy | no two services hold one container; a service holds the container of its name; "stopped" is stopped; nothing runs that no service knows |
| proxy middleware (`api/middleware.py`) | none of its own | dispatch, proxy | orchestrator, the container over HTTP | a client that keeps asking is served |
| monitoring service (`core/monitoring.py`) | `metrics_history` | collect, decide, put to sleep | orchestrator | an idle service goes to sleep, one in use is not kept down |
| auto-deployment (`core/auto_deployment_service.py`) | tables of deployments and history, bounded queue, `active_deployments`, Docker containers | trigger, roll back, cancel, delete, process, clean up at start | database, Git, Docker, audit service | no request lost or executed twice; what is listed as deployed is up; every request ends; cancel and rollback do what they say |
| rate limiting (`security/rate_limit.py`) | memory or Redis, per rule and identifier | three limiters, middleware | Redis | never more than the rule; a caller who waits as told gets in |
| CI/CD (`core/cicd_service.py`) | table of builds, queue, `active_builds` | trigger, process, execute, cancel, start | database, GitHub (simulated) | the limit holds; the entries are the running builds; every build settles |
| WebSocket hub (`core/websocket_service.py`) | connected clients, subscriptions | connect, subscribe, broadcast, ping, stop | browsers | limit of clients; every subscriber gets every alert, once; dead clients leave |
| metrics history (`core/metrics_collector.py`) | monitored containers, one file a day | collect, store, query, clean | Docker, files | a query finds what was measured and is due |
| analytics (`core/advanced_analytics.py`) | files of trends and recommendations | analyse, recommend | metrics history, files | each trend that calls for it is recommended |
| alerts (`core/alerts_service.py`) | rules, active alerts, timers, suppression | evaluate, notify, acknowledge, resolve, escalate | metrics, mail and chat | one alert per rule and container; it ends, unless acknowledged |
| environments and promotions (`core/environment_service.py`) | configurations, variables, promotions, approvals | create, update, set variables, promote, approve, reject, deploy | database, RBAC, audit | what was written is there, but for what calls that overlap lose; deployed only with enough approvals |
| log collector (`core/log_collector.py`) | task and buffer per container, files | monitor, append, flush, rotate | Docker, files | a monitored container keeps its task; each line written once; none stays in a buffer |
| log search (`core/log_search_service.py`) | SQLite index of lines and terms, last position per file | index, search, clean | SQLite, files | what is indexed is whole |
| log optimisation (`core/log_optimization_service.py`) | index in memory and in SQLite | index, search, load, clean | SQLite | a search finds what is due |
| security audit (`core/security_audit_service.py`) | queue, failed attempts, table, encrypted log a day | log, process, detect, compress, clean up | database, files | no event or log lost; brute force is reported |
| dependency manager (`core/dependency_manager.py`) | a graph | sort, cycles, levels | Compose files | an order that respects dependencies; the reports agree |
| Compose validation (`core/compose_validator.py`) | errors of one file | validate | Compose files | a file judged valid can be started |
| environment files (`core/env_manager.py`) | files, backups | create, save, delete, load | files | the last version can be had back |
| health monitor (`core/health.py`) | checks, tasks, results, failure counts | register, start, stop, check | anything checked | the count is that of the results; stopping ends every task |
| mobile cache (`core/mobile_cache.py`) | entries with a time to live | get, compute, put, evict | the routes | nothing too old is served |
| Swarm, RBAC, authentication, profiles, dashboards, Caddy, API middleware, wiring | rows of the database or none | one call per request | | section 7 says what is left out and why |

How they meet: the middleware and the monitor share the orchestrator's
dictionary and nothing else, and each acts on what the other changes; the API's
calls and the deployment processor share the two tables, the queue and
`active_deployments`; the CI processor, its tasks and `cancel_build` share
`active_builds`; the limiters share a Redis that may fail under some of their
calls. The other services share the process and the event loop, but none
changes the state of another (`Services` below).

The hard behaviours, which `PROJECT.json` lists line by line under "hazards":
state cached in an entry while Docker changes it; samples from before a sleep
that count after the wake; transactions of a call that interleave with those of
the processor; a cancellation that lands on any `await`; a start that overlaps a
stop; a process that ends between two commits, or in the middle of a file; a
queue that is full; a store that fails and is replaced by another for one call;
a loop over a dictionary that changes meanwhile; midnight between two steps;
local time compared with UTC; time in whole seconds; a session that is unusable
after one failed flush; a wait that blocks the event loop.

### What the program does not start

The repository is a work in progress, and not all of it runs as committed:

- `create_app` (`api/app.py`) uses `monitoring.router`, `analytics.router` and
  `alerts.router` where these names are its parameters, which hold services, so
  `main.py` falls back to a minimal application; `main.py` starts the monitor
  only if the application has an attribute nobody sets. The orchestrator,
  middleware and monitor are modelled as the code wires them where it does, with
  the monitor started. The routes of user preferences import names from
  `core/auth_middleware.py`, which is empty.
- `core/cicd_service.py` and other services of the 0.6 series import names that
  `core/database.py` and `core/config.py` do not define; the audit service has
  no `log_event` and the RBAC service no `check_permission`, which the
  deployment and the environment service call.
- `core/dependencies.py:147-160` makes a new `AutoDeploymentService` for each
  request, with a queue and an `active_deployments` of its own, from a session
  factory (`get_async_session`) that `database/database.py` does not define;
  `start_service`, which makes the processor, is called by nothing. `AutoDeployment`
  is the model of one service that was started and that all calls share, which
  is what the class is written for; with a service per request nothing that is
  queued would ever be executed.
- `RateLimitMiddleware` is not installed by the application, and
  `get_rate_limiter` uses `os` without importing it, so it always falls back to
  memory unless `init_rate_limiting` is handed a client.
- `core/alerts_service.py` fails to import (a dataclass field without a default
  after one with a default).
- `core/docker_manager.py` has no `get_container_info` and
  `get_container_stats`, which the metrics and log collectors call: the
  collection of a container's logs ends at once, and no metrics are discovered.
- `main.py` builds the log optimisation, alerts and analytics services and
  starts none of them; `core/health.py` is imported by nothing, and
  `cached_response` of the mobile cache has no caller.

The modules model what the code of each component does when it runs; where a
missing method makes a step raise, the model has that outcome (`AuditFails`).

## 2. Modules

| module | models | is checked by |
|---|---|---|
| `Orchestrator` | `DockerOrchestrator`, its API routes, the Docker daemon | `MCServices`, and `MCWakeOnDemand` through the next |
| `WakeOnDemand` | middleware, monitor and clients; EXTENDS `Orchestrator` and composes with it | `MCWakeOnDemand` |
| `DeploymentMachine` | abstract: the state machine of a deployment request | `AutoDeployment` (`Machine`) |
| `AutoDeployment` | the deployment service, with its API calls and processor | `MCAutoDeployment` |
| `RateLimit` | one rule of the limiter manager, the middleware | `MCRateLimit` |
| `CICDBuilds` | the build queue, processor, tasks and cancellation | `MCServices` |
| `MetricsHub` | the WebSocket hub, its workers and handlers, and the alerts it broadcasts | `MCServices`, `MCMetricsHub` |
| `MetricsHistory` | the measuring worker, the files of the days, queries, the cleaner | `MCServices` |
| `Analytics` | the hourly analysis and its files | `MCServices` |
| `DayFiles` | what the two have in common: which days a query reads | |
| `AlertRules` | rules, evaluation, escalation, suppression, restarts | `MCServices` |
| `LogBuffers` | the log collector's tasks, buffers and flushes | `MCServices` |
| `LogSearch` | the SQLite index of lines and terms, with the collector as its environment | `MCServices` |
| `LogIndex` | the index of log entries in memory and its copy on disk | `MCServices` |
| `SecurityAudit` | events, detection of anomalies, the queue and its processor | `MCServices` |
| `AuditRetention` | the cleaners of the encrypted logs | `MCServices` |
| `Environments` | the row and the variables of an environment | `MCServices` |
| `Promotions` | promotions, votes and deployment | `MCServices` |
| `DependencyGraph` | edges of a Compose file, Kahn's sort, the search for cycles, the levels | `MCServices`, `MCDependencyGraph` |
| `ComposeValidation` | the checks of a Compose file and the verdict | `MCServices` |
| `EnvFiles` | rewriting and deleting environment files, with their copies | `MCServices` |
| `HealthMonitor` | the health checks' tasks, registration, start and stop | `MCServices` |
| `MobileCache` | the cache of responses and the requests that fill it | `MCServices` |
| `Services` | the services of the last column beside one another | `MCServices` |
| `OrchestratorProofs`, `AutoDeploymentProofs`, `RateLimitProofs` | theorems about the module each is named after | `tlapm` |
| `MonitoringProofs` | theorems about `HealthMonitor`, `MetricsHub`, `MetricsHistory`, `Analytics` | `tlapm` |
| `LogProofs` | theorems about `LogBuffers`, `LogSearch`, `LogIndex`, `SecurityAudit`, `AuditRetention` | `tlapm` |
| `ReleaseProofs` | theorems about `EnvFiles`, `Environments`, `Promotions`, `CICDBuilds` | `tlapm` |
| `ComposeProofs` | theorems about `DependencyGraph` and `ComposeValidation` | `tlapm` |
| `ServicesProofs` | theorems about `AlertRules`, `MobileCache` and the whole of `Services`; EXTENDS the other proofs but those of deployments and of the limiter | `tlapm` |

A definition whose comment begins with "Fault for" is a variant of the next
one with a plausible bug; no specification uses it. Each property has one that
violates it.

### Services

Seventeen services of the process share no state and call nothing of one another
that changes any, and no property relates two of them. A behaviour of the process
is therefore, seen from one, a behaviour of that one with stuttering steps;
`Services` is their disjoint sum: `part` says which service a behaviour is about,
is chosen at the beginning and never changes, and each `...Part` is the
next-state relation of one service with the others unchanged. The part
"orchestrator" is the orchestrator with a Docker daemon that fails and a process
that restarts. The part "reliable" is it without both, and with one restriction
of the clients, which `Edits` names: the image or Compose file of a service
("runtime") is changed only while the service is stopped ("idleRuntime"). The
code accepts such a change at any time and then leaves the old container running
(section 5), so the promises of this part do not hold without it. A part that
begins in several states pins the initial choices of the others, so that nothing
is explored twice. Some properties are conjunctions of promises of one service,
or of two that belong together; their parts are named definitions of the modules:

| property | is |
|---|---|
| `ServicesTypeOK` | the type invariant of the part looked at |
| `ClientsCounted` | `ActiveIsConnected`, `Overshoot` |
| `LogsCollected` | `MonitoredHasTask`, `SavedOnce` |
| `LogsFound` | `IndexWhole` (log search), `SearchFinds` (log index) |
| `DaysFound` | `RecentFound` (history), `PassRecommends` (analytics) |
| `AuditTrailKept` | `AuditKept` (events), `LogKept` (files) |
| `AuditKeepsUp` | `AuditProcessed`, `LogCleaned` |
| `EnvironmentKept` | `ConfigKept`, `KeysOnce`, `ValuesKept` |
| `QuorumJudged` | `QuorumButOne`, `PendingIsShort` |
| `BuildsBounded` | `ExecutingIsTracked`, `AtMostConcurrent` |
| `ContainersOwned` | `OneHolder`, `HoldsItsOwn` |
| `ReliableDocker` | `StoppedMeansStopped`, `NoOrphan` |
| `CountsBound` | `FixedBound`, `BucketBound` |
| `AlertsFollow` | `Alarmed`, `Cleared` |

### Orchestrator

`services` is the dictionary, keyed by the name its id was made of;
`container_map` the map; `docker` the daemon: which container exists under each
name, which run, which Compose projects are up, and the next id. Every handler
is one action, because the Docker client is synchronous and nothing in a
handler yields. A handler that calls Docker is an operator from a service entry
and a daemon to the set of its outcomes (`StartImage`, `StartCompose`, `Wake`,
`Slept`, `Sleep`, `Probed`): the same operators are used by the middleware and
the monitor. With `DockerFails` a call may fail before it does anything or, for
`containers.run`, after it has created the container.

The environment is `ContainerExits`, `ContainerRemoved` (an operator) and
`Restart`. Left out: the Caddy calls of wake and sleep, since no entry ever has
the key "domain" they test; the subdomain, identified with the service.

### WakeOnDemand

The three actors of the title: `Dispatch` is `ProxyMiddleware.dispatch` up to
its first real `await`, `ProxyAnswer` the rest of a proxied request,
`MonitoringPass` one round of the monitor (`_collect_metrics` then
`_check_auto_shutdown`, without an `await` that yields between them). Time is
counted in passes: `metrics_history` keeps what the last `Window` passes
sampled, a sample being the set of resources that were low. `ShouldShutdown`
is the code's rule: at least three samples, and at least 80 % of them low, for
cpu and for memory. The branch of `_should_shutdown_service` that looks at
`last_accessed` is dead, since nothing sets it.

`Management` is the rest of the API and Docker's own steps, `RestartAll` the
restart, `LoadChanges` a service getting busy or quiet.

### AutoDeployment

Each transaction is a step. A call of the API is a record in `calls` that says
which transaction is next; the processor is `proc`. `TakeTask` to `FinishTask`
follow `_execute_deployment`, each with the failure that leads to `HandleFailure`;
containers are named by the request that made them, and whether it made them as
the new one or in a rollback. `Restart` is the end of the process at any point
followed by `start_service`, whose `_cleanup_stale_deployments` is part of the
action. The check, the put and the "queued" update of `trigger_deployment` are
three steps, so a second trigger and the processor run between them.

All statements of the service go through the one session it was made with
(`:66`), which nothing rolls back. After a flush that fails, as the insert of a
row for a deployment that was deleted meanwhile does, `session` is "broken" and
every later statement raises, those of the error handling included (`:1323`):
`HandleFailure` then changes no row, and a request that was pending stays so.
`RefreshHistory` is the statement between the commit of a row and the put. Since
the session is shared, a commit of one task could also write what another has
only flushed; the model takes the statements of a transaction together. That the
database refuses a row without its deployment is assumed of it (PostgreSQL does;
SQLite does when it is told to).

Left out: the text of configurations, the scan's result beyond pass or raise,
metrics beyond the foreign key that refuses them, creating and updating a
configuration, the webhook's signature, secrets and access to logs.

### DeploymentMachine

The docstring of `core/auto_deployment_service.py` describes a deployment as
pending, building, deploying, then success or failed. The abstract module says
so, with weak fairness: each request comes to an end. `AutoDeployment!Machine`
maps each history row to a request and is checked as a property.

### RateLimit

One rule and one identifier, since the code keys all state by the two. The
actions are `Request`, `Response` and `Second`. Each of the three limiters is an
operator for memory, one for Redis, and one for the fall-back to memory after
Redis has failed, which may or may not have written before it did. `grants`,
`told` and `refused` are histories for the properties. Tokens are counted in
units of one Window-th, so that the refill is an integer. The middleware's
second check of each admitted request (for the headers) is a step like the
first, because the code makes it through the same limiter.

### CICDBuilds

`task` says at which `await` the task of each build is, `cancels` where a call
of `cancel_build` is, `processor` whether the capacity has been checked. A
cancellation marks the task (`killed`); `CancelledError` reaches it later, at
the `await` it is suspended on, where the statement it had sent may have been
applied (`Interrupt`). With `DatabaseFails` a statement may fail; `lost`
records for the properties the builds of which one did, or which a restart
left behind. Left out: integrations and webhooks, the simulated steps (only
their result), `stop()`.

### MetricsHub

The clients are a dictionary, and every broadcast and the ping worker loop over
it with an `await` inside. `entries` keeps them in order with holes where one
left, as an iterator in the middle of the loop sees them; a loop remembers how
many entries there were and ends with Python's "changed size" error when that
has changed. A client may be silent (`mute`) or gone, so that sends to it fail;
it leaves through its handler, the ping worker, the cleanup worker or `stop()`,
whose pair of start and stop may be interleaved with all of them. A dropped
connection is never closed, since the test (`core/websocket_service.py:361`)
reads an enumeration member that is always true: its handler goes on reading
from a client no broadcast reaches (`Stranded`). Whether `accept` and `send`
suspend is up to the server; both happen.

### MetricsHistory, Analytics, DayFiles

Time is counted in ticks, `DayTicks` to the day, and midnight may pass at every
`await`: opening a file, reading one, sleeping. `DayFiles` has the rule of both
services for which days to read, which reckons each day from the time at which it
comes to the file. `MetricsHistory` is the worker (measure, then write each
line), the cleaner, and a query that reads file by file. `Offsets` are how far
local time is ahead of UTC or behind it, since the cleaner compares the local
time of a file's last write with UTC (`core/metrics_collector.py:532`). A file is
looked for (`FindFile`) and then opened (`ReadFile`); when the cleaner has
removed it in between, the whole query fails and is answered with nothing
(`:579-582`, `:610-612`). Windows are whole days, as the API's bounds of 1 to 168
hours (`monitoring.py:169`, `:250`) come out in files; fractions of an hour are
left out. Its thresholds, callbacks and rates are a free choice: any measure may
raise an alert line. `Analytics` is the pass: trends, storing, reading back,
recommending; storing what it recommends may fail or be cut off. Left out: limits
on the number of lines (taken as not reached), and the reports.

### AlertRules

A rule and its container are one. `alerts` holds the life of each alert, with
its level and its age; `working` the pairs of monitoring and escalation workers:
two restarts that overlap leave two pairs, since `stop()` knows only the last
(`core/alerts_service.py:285`). A pass of a worker evaluates rule after rule
with an `await` at each notification, where rules may be added or removed, which
ends the pass by an error. Acknowledging and resolving by hand interleave. Left
out: the text, grouping, history files, the file of the rules and its saving.

### LogBuffers, LogSearch, LogIndex

`LogBuffers`: a task reads without suspending until its buffer is full, waiting
in the event loop itself for each line: while one is `reading`, the only steps
there are are the next line and the end of the stream (`ReadLine`, `StreamEnds`),
and a container that says nothing stops the process with a buffer part full. It
then flushes with an `await` at each line; the task itself, the worker,
`remove_container` and `stop` may flush one buffer together. A cancelled task
runs its `finally` later, and takes out the entry of the task that came after it.
`spoiled` marks a container for which one of the named exceptions of `SavedOnce`
has happened. `LogSearch`: two transactions for each batch (rows, then terms
under the ids it asks for again), the full indexing, the worker's incremental one
from the last position, rotation, and the end of the process; `lame` and `skewed`
are the files a failure or a rotation spoils until the next full indexing: a file
is lame if an error or the end of the process met an indexing in the middle of it
(`CutAt`), or before a full indexing came to it. `LogIndex`: memory and disk as
two sets of entries, answers kept for a while, the worker that forgets, and a
start that loads only the newest. Docker's timestamps are UTC and the worker's
cutoff is local time (`core/log_optimization_service.py:540`); `IndexOffsets` are
the hours between.

### SecurityAudit, AuditRetention

An event is queued and looked at for brute force as it is logged (failed logins
of the address in the last hour, compared with an open edge). The call of a known
user then awaits the query of `_detect_unusual_time_access` (`querying`) before
it counts the request (`CountRequest`, requests in the last minute), so the
counting follows the order of the answers, not of the events. A queued event is
saved by one processor in the table and then in the file; `stop()` and the end of
the process cut it short. The step after the saves calls a method that does not
exist, which is caught. `AuditRetention` has one log, which grows old, and any
number of cleaners: each `start()` and each call of `/maintenance/cleanup` begins
one that never ends, and the original is removed whether or not the compression
succeeded.

### Environments, Promotions

Every request has a session of its own and takes no lock, so each call is a read
and a commit, with other calls between. Whether a query first flushes what the
session holds depends on the session factory (`database/database.py:62` turns it
off, `get_async_session` that `core/dependencies.py` imports does not exist);
both are modelled (`flushing`, `autoflush`). `stale`, `crossed` and `blind` are
histories: settings written back by a call that had read an older row, keys that
two calls set at once, promotions that two votes overlapped on. `unstored` are
the keys that a call which overwrites has removed while it meant to write them
(without the flush the row it adds and the row it deletes are one); `storedBy` is
who wrote each key last.

### DependencyGraph, ComposeValidation

Two algorithms over Compose files. `DependencyGraph` is the sort, the search
for cycles and the levels of the dependency manager, one node at a step; sets
and dictionaries are taken in any order. `ComposeValidation` is the validator's
own checks and its recursive search, with the stack explicit, and the verdict of
`/compose/validate`; the dependency manager's errors do not reach that verdict,
since it raises first (`core/dependency_manager.py:301`).

### EnvFiles

A file is the version its last write gave it, or cut off. Opening a file for
writing empties it, so each write is two steps with `CutOff` possible between:
an error, or the end of the process. `.env`, `.env.local` and `.env.production`
share the names of their copies; `excused` are the files of the exceptions that
`Recoverable` names.

### HealthMonitor

One task for each check at a start; registering makes none and unregistering ends
none. Every result that is not unhealthy, also a check's own UNKNOWN, starts the
count of failures anew (`core/health.py:181`). `StopMonitor` cancels and
`StopReturns` waits and then clears the list, together with the tasks that a
start made meanwhile. A check under `wait_for` may lose its cancellation (Python
3.11).

### MobileCache

`Miss`, `ReadData` and `StoreData` are a request that makes its data, during
which others run; data is the time at which it was read, which is what the
property compares. Eviction makes room even for a key that is there.

## 3. Runs

| run | instance | question | states |
|---|---|---|---|
| `wake_recovery` | one service, a window of five samples, any load, API clients, Docker's steps and restarts before it gets quiet | is a client served, does an idle service sleep, after any history? | 409 944 |
| `deploy_crash` | two callers, three requests, a queue of one, trigger, rollback, cancel, one restart, failing audit | is a deployment listed as deployed up? | 3 694 178 |
| `deploy_queue` | two requests, a queue of one, trigger, cancel, delete | is a request lost, executed twice, or never finished? | 185 195 |
| `deploy_machine` | trigger and rollback, three requests | does the service implement the state machine it describes? | 113 944 |
| `deploy_cancel` | (violation) | is a completed request final? | |
| `deploy_rollback` | (violation) | is the failing container gone after a rollback? | |
| `rate_limits` | rule of 2 in 3 seconds, burst 3, seven seconds, all limiters and stores | which bound does each limiter keep? | 3 678 615 |
| `rate_redis` | (violation) sliding window in Redis | does it keep to the rule? | |
| `services_safety` | every part of `Services` | the safety promises of each | 1 899 127 |
| `services_liveness` | hub, alerts, logs, audit, retention, builds, health; smaller, with one failure each | what their workers owe | 97 489 |
| `hub_broadcast` | (violation) three clients, one alert | does an alert reach every subscriber? | |
| `dependency_order` | (violation) the graphs of two services | does a service start after what it depends on? | |

### What they show

- `ContainersOwned`: a wake that fails half-way leaves a created container that
  the next wake adopts, and ids of removed containers never come to name
  somebody else's. It holds while clients do not rename services (section 5).
- `ReliableDocker`: with a daemon that works, no restart, and clients that change an
  image or a Compose file only of a service that is stopped, the status the monitor
  trusts is right where it matters, and every running container can
  still be stopped through some service.
- `Served`: a client that retries is served by a service that is really in use,
  although the monitor decides on samples from before its last sleep and may
  stop the service between the wake and the retry. The premise is only that API
  clients, Docker's own exits and restarts come to an end; what the clients and the
  monitor do to one another from then on, wakes and sleeps without end included,
  is what is checked. It is stated for services
  that run from an image; section 5 says what happens to Compose services.
- `IdleSleeps`: a service known to run that uses neither cpu nor memory does not
  stay up, however often it is woken.
- `DeployedIsUp`: through cancels, a failed rollback, double triggers and a
  crash at every step.
- `HeldOnce`, `PendingIsHeld`, `RequestCompletes`: the queue's hand-over, with
  the blocking put, the latter two while the session is usable: a deletion in the
  middle of a request breaks it, and what was pending then stays pending. That
  nothing else breaks it is the theorem `SessionStaysUsable`.
- `ImplementsMachine`: refinement, liveness included, as long as nobody cancels
  or deletes, the audit service answers and the process does not restart.
  Outside these conditions the history does leave the machine.
- `SlidingBound`: in memory. `CountsBound`: in every store, twice the bound with
  a Redis that fails on and off, since two stores then count separately.
  `RetryHonoured`: for the sliding window (not with a flaky Redis) and the fixed
  window.
- `BuildsBounded`: the processor checks the number of active builds, waits, and
  then starts one without checking again; the limit holds because nobody else
  adds. `BuildSettles`: through cancellations that land on any `await`.
- `ClientsCounted`: the limit is passed by the handshakes in flight together,
  less one, and by no more; each of the four ways out counts a client out once.
  `BroadcastOnce`, `Reached`: a broadcast that nobody joins during reaches every
  subscriber, and none twice; the run `hub_broadcast` shows what a join does.
  `Reaped`: a dead client is taken out although the ping worker loses its list
  whenever its loop raises.
- `OneAlert`, `EscalationKept`: with two pairs of workers after overlapping
  restarts. `AlertsFollow`: in both directions, once the metrics settle and
  unless somebody has acknowledged; an acknowledged alert stays (section 5).
- `LogsCollected`: what spoils a log is named, and nothing else does. `Drained`:
  what is in a buffer comes out of it, if the event loop is not blocked for good;
  the code lets a silent container block it, and then the buffer stays.
- `LogsFound`: an index that overlapping indexings cut short at any await is still a
  beginning of the file, with its terms, and after a restart so is that of each file
  that no indexing was in the middle of; the file that one was in may have a row
  without its terms until the next full indexing. A search in memory misses nothing
  that is within the retention by the local clock and older than an answer is kept.
- `DaysFound`: midnight loses no line of a query, with local time ahead of UTC or
  behind, and no trend of a pass that stores what it recommends. A query loses
  its answer to the cleaner only when it reads files about as old as the
  retention.
- `AuditTrailKept`: only an event that the processor held at a stop or an exit,
  and a log whose compression failed or was cut, can be lost. A burst goes
  unreported up to twice the threshold of counted requests. `BruteForceReported`:
  exactly from the `MaxFailed`-th login of an hour. `AuditKeepsUp`.
- `EnvironmentKept`, `QuorumJudged`, `OutcomeKept`: what interleaved calls can
  spoil is named (a stale write-back of another setting, a doubled row, a variable
  that overwriting removes, a vote that overlaps another), and nothing else is.
- `DependentsFirst`: the order is one to stop in. `ReportAgrees`: sort, search
  and levels agree on every graph of the instance. `ValidStarts`: the verdict
  "circular" is given exactly when there is no order, and a valid file can start.
- `Recoverable`: one cut write loses nothing; two in a row may.
- `FailuresCounted`, `MonitorStops`, `ServedRecent`: through registrations and
  overlapping starts and stops; the premise of `MonitorStops` is that nobody
  starts the monitor again.

Deadlock is checked in `wake_recovery`. The deployment model stops when its
requests are used up, the rate model when its time is, the algorithms of
`Services` when they are done.

### Bounds

Every bound is a constant with a comment that begins "bound", or that names the
limit of the code it stands for. They are chosen so that what the properties are
about occurs: two services, since `OneHolder` relates two, and two containers, so
that one is replaced while the other service has none (theorem
`ContainersOwnedHolds` is for any number); a window of five samples, so that the
80 % threshold falls on 4 of 5; three deployment requests, because a rollback
needs two successes and then makes a third request; a queue of one with two
callers, so that a put blocks; seven seconds for windows of three, so that a
window ends, another passes and Redis has dropped a bucket (after twice the
window); a limit of one build, and of two builds one waits; a limit of one client
with two handshakes in flight and three clients, so that the limit is passed and
one is still refused; two restarts of the alerts, so that two pairs of workers
exist; three voters of which two may overlap, with a demand of up to three; two
cleaners on one log; two lines in batches of one with one rotation; days of two
ticks, so that midnight falls between any two steps; local time equal to UTC, and
one tick off on the side on which the cleaner comes too early; two interruptions
on three files of which two share their copies' names. Each property is violated
by a mutant on the instance that checks it, which shows that the instance is
large enough for that property to fail. The liveness instance is smaller, since
TLC keeps a graph of it, and has one failure of each kind, so that a worker must
recover.

`MaxContainers` also keeps an operator from removing a container when no other
could be created: otherwise the bound, not the code, would keep a client from
being served.

### Fairness

- `WakeOnDemand`: the loading page reloads itself (`templates/loading.py`), so
  a waiting client dispatches again; a proxied request ends, by the container's
  answer or the HTTP client's timeout; the monitor's loop sleeps a fixed time.
  Nothing is assumed of API clients, Docker or the load. `Served` and
  `IdleSleeps` carry their own premises: from some time on nobody else acts
  (`Undisturbed`: `outside` is "quiet" for good) and the load stays what it is.
- `AutoDeployment`: the event loop runs a task that can run (weak fairness of
  the processor and of each call already made). New calls are not fair.
  That the steps between end assumes that the Git and Docker clients return,
  with a result or an error: only stopping a container, the health check's
  connection and Docker's own API calls carry a timeout, and the
  `deployment_timeout` of the service is never applied.
- `ServicesFairness`: the same for every service: a coroutine that can run does
  (a loop that has begun goes on, a flush, a cleaner, the processor, a build's
  task, a call already made), and a worker that sleeps wakes up. Nobody has to
  connect, log, trigger, cancel, register or stop. A check ends, since the code
  runs it under a timeout. Of the log collector strong fairness is assumed, for
  the times at which no task waits for a line in the event loop: what is ready
  then has its turn, since the loop's queue is first in, first out. That the loop
  is free again and again is not assumed but is the premise of `Drained`. The
  other services' fairness does assume that nobody blocks the loop for good;
  `Services` has no state in which one service blocks another.
- `RateLimit`, and the parts that are not in `services_liveness`, have no
  liveness: nothing in them waits for anything but its own next step.

## 4. Findings

Runs that end in a violation, each against a line of the repository:

1. **Cancelling does not stop a deployment** (`deploy_cancel`,
   `core/auto_deployment_service.py:1341`). `cancel_deployment` writes
   "cancelled" to both rows; the processor goes on and overwrites it.
2. **A rollback removes the wrong container** (`deploy_rollback`, `:866`).
   `current_container_id` still names the backed-up container when
   `_perform_rollback` stops "the failing one"; the failing one keeps running.
3. **The sliding window in Redis grants more than its rule** (`rate_redis`,
   `security/rate_limit.py:99`). The member of the sorted set is the second, so
   two requests of one second count once, and a refusal removes a granted
   request's member.
4. **A broadcast misses subscribers** (`hub_broadcast`,
   `core/websocket_service.py:420`). A client that connects or leaves while the
   loop awaits changes the dictionary, the loop raises, and the clients after it
   get nothing.
5. **The start-up order is the reverse of one** (`dependency_order`,
   `core/dependency_manager.py:164`). The sort begins with the services
   nobody depends on, so each comes before the ones it depends on.

## 5. Divergences met while modelling, without a run

Orchestrator
: `delete_service` ignores whether the sleep worked (`core/orchestrator.py:121`),
  so a container may outlive its service. The image or Compose file of a running
  service may be changed by PUT (`:107-110`); a sleep or a delete then leaves the
  old one running (`:275`), which is why `ReliableDocker` has its premise. A
  rename followed by a create gives two services one container name (`:71`),
  which is why `OneHolder` has the premise that clients do not rename. A
  container woken a second time is not put back into `container_map` (`:203`);
  nothing reads it. After a restart a service whose container still runs is
  listed as stopped (`:44`), so the monitor does not stop it until a request has
  woken it.

WakeOnDemand
: A Compose service records no container id, so `is_service_running` is false,
  and each request starts the project again and is answered 202
  (`core/orchestrator.py:256`, `api/middleware.py:59`). `grace_period` is never
  read (`config.py:62`), so the pass after a wake may stop the service at once.
  A service created without `auto_shutdown` makes the decision raise and never
  sleeps (`core/monitoring.py:115`).

AutoDeployment
: A success is overwritten with "failed" because `log_event` does not exist on
  the audit service (`:384`). A failure is not written to the deployment's row,
  which stays "building" or "deploying" and refuses further triggers until a
  restart (`:1313`). A late "queued" overwrites "building" (`:218`), and a second
  trigger gets past the check (`:188`). After a restart a request pending for
  less than two hours stays pending (`:1252`). A crash between removing the
  container and committing a delete leaves a deployment listed without one; one
  between the two commits of a success leaves the status "success".
  `rollback_deployment` deploys the head of the branch again. A
  failed flush is never rolled back (`:66`, `:202`, `:354`), so that every later
  statement of the service raises, the error handling's own included (`:1323`), and
  nothing is recorded until a restart. The wiring makes a service for each
  request (section 1).

RateLimit
: The middleware checks each admitted request twice (`:596`), which halves the
  rule. `retry_after` of the token bucket is rounded down, to zero (`:357`). A
  Redis that has dropped a bucket gives it back full, which is more than the
  refill when the burst exceeds twice the limit; `RateAssumption` excludes that.

CICDBuilds
: A build cancelled while it is queued is executed all the same, and its row
  goes from "cancelled" to "success" (`core/cicd_service.py:457`). Builds that a
  crash interrupted are never settled (`:124`). A failed update of a row is only
  logged (`:729`). Two builds of an integration in one second get one id (`:318`).
  `stop()` cancels the builds but not the processor (`:141`).

MetricsHub
: A connection that the hub drops, or that `stop()` ends, is not closed
  (`core/websocket_service.py:361`). The streaming worker asks for a fraction of
  an hour, for which `range()` raises, so metrics are never streamed
  (`core/metrics_collector.py:574`).

MetricsHistory, Analytics
: A container that is gone is never taken out of `monitored_containers`, since
  the branch for "not found" is not reached (`core/metrics_collector.py:225`). A
  query that reaches its limit returns the oldest lines of today. After midnight
  in the middle of a query today's file is read twice, and duplicates count
  toward the limit. A query for about the retention may miss what the cleaner,
  which compares local with UTC time, has removed
  (`core/metrics_collector.py:532`); when it removes a file between the test and
  the opening (`:582`), the query returns nothing at all. Each trend is
  recommended anew by every pass for six hours; daily and weekly reports get one
  `report_id`; reports are due only in minute 0 of the hour; listing the recent
  ones steps back 30 days a file and skips February on 1 March.

AlertRules
: An acknowledged alert is never resolved by the metrics, and blocks its rule
  and container until somebody resolves it (`core/alerts_service.py:889`). The
  alert of a deleted rule stays. Overlapping restarts leave two pairs of workers,
  which nothing can stop. A stop while an alert is being notified leaves it
  without that notification. The file of the rules is emptied before it is
  written.

Logs
: Reading a container's stream blocks the event loop until its next line
  (`core/log_collector.py:185`): one silent container stops the process. Entries
  are forgotten by local time while theirs is UTC
  (`core/log_optimization_service.py:540`), hours too early where local time is
  ahead. The task of a container that is added again is ended by the `finally` of
  the one that was cancelled (`core/log_collector.py:210`). Rotation takes up
  files that were rotated already. A new task reads the last hour once more.
  After a rotation the incremental index skips the new file's lines until it
  outgrows the old, and a search shows other lines
  (`core/log_search_service.py:241`). A line that is half written when it is read
  is skipped. In the log optimisation the `DELETE` on the full-text table always
  fails, so what was rotated comes back at a restart; a save that fails leaves
  the entry in memory only (`core/log_optimization_service.py:289`); compressing
  a file may lose what was appended between the read and the removal.

Security audit
: The processor calls `_update_behavior_patterns`, which does not exist, for
  every event, so `task_done` is never called. A start during a stop leaves no
  processor. `/maintenance/cleanup` awaits a loop without end. A compression
  that failed still removes the original (`core/security_audit_service.py:514`),
  and an incomplete `.gz` is later taken for a whole one.

Environments, promotions
: The audit call after each commit raises, so the caller sees an error of a
  change that was made. A rule's `min_approvals` has no default (it counts as
  one); approvers who overlap each deploy; a rejection may be overwritten; one
  user may vote twice; an approval counts twice when the session flushes before
  the query (`core/environment_service.py:604`). Without that, overwriting an
  existing variable deletes it.

Compose files
: Services without networks all share "default", which gives the graph a pair
  of opposite edges for every two of them. `has_circular` lets a `KeyError`
  escape for a service that is missing (`core/dependency_manager.py:151`), and
  `validate_dependencies` raises (`:301`), so that no stack is deployed and its
  errors never reach the verdict of `/compose/validate`. The validator passes
  over ranges and variables of ports, takes a lone container port for one of the
  host, and reports two addresses or protocols of one port as a conflict.

Environment files
: `.env`, `.env.local` and `.env.production` share one backup and one deleted
  copy. A save that is repeated after a cut one copies the cut file over the
  good backup (`core/env_manager.py:153`). POST always fails
  (`Path().ctime()`). GET masks secrets, and a PUT of what was got writes the
  mask back; descriptions and quotes are lost on the way; a name that begins
  with `_` makes the file unreadable.

HealthMonitor
: Registering a check of a running monitor starts no task, unregistering ends
  none. Tasks that a start adds while a stop waits are forgotten
  (`core/health.py:146`). With Python 3.11 a lost cancellation makes a stop wait
  for ever if the monitor is started again meanwhile.

MobileCache
: Requests that miss together make the data each, and the older may overwrite
  the newer (`core/mobile_cache.py:395`). A full cache evicts an entry when a key
  it holds is overwritten (`:175`). `None` is never cached.

## 6. Proofs

Every theorem is for any sets and bounds that satisfy the modules' named
assumptions; TLC evaluates these assumptions in the runs. The last column gives
what is assumed beyond them.

| theorem | statement | assumed besides |
|---|---|---|
| `OrchestratorTypeCorrect` | `OrchestratorSpec => []OrchestratorTypeOK` | |
| `ContainersOwnedHolds` | `OrchestratorSpec => []ContainersOwned` | `"name" \notin Edits` |
| `RunsListedHolds` | `OrchestratorSpec => [](StoppedMeansStopped /\ NoOrphan)` | `Calm`: Docker answers, no restart, edited are policies and the runtime of stopped services only |
| `ReliableDockerHolds` | `ServicesSpec => []ReliableDocker` | `"name" \notin Edits`; the part "reliable" restricts its clients (section 2) |
| `DeployTypeCorrect` | `DeploySpec => []DeployTypeOK` | |
| `HeldOnceHolds` | `DeploySpec => []HeldOnce` | |
| `PendingIsHeldHolds` | `DeploySpec => [](restarts = 0 => PendingIsHeld)` | |
| `SessionStaysUsable` | `DeploySpec => []Usable` | `"delete" \notin Calls` |
| `DeployedIsUpHolds` | `DeploySpec => []("delete" \notin Calls \/ restarts = 0 => DeployedIsUp)` | |
| `MachineIsImplemented` | `DeploySpec => Machine!MachineInit /\ [][Machine!MachineNext]_RowStates` | `Calm`: trigger and rollback only, the audit service answers, no restart |
| `RateTypeCorrect` | `RateSpec => []RateTypeOK` | |
| `SlidingBoundHolds` | `RateSpec => []SlidingBound` | |
| `FixedBoundHolds`, `CountsBoundHolds` | `RateSpec => []FixedBound`, `RateSpec => []CountsBound` | |
| `RetryHonouredHolds` | `RateSpec => []RetryHonoured` | |
| `HubTypeCorrect` | `HubSpec => []HubTypeOK` | |
| `ClientsCountedHolds` | `HubSpec => []ClientsCounted` | |
| `BroadcastOnceHolds`, `ReachedHolds` | `HubSpec => []BroadcastOnce`, `HubSpec => Reached` | |
| `HealthTypeCorrect`, `FailuresCountedHolds` | `HealthSpec => []HealthTypeOK`, `HealthSpec => []FailuresCounted` | |
| `LogTypeCorrect` | `LogSpec => []LogTypeOK` | |
| `LogsCollectedHolds` | `LogSpec => []LogsCollected` | |
| `OneAlertHolds`, `EscalationKeptHolds` | `AlertSpec => []OneAlert`, `AlertSpec => EscalationKept` | |
| `IndexWholeHolds`, `SearchTypeCorrect` | `SearchSpec => []IndexWhole`, `SearchSpec => []SearchTypeOK` | |
| `SearchFindsHolds` | `LogIndexSpec => []SearchFinds` | |
| `LogsFoundHolds` | `ServicesSpec => []LogsFound` | |
| `BruteForceReportedHolds`, `AuditTypeCorrect` | `AuditSpec => BruteForceReported`, `AuditSpec => []AuditTypeOK` | |
| `AuditTrailKeptHolds` | `ServicesSpec => []AuditTrailKept` | |
| `DaysFoundHolds` | `ServicesSpec => []DaysFound` | |
| `ServedRecentHolds` | `CacheSpec => []ServedRecent` | |
| `BuildTypeCorrect`, `BuildsBoundedHolds` | `BuildSpec => []BuildTypeOK`, `BuildSpec => []BuildsBounded` | |
| `EnvironmentKeptHolds` | `EnvSpec => []EnvironmentKept` | |
| `QuorumJudgedHolds`, `OutcomeKeptHolds` | `PromotionSpec => []QuorumJudged`, `PromotionSpec => OutcomeKept` | |
| `PromotionTypeCorrect` | `PromotionSpec => []PromotionTypeOK` | |
| `RecoverableHolds` | `EnvFilesSpec => []Recoverable` | |
| `DependentsFirstHolds`, `SortJudgesHolds` | `GraphSpec => []DependentsFirst`, `GraphSpec => []SortJudges` | |
| `ReportAgreesHolds`, `GraphTypeCorrect` | `GraphSpec => []ReportAgrees`, `GraphSpec => []GraphTypeOK` | |
| `ValidStartsHolds`, `ValidationTypeCorrect` | `ValidationSpec => []ValidStarts`, `ValidationSpec => []ValidationTypeOK` | |
| `ServicesTypeCorrect` | `ServicesSpec => []ServicesTypeOK` | |

The argument of each, by its inductive invariant:

**ContainersOwned.** That two services hold different ids is not inductive: a
wake could hand out an id an entry still remembers. `HoldInv` adds that the name
of an entry is its id (this is what a rename breaks), that every id in an entry
or at the daemon was handed out before, that a container has one name, and
`HoldsItsOwn`. The proof first describes what any outcome of a wake or a sleep
may do to ids (`Legal`: keep the containers and hold the old id, none, or the
one under the service's name; or add a fresh one under that name), shows it of
each outcome operator (`WakeIsLegal`, `SleepIsLegal`), and then needs only that
description for the four handlers that apply an outcome.

**ReliableDocker.** `RunsListed` says in one formula what the two properties say
from their two sides: whatever runs is listed as running under the id it runs
with. Without failures each outcome leaves it so (`Lists`). The part "reliable"
of `Services` is an orchestrator with other constants: `Steady` instantiates the
proofs with them, and `SteadyStep` shows that its steps are steps of that
instance.

**HeldOnce, PendingIsHeld.** The type invariant, with `NamesRequest` (a call that
is putting, and a processor that is busy, name a request), is inductive. Only
four kinds of step move a request: the insert makes a fresh id, the put moves it
from the call to the queue, the take from the queue to the processor, a restart
drops all. Frame lemmas (`NothingMovesKeeps`, `NothingMovesKeepsPending`) dispose
of every other step. `PendingInv` adds that the processor only lets go of a
request whose row it has written (`Handled`), as it does while the session is
usable.

**SessionStaysUsable.** A flush fails only on a row whose deployment is gone.
`AllThere`: without deletions every deployment is there, and no call is one that
deletes; so whatever else fails, no insert does.

**DeployedIsUp.** `UpInv` says whose a container is: the one a deployment points to
was made by a request of that deployment (`Owned`), which no call and no queue
holds any more (`Spent`), so that nothing stops it later as a container of its
own; while the processor works on a deployment, nobody lists it as deployed, and
the container it has started stays up (`Busy`). The theorem excludes a restart in
the middle of a delete, which is forgotten (section 5).

**MachineIsImplemented.** The safety half of the refinement. `PhaseInv` ties each
row to who works on it: what waits is pending, and the status of what the
processor executes is that of the point it has come to. With `HeldOnce` no other
step writes the row. The fairness half is left to TLC.

**SlidingBound.** `SlidingInv` adds that grants lie in the past (`Past`) and that
the list holds every grant still in the window, and no more than the limit
(`ListInv`). A grant in second t can only be added to windows that end at or
after t; what those contain is in the list as pruned, which had fewer than the
limit.

**FixedBound, BucketBound.** `FixedInv`: in each window no more was granted than
the stores have counted, each up to the limit. `SpentInv`: since any second, what
was granted and the tokens that are left are at most the burst and what was
refilled since; a bucket that Redis has dropped comes back full, which is as much
as it would have been refilled. With two stores both double.

**RetryHonoured.** `RetryInv` says of the first refusal what the promise is made of:
for the fixed window, that it names the end of its window, after which every
counter is zero; for the sliding one, that nothing granted or recorded is left in
the window by then.

**The hub.** `CountInv`: each client is in the dictionary once, with a handler, and
those in it and those on their way in keep the limit together (`Limits`).
`HubInv` adds where each loop is: a client behind its position was sent the
alert or is gone, one ahead was not (`NotYet`, `Unsent`, `OwedReached`).

**LogsCollected.** `LogTypes` counts the buffers: each that is not in use by a
container was left behind by a stop that has ended (`ListsLeft`), so there are
always enough. For each container that nothing has spoiled, `Sound` says that at
most one flush works on its buffer and that file and buffer, from where the flush
is, are the lines from one on; `StopSees` that a stop does not forget a
container before it has flushed it.

**IndexWhole.** `TasksFit` and `IndexRowsFit` say what a task holds between its
transactions: lines that are there, ids that were given out, and terms that are
those of the row under the id. Both except the paths a rotation has changed under
a task (`skewed`): a file that a rotation removes has changed every path.
`Termed`: a row has its terms, or some task holds its id and is going to insert
them, or is going to ask for it. `Filled` is what makes the rest of a file follow
from its beginning: a line without a row, below one that has a row, is among
those that some full indexing is still going to read. It is never left to the
worker, which begins at its last position. The end of the process excepts the
file each task is in, and those a full indexing has not come to (`CutAt`,
`todo`). Whenever no task is at work there is thus neither a row without terms
nor a gap.

**SearchFinds.** `InMemory`: what is on disk is in memory while the program runs,
unless it is past the retention by the clock of the worker (`IndexOffsets` is any
set of offsets), or was crowded out by later entries when a start loaded only the
newest. An entry that is crowded out stays so, since entries with later times are
only added on disk. `Acknowledged`: an answer that is kept has all that was
acknowledged before it was found.

**Alerts.** `RoomForWorkers` counts the pairs of workers: as many restarts as have
not come to an end may still add one. That a rule has one alert follows from
`OneOpen`, which needs no counting.

**The audit.** `SavingInv`: each event is queued, or it is in the table and in
the file unless it was dropped from there, or is about to be; and the three are
in order. `BurstInv` justifies the window of the detection, which begins anew a
minute after it began. It speaks of the requests as they were counted (`tally`),
in whatever order their queries were answered: there is one at which the current
window began, such that what was counted before it is at least as old as the
window, and neither the young ones before it nor the ones since go unreported
beyond the limit. The two together give twice the limit in any minute. For the
failed logins (`Remembered`), each attempt that is remembered is a failed login
and as old, and none of the last hour is missing. `RetentionInv`: before the log
is removed there is a whole compressed one, or one is being written.
`AuditBounds`, that what is reported, dropped and being saved are events,
completes the types.

**FailuresCounted.** `Fits`, of a count and a history: with the run of results
since the last good one shorter than the history, the count is the number of
failures in it, up to the limit; otherwise it is that or more, since older
failures may have been forgotten. Every result that is not unhealthy is the end
of a run. A result that is stored moves the history down by one place at most,
and the run and its failures with it (`StoredOne`).

**DaysFound.** `LinesKept`: each line of the time of retention is in its file,
which the cleaner leaves there because it was last written to when the line was, or
later. `Reading`: a query has got what it has due of the days it has read, reckoned
from the clock as it is now; that clock is at most one tick past the query's
window, and a query reads one file more than the days it looks back, which is enough
for the one midnight that can pass (`FilesEnough`). The analysis of trends is argued
likewise (`Gathering`).

**The cache.** `CacheInv`: data is stored soon after it was read, and what is in the
cache expires within the longest time to live after that.

**CI/CD.** `BuildInv` adds `Waiting` (a build on its way to the processor is on
it once and has no task, so that starting it does not restart one that was
killed) and `Capacity` (after its check the processor still has a free place
when it starts the next build, since only the processor adds an entry).
`AtMostConcurrent` follows from `Capacity` and `ExecutingIsTracked`.

**Environments.** `ConfigInv`: a call that has read the row knows who set each
setting last, except for what it has missed. `VariablesInv`: two calls that set a
key at once are noticed (`SettersCross`), and what a call has found is all there
is of its key, but for what it removes (`FindsCover`). `ValuesInv`: the row of a
key has the value of the call that stored it last, and is there if there was such a
call; what a call has found is of its keys.

**Promotions.** `CallsFit` says at each point of a call what it has seen: one that
deploys or completes has seen enough approvals, or there were none to see. A
promotion that two calls did not overlap on is undecided while one is under way
(`Alone`). The types of the votes bound their number, which needs a count of its
own: a call that is under way casts one vote at most, so the votes cast and the
calls under way together keep the bound (`VotesFit`).

**Environment files.** `FilesInv`: a whole file is the last version, one that was
cut has that version in its backup, and an update still has in the file what it
has read until the backup is written.

**Kahn's sort.** `SortInv` says: while the sort runs, the in-degree of a service
counts the edges into it from services that are not in the result
(`DegreesCounted`), what is queued or placed has none left (`NoneWaits`),
everything without one is queued or placed (`NoneForgotten`), and nothing is
there twice. The step that takes a service lowers the degree of each target by
the number of edges between the two, which is what the cardinality lemmas are
for. `DependentsFirst` follows from `NoneWaits`. When the queue runs empty with
services left over, each of them has an edge from one of them (`CycleFound`):
such a set is what `Circular` means. With all services placed, conversely, the
first of such a set to be placed would have nothing before it.

**ReportAgrees.** The search for cycles: each service on the path is a target of
the one before (`OnThePath`), so one met again closes a cycle, whose services are
a set that is `Circular` (`CycleIsCircular`). As long as none was found, what was
left can be given places, each after those of its targets (`InReverse`): a set of
which each depends on another would have a member without a last place
(`LeftIsNotCircular`). No induction over paths is needed, since the places are
extended by one whenever a service is left. The levels: a level has what its
services depend on one level before at the latest, and something of it there
(`OneAfter`), so each service is on the first level it can be on (`LevelIs`), and
what is in a circle remains (`OnOneLevel`).

**ValidStarts.** The validator's recursive search, with its stack explicit, is
argued like the search above: a dependency that is on the way closes a circle, of
which no order has a first (`NoOrderWithCycle`), and what has returned can be
started in the order it returned in (`ReturnedInOrder`). Once everything was
visited, that is an order of all (`OrderWithoutCycle`). `ErrorsFit` says which
checks were made at each stage, and what they have found.

**ServicesTypeOK.** Each part's types are the first conjunct of its invariant, and
a step of `Services` is, for each part, a step of it or a stutter
(`ServicesStep`). The invariants hold of all parts, whichever is looked at. The
orchestrator needs two cases, since the part "reliable" takes its steps with other
constants (`SteadyTypes`).

### Model-checked only

- All liveness, and with it the fairness of the refinement: the prover reaches
  neither fairness nor ENABLED.
- `PendingIsHeld` after a restart, and `DeployedIsUp` with a restart when clients
  delete, which the code does not promise (section 5). The runs make the same
  exceptions.

Every other invariant and action property of the passing runs is a theorem.

## 7. Not modelled

Components with status "not_modelled" in `PROJECT.json` carry their reasons; a
part that is "partly" modelled has in its note what is left out. In short:

- **Swarm** (`core/swarm_service.py`): as committed each of its operations
  raises before it writes its row. docker-py's `swarm.init()` returns the id as
  a string, and the code reads `.id` of it (`:210`); `services.create(**spec)`
  (`:449`) is not given the image; `service.update(**service_spec)` (`:543`,
  `:631`) is given keys it does not take; nothing calls `start()`.
- **RBAC**: `core/rbac_service.py` imports `get_database`, which
  `core/database.py` does not define, so the module cannot be imported; its
  operations are single synchronous transactions.
- **Authentication and profiles**: single transactions over rows; signing and
  hashing are libraries.
- **Dashboards**: the service cannot be instantiated.
- **Docker and network managers**: wrappers that pass one call each to Docker;
  the network manager is imported by nothing. **Caddy**: its callers test a key
  that no entry has. **Performance monitors**: imported by nothing, or
  statistics over samples.
- **Validation and middleware of the API**: functions of one request.
- **Configuration, database and wiring**: run once at the start; section 1 says
  where the wiring fails.

## 8. Plan

What was planned at first is modelled, and most of what the runs check is proved.
What is left, most important first:

1. Proofs: the waking client and the monitor (`WakeOnDemand`), whose safety rests
   on the orchestrator's theorems.
2. `stop()` and the webhooks of the CI service; creating, updating and webhooks
   of deployments.
3. The notifications of the alerts and the file of their rules; the worker of
   the analytics that writes reports.
