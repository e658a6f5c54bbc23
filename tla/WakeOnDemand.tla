---------------------------- MODULE WakeOnDemand ----------------------------
(***************************************************************************)
(* The wake-on-request cycle: the proxy middleware (api/middleware.py)     *)
(* wakes services on the orchestrator, the monitoring service              *)
(* (core/monitoring.py) puts them to sleep, and clients retry.             *)
(*                                                                         *)
(* Time is counted in passes of the monitoring loop: one pass collects one *)
(* sample per running service and then decides, without giving up the      *)
(* event loop in between; a proxied request does give it up.               *)
(***************************************************************************)
EXTENDS Orchestrator

CONSTANTS
    Loads,          \* what a sample can say: which of cpu and memory are low
    NoSample,       \* a pass that got no sample of a service
    Window,         \* passes within check_interval
    Interference    \* who else acts: API clients, Docker and its operators

ASSUME WakeAssumption ==
    /\ Loads \subseteq SUBSET {"cpu", "memory"} /\ NoSample \notin Loads
    /\ Window \in Nat
    /\ Interference \subseteq {"client", "docker"}

VARIABLES
    metrics_history, \* per service, what the last Window passes sampled
    load,            \* what a sample of each service would say now
    waiting,         \* services whose client was shown the loading page
    proxying,        \* services with a request being proxied
    outside          \* whether others than the clients and the monitor still act

clientVars == <<load, waiting, proxying>>
wakeVars == <<orchestratorVars, metrics_history, clientVars, outside>>

MinSamples == 3
Samples == Loads \cup {NoSample}
NoHistory == [i \in 1 .. Window |-> NoSample]

WakeInit ==
    /\ OrchestratorInit
    /\ metrics_history = [n \in Names |-> NoHistory]
    /\ load \in [Names -> Loads]
    /\ waiting = {} /\ proxying = {}
    /\ outside = "acts"

-----------------------------------------------------------------------------
(* ProxyMiddleware.dispatch up to its first real await: the probe, then    *)
(* the loading page (202) or a request on its way to the container.        *)
Dispatch(id) ==
    LET svc == Probed(services[id], docker)
    IN  /\ \/ /\ IsRunning(svc, docker)
              /\ services' = [services EXCEPT ![id] = svc]
              /\ proxying' = proxying \cup {id}
              /\ UNCHANGED <<container_map, docker, waiting>>
           \/ /\ ~IsRunning(svc, docker)
              /\ \E o \in Wake(id, svc, docker, container_map) : Apply(id, o)
              /\ waiting' = waiting \cup {id}
              /\ UNCHANGED proxying
        /\ UNCHANGED <<metrics_history, load, outside>>

(* _proxy_request: the answer of the service's container, if it still      *)
(* runs; a 502 or, from a container that hangs, a 504 otherwise.           *)
ProxyAnswer(id) ==
    /\ id \in proxying
    /\ proxying' = proxying \ {id}
    /\ \/ /\ id \in Ids /\ services[id].name \in docker.up
          /\ waiting' = waiting \ {id}
       \/ /\ id \in Ids => services[id].name \notin docker.up \/ DockerFails
          /\ UNCHANGED waiting
    /\ UNCHANGED <<orchestratorVars, metrics_history, load, outside>>

-----------------------------------------------------------------------------
(* _collect_metrics: a running service whose container answers is sampled  *)
(* (get_service_stats fails for one without an id or not running).         *)
Sampled(id) == services[id].status = "running" /\ IsRunning(services[id], docker)

SampleOf(id) == IF id \in Ids /\ Sampled(id) THEN load[id] ELSE NoSample

(* Fault for Collected: a history that is full takes no new sample.        *)
CollectedUntilFull ==
    [n \in Names |->
        IF \A i \in 1 .. Window : metrics_history[n][i] # NoSample THEN metrics_history[n]
        ELSE [i \in 1 .. Window |->
                 IF i = 1 THEN SampleOf(n) ELSE metrics_history[n][i - 1]]]

(* Fault for Collected: the newest sample replaces the history.            *)
CollectedNewest ==
    [n \in Names |-> [i \in 1 .. Window |-> IF i = 1 THEN SampleOf(n) ELSE NoSample]]

Collected ==
    [n \in Names |-> [i \in 1 .. Window |->
        IF i = 1 THEN SampleOf(n) ELSE metrics_history[n][i - 1]]]

(* _should_shutdown_service.  A service without a policy makes it raise,   *)
(* and last_accessed is never set, so that only the samples decide.        *)
ShouldShutdown(id, history) ==
    LET recent == {i \in 1 .. Window : history[i] # NoSample}
        low(r) == {i \in recent : r \in history[i]}
    IN  /\ services[id].auto
        /\ Cardinality(recent) >= MinSamples
        /\ \A r \in {"cpu", "memory"} :
               10 * Cardinality(low(r)) >= 8 * Cardinality(recent)

(* _check_auto_shutdown: a sleep that fails leaves everything as it was.   *)
MonitoringPass ==
    LET due == {id \in Ids : /\ services[id].status = "running"
                             /\ ShouldShutdown(id, Collected[id])}
        slept(id) == Slept(id, services[id], docker, container_map)
    IN  /\ \E down \in SUBSET due :
              /\ down = due \/ DockerFails
              /\ services' = [id \in Ids |-> IF id \in down THEN slept(id).svc ELSE services[id]]
              /\ docker' = [docker EXCEPT
                    !.up = {n \in @ : \A id \in down : n \in slept(id).docker.up},
                    !.proj = {n \in @ : \A id \in down : n \in slept(id).docker.proj}]
              /\ container_map' = [c \in Containers |->
                    IF \E id \in down : slept(id).map[c] # container_map[c]
                    THEN NoService ELSE container_map[c]]
        /\ metrics_history' = Collected
        /\ UNCHANGED <<clientVars, outside>>

-----------------------------------------------------------------------------
(* The rest of the API, and Docker's own steps.  Deleting a service does   *)
(* not delete its history; a client of a deleted service stops waiting.    *)
Management ==
    /\ outside = "acts"
    /\ \/ "client" \in Interference /\ ClientStep
       \/ "docker" \in Interference /\ DockerStep
    /\ waiting' = waiting \cap Ids'
    /\ UNCHANGED <<metrics_history, load, proxying, outside>>

(* A restart loses the metrics and the requests on their way.              *)
RestartAll ==
    /\ outside = "acts" /\ Restart
    /\ metrics_history' = [n \in Names |-> NoHistory]
    /\ proxying' = {}
    /\ waiting' = waiting \cap Ids'
    /\ UNCHANGED <<load, outside>>

(* Neither of them happens from here on.                                   *)
OthersLeave ==
    /\ outside = "acts" /\ outside' = "quiet"
    /\ UNCHANGED <<orchestratorVars, metrics_history, clientVars>>

LoadChanges(n) ==
    /\ \E l \in Loads \ {load[n]} : load' = [load EXCEPT ![n] = l]
    /\ UNCHANGED <<orchestratorVars, metrics_history, waiting, proxying, outside>>

WakeNext ==
    \/ \E id \in Ids : Dispatch(id)
    \/ \E id \in Names : ProxyAnswer(id)
    \/ MonitoringPass
    \/ Management
    \/ RestartAll
    \/ OthersLeave
    \/ \E n \in Names : LoadChanges(n)

(* The loading page reloads itself, a container or the HTTP client's       *)
(* timeout answers a proxied request, and the loop sleeps a fixed time.    *)
Retry(id) == id \in waiting \cap Ids /\ Dispatch(id)

WakeFairness ==
    /\ \A n \in Names : WF_wakeVars(Retry(n)) /\ WF_wakeVars(ProxyAnswer(n))
    /\ WF_wakeVars(MonitoringPass)

WakeSpec == WakeInit /\ [][WakeNext]_wakeVars /\ WakeFairness

-----------------------------------------------------------------------------
(* The variables of the cycle have their types.                            *)
WakeTypeOK ==
    /\ OrchestratorTypeOK
    /\ metrics_history \in [Names -> [1 .. Window -> Samples]]
    /\ load \in [Names -> Loads]
    /\ waiting \subseteq Ids /\ proxying \subseteq Names
    /\ outside \in {"acts", "quiet"}

(* From some time on nobody else acts on the services: what happens from   *)
(* there on, retries and wakes without end included, is the cycle's own.   *)
Undisturbed == <>(outside = "quiet")

(* A client that sees the loading page of a service that runs from an      *)
(* image and is in real use is eventually answered by it: neither old      *)
(* samples of a quiet time nor what exits, removals, other calls and       *)
(* restarts have left can keep it out for ever (dispatch: "Service is      *)
(* running, proxy the request").                                           *)
Served ==
    \A n \in Names :
        Undisturbed /\ <>[](load[n] # {"cpu", "memory"} /\ (n \in Ids => ~services[n].compose))
            => (n \in waiting ~> n \notin waiting)

(* A service that may sleep, is known to run and needs neither cpu nor     *)
(* memory for good does not keep its container running: the monitor stops  *)
(* it, however often it is woken (monitoring.py: "Shutdown if both CPU and *)
(* memory usage are consistently low").                                    *)
KnownToRun(n) ==
    n \in Ids /\ services[n].auto /\ services[n].status = "running" /\ n \in docker.up

IdleSleeps ==
    \A n \in Names :
        Undisturbed /\ <>[](load[n] = {"cpu", "memory"}) => []<>~KnownToRun(n)
=============================================================================
