--------------------------- MODULE ComposeValidation ---------------------------
(***************************************************************************)
(* What POST /compose/validate makes of a file: the checks of              *)
(* core/compose_validator.py one after the other, with its own depth-first *)
(* search for circular dependencies (core/compose_parser.py has the same), *)
(* and the verdict of the route.                                           *)
(*                                                                         *)
(* Each check adds to a list of errors; which services an error names is   *)
(* left out, and so are warnings.  Lists and dictionaries are gone through *)
(* in any order.                                                           *)
(***************************************************************************)
EXTENDS Integers, SequencesExt

CONSTANTS
    FileServices,        \* the services of a file
    Missing,        \* names in depends_on that are no service
    Mappings,       \* port mappings, [ip, host, more]: host is a port, more what it maps to
    DockerPorts,    \* DOCKER_RESERVED_PORTS
    Candidates      \* the files looked at

\* A file as it was parsed.  A service is sound when its name, image, environment,
\* volumes and restart policy pass by themselves; it joins networks, which the file
\* defines or not.
ParsedFile == [dependsOn : [FileServices -> SUBSET (FileServices \cup Missing)],
               ports : [FileServices -> SUBSET Mappings],
               undefinedNetworks : BOOLEAN, sound : SUBSET FileServices]

ASSUME ValidationAssumption ==
    /\ IsFiniteSet(FileServices) /\ FileServices \cap Missing = {}
    /\ Candidates # {} /\ Candidates \subseteq ParsedFile

VARIABLES
    file,       \* the file that is judged
    stage,      \* the check that comes next
    errors,     \* kinds of errors found so far
    seen,       \* visited
    trail,      \* rec_stack, in the order of the calls
    unseen      \* the dependencies left to follow, for each call

callVars == <<seen, trail, unseen>>
validationVars == <<file, stage, errors, callVars>>

ValidationInit ==
    /\ file \in Candidates /\ stage = "services" /\ errors = {}
    /\ seen = {} /\ trail = <<>> /\ unseen = <<>>

-----------------------------------------------------------------------------
\* The end of a check: what it found, and the next one.
Checked(from, kind, found, next) ==
    /\ stage = from /\ stage' = next
    /\ errors' = errors \cup (IF found THEN {kind} ELSE {})
    /\ UNCHANGED <<file, callVars>>

CheckServices == Checked("services", "service", file.sound # FileServices, "missing")

CheckMissing ==
    Checked("missing", "missing",
            \E s \in FileServices : file.dependsOn[s] \cap Missing # {}, "circular")

\* Two mappings of one host port are in conflict, on whatever addresses.  A port that
\* is no number (a range, a variable) is passed over, and stands as 0 here.
Conflict(s, k, t, n) == <<s, k>> # <<t, n>> /\ k.host = n.host /\ k.host # 0

CheckPorts ==
    Checked("ports", "port",
            \E s, t \in FileServices : \E k \in file.ports[s], n \in file.ports[t] :
                Conflict(s, k, t, n) \/ k.host \in DockerPorts,
            "networks")

CheckNetworks ==
    Checked("networks", "network", file.undefinedNetworks, "judged")

-----------------------------------------------------------------------------
(* The search for a cycle: has_cycle calls itself along depends_on.  A     *)
(* name that is no service is visited too, and has no dependencies.        *)
Dependencies(n) == IF n \in FileServices THEN file.dependsOn[n] ELSE {}

Visits(n, callers) ==
    /\ seen' = seen \cup {n}
    /\ trail' = Append(trail, n) /\ unseen' = Append(callers, Dependencies(n))

SearchFrom ==
    /\ stage = "circular" /\ trail = <<>>
    /\ \E n \in FileServices \ seen : Visits(n, <<>>)
    /\ UNCHANGED <<file, stage, errors>>

\* Fault for FindsCycle: a service met again is taken for one on the way.
FindsCycleAnywhere(n) == n \in seen

FindsCycle(n) == n \in Range(trail)

\* Every call on the way returns True, and the search is over.
Found ==
    /\ stage = "circular" /\ trail # <<>>
    /\ \E n \in Last(unseen) : FindsCycle(n)
    /\ stage' = "ports" /\ errors' = errors \cup {"circular"}
    /\ UNCHANGED <<file, callVars>>

Follow ==
    /\ stage = "circular" /\ trail # <<>>
    /\ \E n \in Last(unseen) :
         /\ ~FindsCycle(n)
         /\ LET left == Append(Front(unseen), Last(unseen) \ {n})
            IN  IF n \in seen THEN unseen' = left /\ UNCHANGED <<seen, trail>>
                ELSE Visits(n, left)
    /\ UNCHANGED <<file, stage, errors>>

Return ==
    /\ stage = "circular" /\ trail # <<>> /\ Last(unseen) = {}
    /\ trail' = Front(trail) /\ unseen' = Front(unseen)
    /\ UNCHANGED <<file, stage, errors, seen>>

NoneFound ==
    /\ stage = "circular" /\ trail = <<>> /\ FileServices \subseteq seen
    /\ stage' = "ports"
    /\ UNCHANGED <<file, errors, callVars>>

\* The route's verdict.  It asks the dependency manager next, whose validation always
\* raises: that is caught, a warning is added, and the verdict stays.
Valid == stage = "judged" /\ errors = {}

ValidationNext ==
    \/ CheckServices \/ CheckMissing \/ CheckPorts \/ CheckNetworks
    \/ SearchFrom \/ Found \/ Follow \/ Return \/ NoneFound

ValidationSpec == ValidationInit /\ [][ValidationNext]_validationVars

-----------------------------------------------------------------------------
ValidationTypeOK ==
    /\ file \in ParsedFile
    /\ stage \in {"services", "missing", "circular", "ports", "networks", "judged"}
    /\ errors \subseteq {"service", "missing", "circular", "port", "network"}
    /\ seen \subseteq FileServices \cup Missing /\ trail \in Seq(seen)
    /\ unseen \in [DOMAIN trail -> SUBSET (FileServices \cup Missing)]

\* An order to start in: every service after the services that it depends on.
Startable ==
    \E place \in [FileServices -> 1 .. Cardinality(FileServices)] :
        \A s \in FileServices :
            \A t \in file.dependsOn[s] \cap FileServices : place[t] < place[s]

\* The search reports circular dependencies exactly when there is no order to start
\* the services in, also when services depend on themselves, on names that are none,
\* or on one another by several ways.  A file that is judged valid can be started: there
\* is an order, everything that depends_on names is there, and no two services claim a
\* port of the host.
ValidStarts ==
    /\ stage = "judged" => ("circular" \in errors) = ~Startable
    /\ Valid =>
          /\ Startable
          /\ UNION Range(file.dependsOn) \subseteq FileServices
          /\ \A s, t \in FileServices : \A k \in file.ports[s], n \in file.ports[t] :
                s # t => k.host # n.host \/ k.host = 0
===============================================================================
