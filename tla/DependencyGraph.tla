--------------------------- MODULE DependencyGraph ---------------------------
(***************************************************************************)
(* The analysis of a docker-compose file (core/dependency_manager.py): the *)
(* edges it derives from the file, Kahn's sort for the start-up order, the *)
(* depth-first search for cycles and the levels of a parallel start.       *)
(*                                                                         *)
(* The three run one after the other on one graph, as in the dependency    *)
(* report.  Sets have no order in Python: where one is listed, any order   *)
(* is possible.                                                            *)
(***************************************************************************)
EXTENDS Integers, Sequences, FiniteSets, Functions

CONSTANTS
    Stack,      \* the services of a file
    Strangers,  \* names that depends_on gives and that are no service
    Volumes,    \* named volumes
    Networks,   \* networks
    Files       \* the files looked at

Compose == [dependsOn : [Stack -> SUBSET (Stack \cup Strangers)],
            volumes : [Stack -> SUBSET Volumes], networks : [Stack -> SUBSET Networks]]

ASSUME DependencyAssumption ==
    /\ IsFiniteSet(Stack) /\ IsFiniteSet(Strangers) /\ IsFiniteSet(Volumes)
    /\ Stack \cap Strangers = {}
    /\ {"depends_on", "network"} \cap Volumes = {}
    /\ Files # {} /\ Files \subseteq Compose

VARIABLES
    compose,    \* the file
    phase,      \* which algorithm is running
    inDegree, queue, result,        \* of _topological_sort
    verdict,    \* how it ended: an order, a cycle found, or a KeyError
    visited, path, targets, cycles, \* of find_circular_dependencies
    remaining, levels               \* of optimize_startup_order

sortVars   == <<inDegree, queue, result, verdict>>
searchVars == <<visited, path, targets, cycles>>
levelVars  == <<remaining, levels>>
graphVars  == <<compose, phase, sortVars, searchVars, levelVars>>

-----------------------------------------------------------------------------
(* The graph.  Two services that share a volume or a network depend on     *)
(* each other, both ways; one that names no network is on the default one. *)
Edge(s, t, k) == [source |-> s, target |-> t, kind |-> k]
EdgeType == [source : Stack, target : Stack \cup Strangers,
             kind : {"depends_on", "network"} \cup Volumes]

ShareNetwork(s, t) ==
    \/ compose.networks[s] \cap compose.networks[t] # {}
    \/ compose.networks[s] = {} /\ compose.networks[t] = {}

Explicit == {e \in EdgeType : e.kind = "depends_on" /\ e.target \in compose.dependsOn[e.source]}
Implicit == {e \in EdgeType :
                /\ e.target \in Stack \ {e.source}
                /\ \/ e.kind \in compose.volumes[e.source] \cap compose.volumes[e.target]
                   \/ e.kind = "network" /\ ShareNetwork(e.source, e.target)}
Edges == Explicit \cup Implicit

Between(s, t) == {e \in Edges : e.source = s /\ e.target = t}
Into(t)       == {e \in Edges : e.target = t}
Targets(s)    == {e.target : e \in {d \in Edges : d.source = s}}

Orders(S) == {q \in [1 .. Cardinality(S) -> S] : IsInjective(q)}

GraphInit ==
    /\ compose \in Files /\ phase = "counting"
    /\ inDegree = [t \in Stack |-> 0] /\ queue = <<>> /\ result = <<>> /\ verdict = "none"
    /\ visited = {} /\ path = <<>> /\ targets = <<>> /\ cycles = {}
    /\ remaining = Stack /\ levels = <<>>

-----------------------------------------------------------------------------
(* _topological_sort.                                                      *)

\* The services no edge leads to come first.
CountDegrees ==
    /\ phase = "counting"
    /\ \A e \in Edges : e.target \in Stack
    /\ inDegree' = [t \in Stack |-> Cardinality(Into(t))]
    /\ \E q \in Orders({t \in Stack : Into(t) = {}}) : queue' = q
    /\ phase' = "sorting"
    /\ UNCHANGED <<compose, result, verdict, searchVars, levelVars>>

\* A target that is no service has no degree to count up.
CountRaises ==
    /\ phase = "counting"
    /\ \E e \in Edges : e.target \notin Stack
    /\ verdict' = "KeyError" /\ phase' = "searching"
    /\ UNCHANGED <<compose, inDegree, queue, result, searchVars, levelVars>>

\* Fault for Freed: one edge too early.
FreedEarly(n) == {t \in Targets(n) : inDegree[t] - Cardinality(Between(n, t)) <= 1}

\* The services whose last edge is removed with n.
Freed(n) == {t \in Targets(n) : inDegree[t] - Cardinality(Between(n, t)) = 0}

Dequeue ==
    /\ phase = "sorting" /\ queue # <<>>
    /\ LET n == Head(queue)
       IN /\ result' = Append(result, n)
          /\ inDegree' = [t \in Stack |-> inDegree[t] - Cardinality(Between(n, t))]
          /\ \E q \in Orders(Freed(n)) : queue' = Tail(queue) \o q
    /\ UNCHANGED <<compose, phase, verdict, searchVars, levelVars>>

SortEnds ==
    /\ phase = "sorting" /\ queue = <<>>
    /\ verdict' = IF Len(result) = Cardinality(Stack) THEN "order" ELSE "cycle"
    /\ phase' = "searching"
    /\ UNCHANGED <<compose, inDegree, queue, result, searchVars, levelVars>>

-----------------------------------------------------------------------------
(* find_circular_dependencies: path is both the path and rec_stack, with   *)
(* the targets that are left to visit from each service on it.             *)
Top(q) == q[Len(q)]
Pop(q) == SubSeq(q, 1, Len(q) - 1)

Enter(n, rest) ==
    /\ visited' = visited \cup {n}
    /\ path' = Append(path, n) /\ targets' = Append(rest, Targets(n))
    /\ UNCHANGED cycles

PickRoot ==
    /\ phase = "searching" /\ path = <<>>
    /\ \E n \in Stack \ visited : Enter(n, <<>>)
    /\ UNCHANGED <<compose, phase, sortVars, levelVars>>

\* Fault for Visit: what was visited is passed over first.
VisitedFirst(t, rest) ==
    IF t \in visited THEN targets' = rest /\ UNCHANGED <<visited, path, cycles>>
    ELSE IF t \in Range(path)
    THEN /\ cycles' = cycles \cup {SubSeq(path, CHOOSE i \in DOMAIN path : path[i] = t,
                                          Len(path)) \o <<t>>}
         /\ targets' = rest /\ UNCHANGED <<visited, path>>
    ELSE Enter(t, rest)

Visit(t, rest) ==
    IF t \in Range(path)
    THEN /\ cycles' = cycles \cup {SubSeq(path, CHOOSE i \in DOMAIN path : path[i] = t,
                                          Len(path)) \o <<t>>}
         /\ targets' = rest /\ UNCHANGED <<visited, path>>
    ELSE IF t \in visited THEN targets' = rest /\ UNCHANGED <<visited, path, cycles>>
    ELSE Enter(t, rest)

VisitNext ==
    /\ phase = "searching" /\ path # <<>>
    /\ \E t \in Top(targets) : Visit(t, Append(Pop(targets), Top(targets) \ {t}))
    /\ UNCHANGED <<compose, phase, sortVars, levelVars>>

LeaveNode ==
    /\ phase = "searching" /\ path # <<>> /\ Top(targets) = {}
    /\ path' = Pop(path) /\ targets' = Pop(targets)
    /\ UNCHANGED <<compose, phase, visited, cycles, sortVars, levelVars>>

SearchEnds ==
    /\ phase = "searching" /\ path = <<>> /\ Stack \subseteq visited
    /\ phase' = "levelling"
    /\ UNCHANGED <<compose, sortVars, searchVars, levelVars>>

-----------------------------------------------------------------------------
(* optimize_startup_order.                                                 *)

\* The services that no edge from a remaining one leads to.
Level == {t \in remaining : \A e \in Into(t) : e.source \notin remaining}

TakeLevel ==
    /\ phase = "levelling" /\ Level # {}
    /\ levels' = Append(levels, Level) /\ remaining' = remaining \ Level
    /\ UNCHANGED <<compose, phase, sortVars, searchVars>>

\* Nothing is left, or there is a cycle, and the levels found are returned.
LevelsEnd ==
    /\ phase = "levelling" /\ Level = {}
    /\ phase' = "done"
    /\ UNCHANGED <<compose, sortVars, searchVars, levelVars>>

-----------------------------------------------------------------------------
SortStep == CountDegrees \/ CountRaises \/ Dequeue \/ SortEnds

GraphNext ==
    \/ SortStep
    \/ PickRoot \/ VisitNext \/ LeaveNode \/ SearchEnds
    \/ TakeLevel \/ LevelsEnd

GraphSpec == GraphInit /\ [][GraphNext]_graphVars

-----------------------------------------------------------------------------
GraphTypeOK ==
    /\ compose \in Compose
    /\ phase \in {"counting", "sorting", "searching", "levelling", "done"}
    /\ inDegree \in [Stack -> Nat] /\ queue \in Seq(Stack) /\ result \in Seq(Stack)
    /\ verdict \in {"none", "order", "cycle", "KeyError"}
    /\ visited \subseteq Stack \cup Strangers /\ path \in Seq(visited)
    /\ targets \in [DOMAIN path -> SUBSET (Stack \cup Strangers)]
    /\ \A c \in cycles : c \in Seq(visited)
    /\ remaining \subseteq Stack /\ levels \in Seq(SUBSET Stack)

\* The order never has a service before one that depends on it: it is an order to
\* stop the services in, although it is called the start-up order.
DependentsFirst ==
    \A i \in DOMAIN result : \A e \in Into(result[i]) :
        \E j \in 1 .. i - 1 : result[j] = e.source

\* A set of services each of which another one of the set depends on: there is one
\* exactly when there is a cycle.
Endless(S) == S # {} /\ \A t \in S : \E e \in Into(t) : e.source \in S

Circular == \E S \in SUBSET Stack : Endless(S)

\* The sort fails for a cycle when there is one, and only then.
SortJudges == /\ verdict = "cycle" => Circular
              /\ verdict = "order" => ~Circular

\* A cycle that is named is one: each service of it depends on the next.
RealCycle(c) ==
    /\ Len(c) > 1 /\ c[1] = Top(c)
    /\ \A i \in 1 .. Len(c) - 1 : Between(c[i], c[i + 1]) # {}

LevelOf(s) == {i \in DOMAIN levels : s \in levels[i]}

\* The three algorithms of the report agree with one another and with the graph:
\* the sort fails for a cycle, the search names one, and the levels leave a service
\* out, exactly when there is one; each cycle named is real; and a
\* service is one level after the last of those that depend on it.
ReportAgrees ==
    phase = "done" =>
        /\ SortJudges
        /\ (cycles # {}) = Circular /\ (remaining # {}) = Circular
        /\ \A c \in cycles : RealCycle(c)
        /\ \A t \in Stack \ remaining : LevelOf(t) =
              {1 + Cardinality({i \in DOMAIN levels : \E e \in Into(t), k \in i .. Len(levels) :
                                                          e.source \in levels[k]})}
        /\ verdict = "order" => Range(result) = Stack /\ Len(result) = Cardinality(Stack)

\* What the test of the manager says: the services a service depends on are before
\* it in the start-up order.
DependenciesFirst ==
    verdict = "order" =>
        \A e \in Explicit : \A i, j \in DOMAIN result :
            result[i] = e.source /\ result[j] = e.target => j < i
===============================================================================
