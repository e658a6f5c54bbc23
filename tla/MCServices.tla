------------------------------ MODULE MCServices ------------------------------
(* Small instances of the services for TLC.                                *)
EXTENDS Services, MCDependencyGraph, TLC

\* What two types of client ask for.
SomeKeys == {<<"mobile", "logs">>, <<"desktop", "logs">>}

\* A port on every address and on one, a reserved one, and a mapping without a number.
SomeMappings ==
    [ip : {"any"}, host : {80, 2375, 0}] \cup {[ip |-> "local", host |-> 80]}

\* Local time is that of UTC, or half a day behind or a little ahead of it.
SomeOffsets == {0, -1}
SomeLeads == {0, 1}

\* Files of three services: every way to depend on one another, up to their names, and
\* on a name that is none; and every choice of one port each.
Sound == [dependsOn |-> [s \in FileServices |-> {}], ports |-> [s \in FileServices |-> {}],
          undefinedNetworks |-> FALSE, sound |-> FileServices]

Fewer(s, t, d) == Cardinality(d[s]) <= Cardinality(d[t])

SomeFiles ==
    {[Sound EXCEPT !.dependsOn = d] :
        d \in {e \in [FileServices -> SUBSET (FileServices \cup Missing)] :
                 /\ Fewer("api", "web", e) /\ Fewer("db", "api", e)
                 /\ e["api"] \cup e["db"] \subseteq FileServices}}
    \cup {[Sound EXCEPT !.ports = p] :
            p \in [FileServices -> {{}} \cup {{k} : k \in SomeMappings}]}
    \cup {[Sound EXCEPT !.undefinedNetworks = u, !.sound = x] :
            u \in BOOLEAN, x \in {{}, FileServices}}

\* The graphs of SmallFiles, up to the names of the services.
SomeGraphs ==
    {f \in SmallFiles :
        \A d \in {f.dependsOn, f.volumes} : Fewer("api", "web", d) /\ Fewer("db", "api", d)}

\* Files of one folder share their copies' names, unless they end in .env.
FolderBackup == (".env" :> "env.backup") @@ (".env.local" :> "env.backup")
                @@ ("app.env" :> "app.backup")
FolderDeleted == (".env" :> "env.deleted") @@ (".env.local" :> "env.deleted")
                 @@ ("app.env" :> "app.deleted")
===============================================================================
