-------------------------- MODULE MCDependencyGraph ---------------------------
(* Small instances of DependencyGraph for TLC.                             *)
EXTENDS DependencyGraph

\* Any graph of explicit edges, and any implicit edges with a missing service or none.
Apart == [dependsOn : [Stack -> SUBSET Stack], volumes : {[s \in Stack |-> {}]},
          networks : {[s \in Stack |-> {s}]}]
Linked == [dependsOn : {[s \in Stack |-> T] : T \in {{}, Strangers}},
           volumes : [Stack -> SUBSET Volumes],
           networks : [Stack -> {{}} \cup {{n} : n \in Networks}]]
SmallFiles == Apart \cup Linked
===============================================================================
