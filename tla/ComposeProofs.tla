----------------------------- MODULE ComposeProofs ------------------------------
(***************************************************************************)
(* Proofs about what is worked out of a Compose file, for every file.      *)
(*                                                                         *)
(* DependencyGraph: the sort has whatever depends on a service before it,  *)
(* and fails for a cycle when there is one; the search for cycles and the  *)
(* levels of a parallel start agree with it.                               *)
(* ComposeValidation: the validator reports circular dependencies exactly  *)
(* when the services cannot be started in any order.                       *)
(***************************************************************************)
EXTENDS DependencyGraph, ComposeValidation, SequenceTheorems, FiniteSetTheorems,
        WellFoundedInduction, TLAPS

(***************************************************************************)
(* Kahn's sort.  While it runs, the degree of a service counts the edges   *)
(* from services that are not in the result; what is queued has none left; *)
(* and nothing is queued or placed twice.                                  *)
(***************************************************************************)
Placed == {result[i] : i \in DOMAIN result}
Queued == {queue[i] : i \in DOMAIN queue}
OpenEdges(t) == {e \in Into(t) : e.source \notin Placed}

\* The variables of the sort have their types.
SortTypeOK ==
    /\ compose \in Compose
    /\ phase \in {"counting", "sorting", "searching", "levelling", "done"}
    /\ inDegree \in [Stack -> Int] /\ queue \in Seq(Stack) /\ result \in Seq(Stack)
    /\ verdict \in {"none", "order", "cycle", "KeyError"}

DegreesCounted == \A t \in Stack : inDegree[t] = Cardinality(OpenEdges(t))

NoneWaits == \A t \in Queued \cup Placed : OpenEdges(t) = {}

QueuedOnce ==
    /\ Queued \cap Placed = {}
    /\ \A i, j \in DOMAIN queue : queue[i] = queue[j] => i = j

PlacedOnce == \A i, j \in DOMAIN result : result[i] = result[j] => i = j

NoneForgotten == \A t \in Stack : OpenEdges(t) = {} => t \in Queued \cup Placed

NotBegun == phase = "counting" => queue = <<>> /\ result = <<>> /\ verdict = "none"

Sorting ==
    phase = "sorting" =>
        /\ \A e \in Edges : e.target \in Stack
        /\ DegreesCounted /\ NoneWaits /\ QueuedOnce /\ NoneForgotten /\ verdict = "none"

\* A sort that found a cycle has left services out, each of which one that was
\* left out depends on.
CycleFound ==
    verdict = "cycle" => Placed # Stack /\ \A t \in Stack \ Placed : OpenEdges(t) # {}

OrderFound == verdict = "order" => Placed = Stack

SortInv ==
    /\ SortTypeOK /\ NotBegun /\ Sorting /\ PlacedOnce
    /\ DependentsFirst /\ CycleFound /\ OrderFound

(* There are finitely many edges.                                          *)
LEMMA FiniteEdges == IsFiniteSet(Edges)
<1> DEFINE K == {"depends_on", "network"} \cup Volumes
           P == (Stack \X (Stack \cup Strangers)) \X K
           f == [p \in P |-> Edge(p[1][1], p[1][2], p[2])]
<1>1. IsFiniteSet(P)
    <2>1. IsFiniteSet(Stack) /\ IsFiniteSet(Strangers) /\ IsFiniteSet(Volumes)
        BY DependencyAssumption
    <2>2. IsFiniteSet(Stack \cup Strangers)
        BY <2>1, FS_Union
    <2>3. IsFiniteSet({"depends_on", "network"})
        <3>1. IsFiniteSet({"depends_on"}) /\ IsFiniteSet({"network"})
            BY FS_Singleton
        <3>2. {"depends_on", "network"} = {"depends_on"} \cup {"network"}
            OBVIOUS
        <3> QED
            BY <3>1, <3>2, FS_Union
    <2>4. IsFiniteSet(K)
        BY <2>1, <2>3, FS_Union
    <2>5. IsFiniteSet(Stack \X (Stack \cup Strangers))
        BY <2>1, <2>2, FS_Product
    <2> QED
        BY <2>4, <2>5, FS_Product
<1>2. f \in Surjection(P, EdgeType)
    <2>1. f \in [P -> EdgeType]
        BY DEF Edge, EdgeType
    <2>2. \A e \in EdgeType : \E p \in P : f[p] = e
        <3> TAKE e \in EdgeType
        <3> DEFINE p == <<<<e.source, e.target>>, e.kind>>
        <3>1. p \in P /\ f[p] = e
            BY DEF Edge, EdgeType
        <3> QED
            BY <3>1
    <2> QED
        BY <2>1, <2>2 DEF Surjection
<1>3. IsFiniteSet(EdgeType)
    <2> HIDE DEF P, f
    <2> QED
        BY <1>1, <1>2, FS_Surjection
<1>4. Edges \subseteq EdgeType
    BY DEF Edges, Explicit, Implicit
<1> QED
    BY <1>3, <1>4, FS_Subset

(* What is known of a listing of a set.                                    *)
LEMMA ListedOnce ==
    ASSUME NEW S, S \subseteq Stack, NEW q \in Orders(S), IsFiniteSet(S)
    PROVE  /\ q \in Seq(Stack)
           /\ \A i, j \in DOMAIN q : q[i] = q[j] => i = j
           /\ {q[i] : i \in DOMAIN q} = S
<1>1. Cardinality(S) \in Nat
    BY FS_CardinalityType
<1>2. q \in [1 .. Cardinality(S) -> S] /\ \A i, j \in DOMAIN q : q[i] = q[j] => i = j
    BY DEF Orders, IsInjective
<1>3. q \in Injection(1 .. Cardinality(S), S)
    BY <1>2 DEF Injection, IsInjective
<1>4. Cardinality(1 .. Cardinality(S)) = Cardinality(S) /\ IsFiniteSet(1 .. Cardinality(S))
    BY <1>1, FS_Interval
<1>5. q \in Surjection(1 .. Cardinality(S), S)
    BY <1>3, <1>4, FS_Injection
<1>6. \A t \in S : \E i \in 1 .. Cardinality(S) : q[i] = t
    BY <1>5 DEF Surjection
<1> QED
    BY <1>1, <1>2, <1>6

(* How many indices a sequence has.                                        *)
LEMMA LengthIsCardinality ==
    ASSUME NEW k \in Nat PROVE Cardinality(1 .. k) = k /\ IsFiniteSet(1 .. k)
<1>1. /\ IsFiniteSet(1 .. k)
      /\ Cardinality(1 .. k) = IF 1 > k THEN 0 ELSE k - 1 + 1
    BY FS_Interval
<1> QED
    BY <1>1

(* The edges a dequeued service takes with it.                             *)
LEMMA EdgesTaken ==
    ASSUME NEW n \in Stack, n \notin Placed, NEW t \in Stack, NEW left,
           left = {e \in OpenEdges(t) : e.source # n}
    PROVE  /\ Cardinality(left) = Cardinality(OpenEdges(t)) - Cardinality(Between(n, t))
           /\ Cardinality(left) = 0 <=> left = {}
           /\ Cardinality(OpenEdges(t)) \in Int /\ Cardinality(Between(n, t)) \in Int
<1>1. /\ IsFiniteSet(left) /\ IsFiniteSet(Between(n, t)) /\ IsFiniteSet(OpenEdges(t))
    <2>1. left \subseteq Edges /\ Between(n, t) \subseteq Edges /\ OpenEdges(t) \subseteq Edges
        BY DEF OpenEdges, Into, Between
    <2> QED
        BY <2>1, FiniteEdges, FS_Subset
<1>2. OpenEdges(t) = left \cup Between(n, t) /\ left \cap Between(n, t) = {}
    BY DEF OpenEdges, Into, Between
<1>3. Cardinality(OpenEdges(t)) = Cardinality(left) + Cardinality(Between(n, t)) - Cardinality({})
    BY <1>1, <1>2, FS_Union
<1>4. Cardinality({}) = 0 /\ (Cardinality(left) = 0 <=> left = {})
    BY <1>1, FS_EmptySet
<1>5. Cardinality(left) \in Nat /\ Cardinality(Between(n, t)) \in Nat
    BY <1>1, FS_CardinalityType
<1> QED
    BY <1>3, <1>4, <1>5

(* Counting the degrees and queueing what has none.                        *)
LEMMA CountKeepsInv == ASSUME SortInv, CountDegrees PROVE SortInv'
<1>1. /\ phase = "counting" /\ queue = <<>> /\ result = <<>> /\ verdict = "none"
      /\ compose' = compose /\ result' = result /\ verdict' = verdict /\ phase' = "sorting"
      /\ inDegree' = [t \in Stack |-> Cardinality(Into(t))]
    BY DEF SortInv, NotBegun, CountDegrees
<1>2. PICK q \in Orders({t \in Stack : Into(t) = {}}) : queue' = q
    BY DEF CountDegrees
<1> DEFINE S == {t \in Stack : Into(t) = {}}
<1>3. IsFiniteSet(S)
    BY DependencyAssumption, FS_Subset
<1>4. /\ queue' \in Seq(Stack) /\ Queued' = S
      /\ \A i, j \in DOMAIN queue' : queue'[i] = queue'[j] => i = j
    BY <1>2, <1>3, ListedOnce DEF Queued
<1>5. Placed' = {}
    BY <1>1 DEF Placed
<1>6. \A t : Into(t)' = Into(t) /\ OpenEdges(t)' = Into(t)
    BY <1>1, <1>5 DEF Into, OpenEdges, Edges, Explicit, Implicit, ShareNetwork
<1>7. \A t : IsFiniteSet(Into(t)) /\ Cardinality(Into(t)) \in Int
    <2> TAKE t
    <2>1. Into(t) \subseteq Edges
        BY DEF Into
    <2> QED
        BY <2>1, FiniteEdges, FS_Subset, FS_CardinalityType
<1>8. SortTypeOK'
    BY <1>1, <1>4, <1>7 DEF SortInv, SortTypeOK
<1>9. Sorting'
    <2>1. \A e \in Edges' : e.target \in Stack
        BY <1>1 DEF CountDegrees, Edges, Explicit, Implicit, ShareNetwork
    <2> QED
        BY <1>1, <1>4, <1>5, <1>6, <2>1 DEF Sorting, DegreesCounted, NoneWaits, QueuedOnce, NoneForgotten
<1> QED
    BY <1>1, <1>8, <1>9 DEF SortInv, NotBegun, PlacedOnce, DependentsFirst, CycleFound, OrderFound

(* Placing the first of the queue, and queueing what it frees.             *)
LEMMA DequeueKeepsInv == ASSUME SortInv, Dequeue PROVE SortInv'
<1> DEFINE n == Head(queue)
<1>1. /\ phase = "sorting" /\ queue \in Seq(Stack) /\ queue # <<>> /\ result \in Seq(Stack)
      /\ compose' = compose /\ phase' = phase /\ verdict' = verdict
      /\ result' = Append(result, n)
      /\ inDegree' = [t \in Stack |-> inDegree[t] - Cardinality(Between(n, t))]
      /\ \A e \in Edges : e.target \in Stack
      /\ DegreesCounted /\ NoneWaits /\ QueuedOnce /\ NoneForgotten /\ verdict = "none"
    BY DEF SortInv, SortTypeOK, Sorting, Dequeue
<1>2. PICK q \in Orders(Freed(n)) : queue' = Tail(queue) \o q
    BY DEF Dequeue
<1>3. n \in Stack /\ n = queue[1] /\ n \in Queued /\ n \notin Placed
    BY <1>1 DEF QueuedOnce, Queued
<1>4. Placed' = Placed \cup {n}
    <2>1. /\ result' \in Seq(Stack) /\ Len(result') = Len(result) + 1
          /\ \A i \in 1 .. Len(result) : result'[i] = result[i]
          /\ result'[Len(result) + 1] = n
        <3> HIDE DEF n
        <3> QED
            BY <1>1, <1>3, AppendProperties
    <2>2. DOMAIN result = 1 .. Len(result) /\ DOMAIN result' = (1 .. Len(result)) \cup {Len(result) + 1}
        BY <1>1, <2>1
    <2> QED
        BY <2>1, <2>2 DEF Placed
<1>5. \A t : Into(t)' = Into(t)
    BY <1>1 DEF Into, Edges, Explicit, Implicit, ShareNetwork
<1>6. \A t : OpenEdges(t)' = {e \in OpenEdges(t) : e.source # n}
    BY <1>4, <1>5 DEF OpenEdges
<1>7. \A t \in Stack : /\ Cardinality(OpenEdges(t)') = inDegree[t] - Cardinality(Between(n, t))
                       /\ Cardinality(OpenEdges(t)') = 0 <=> OpenEdges(t)' = {}
                       /\ inDegree[t] - Cardinality(Between(n, t)) \in Int
    <2> HIDE DEF n
    <2> TAKE t \in Stack
    <2>1. /\ Cardinality(OpenEdges(t)') = Cardinality(OpenEdges(t)) - Cardinality(Between(n, t))
          /\ Cardinality(OpenEdges(t)') = 0 <=> OpenEdges(t)' = {}
          /\ Cardinality(OpenEdges(t)) \in Int /\ Cardinality(Between(n, t)) \in Int
        BY <1>3, <1>6, EdgesTaken
    <2>2. inDegree[t] = Cardinality(OpenEdges(t))
        BY <1>1 DEF DegreesCounted
    <2> QED
        BY <2>1, <2>2
<1>8. Freed(n) = {t \in Stack : OpenEdges(t)' = {} /\ OpenEdges(t) # {}}
    <2>1. Targets(n) \subseteq Stack
        BY <1>1 DEF Targets
    <2>2. \A t \in Stack : t \in Targets(n) <=> \E e \in OpenEdges(t) : e.source = n
        BY <1>3 DEF Targets, OpenEdges, Into
    <2>3. \A t \in Stack : t \in Freed(n) <=> t \in Targets(n) /\ OpenEdges(t)' = {}
        BY <1>7 DEF Freed
    <2>4. \A t \in Stack : OpenEdges(t)' = {} /\ OpenEdges(t) # {} <=>
                            OpenEdges(t)' = {} /\ \E e \in OpenEdges(t) : e.source = n
        BY <1>6
    <2> QED
        BY <2>1, <2>2, <2>3, <2>4 DEF Freed
<1> DEFINE rest == Tail(queue)
<1>9. /\ rest \in Seq(Stack)
      /\ Queued = {n} \cup {rest[i] : i \in DOMAIN rest}
      /\ n \notin {rest[i] : i \in DOMAIN rest}
      /\ \A i, j \in DOMAIN rest : rest[i] = rest[j] => i = j
    <2>1. /\ rest \in Seq(Stack) /\ Len(rest) = Len(queue) - 1
          /\ \A i \in 1 .. Len(rest) : rest[i] = queue[i + 1]
        BY <1>1, HeadTailProperties
    <2>2. DOMAIN rest = 1 .. Len(queue) - 1 /\ DOMAIN queue = 1 .. Len(queue) /\ Len(queue) \in Nat \ {0}
        BY <1>1, <2>1
    <2>3. \A i, j \in DOMAIN queue : queue[i] = queue[j] => i = j
        BY <1>1 DEF QueuedOnce
    <2>4. \A i \in DOMAIN rest : rest[i] = queue[i + 1] /\ i + 1 \in DOMAIN queue /\ i + 1 # 1
        BY <2>1, <2>2
    <2>5. \A i \in DOMAIN queue \ {1} : i - 1 \in DOMAIN rest /\ rest[i - 1] = queue[i]
        BY <2>1, <2>2
    <2>6. 1 \in DOMAIN queue
        BY <2>2
    <2>7. \A i, j \in DOMAIN rest : rest[i] = rest[j] => i = j
        <3> TAKE i, j \in DOMAIN rest
        <3>1. i \in Int /\ j \in Int
            BY <2>2
        <3> QED
            BY <2>3, <2>4, <3>1
    <2>8. n \notin {rest[i] : i \in DOMAIN rest}
        BY <1>3, <2>3, <2>4, <2>6
    <2>9. Queued = {n} \cup {rest[i] : i \in DOMAIN rest}
        <3> HIDE DEF n, rest
        <3> QED
            BY <1>3, <2>4, <2>5, <2>6 DEF Queued
    <2> QED
        BY <2>1, <2>7, <2>8, <2>9
<1>10. /\ q \in Seq(Stack) /\ {q[i] : i \in DOMAIN q} = Freed(n)
       /\ \A i, j \in DOMAIN q : q[i] = q[j] => i = j
    <2>1. Freed(n) \subseteq Stack /\ IsFiniteSet(Freed(n))
        BY <1>8, DependencyAssumption, FS_Subset
    <2> QED
        BY <1>2, <2>1, ListedOnce
<1>11. Freed(n) \cap (Queued \cup Placed) = {}
    BY <1>1, <1>8 DEF NoneWaits
<1>12. /\ queue' \in Seq(Stack)
       /\ Queued' = {rest[i] : i \in DOMAIN rest} \cup Freed(n)
       /\ \A i, j \in DOMAIN queue' : queue'[i] = queue'[j] => i = j
    <2> HIDE DEF n, rest
    <2>1. /\ queue' = rest \o q /\ queue' \in Seq(Stack) /\ Len(queue') = Len(rest) + Len(q)
          /\ \A i \in 1 .. Len(rest) + Len(q) :
                queue'[i] = IF i <= Len(rest) THEN rest[i] ELSE q[i - Len(rest)]
        BY <1>2, <1>9, <1>10, ConcatProperties DEF rest
    <2>2. /\ DOMAIN queue' = 1 .. Len(rest) + Len(q) /\ DOMAIN rest = 1 .. Len(rest)
          /\ DOMAIN q = 1 .. Len(q) /\ Len(rest) \in Nat /\ Len(q) \in Nat
        BY <1>9, <1>10, <2>1
    <2>3. \A i \in DOMAIN queue' : \/ i \in DOMAIN rest /\ queue'[i] = rest[i]
                                   \/ i - Len(rest) \in DOMAIN q /\ queue'[i] = q[i - Len(rest)]
        BY <2>1, <2>2
    <2>4. \A i \in DOMAIN rest : i \in DOMAIN queue' /\ queue'[i] = rest[i]
        BY <2>1, <2>2
    <2>5. \A i \in DOMAIN q : i + Len(rest) \in DOMAIN queue' /\ queue'[i + Len(rest)] = q[i]
        <3> TAKE i \in DOMAIN q
        <3>1. i \in Int /\ 1 <= i /\ i <= Len(q)
            BY <2>2
        <3> DEFINE k == i + Len(rest)
        <3>2. k \in 1 .. Len(rest) + Len(q) /\ ~(k <= Len(rest)) /\ k - Len(rest) = i
            BY <2>2, <3>1
        <3>3. queue'[k] = q[k - Len(rest)]
            <4> HIDE DEF k
            <4> QED
                BY <2>1, <3>2
        <3> QED
            BY <2>2, <3>2, <3>3
    <2>6. Queued' = {rest[i] : i \in DOMAIN rest} \cup {q[i] : i \in DOMAIN q}
        BY <2>3, <2>4, <2>5 DEF Queued
    <2>7. {rest[i] : i \in DOMAIN rest} \cap {q[i] : i \in DOMAIN q} = {}
        BY <1>9, <1>10, <1>11
    <2>8. ASSUME NEW i \in DOMAIN queue', NEW j \in DOMAIN queue', queue'[i] = queue'[j]
          PROVE  i = j
        <3>1. i \in Int /\ j \in Int
            BY <2>2
        <3>2. CASE i \in DOMAIN rest /\ queue'[i] = rest[i] /\ j \in DOMAIN rest /\ queue'[j] = rest[j]
            BY <1>9, <2>8, <3>2
        <3>3. CASE /\ i - Len(rest) \in DOMAIN q /\ queue'[i] = q[i - Len(rest)]
                   /\ j - Len(rest) \in DOMAIN q /\ queue'[j] = q[j - Len(rest)]
            <4>1. i - Len(rest) = j - Len(rest)
                BY <1>10, <2>8, <3>3
            <4> QED
                BY <2>2, <3>1, <4>1
        <3>4. CASE /\ i \in DOMAIN rest /\ queue'[i] = rest[i]
                   /\ j - Len(rest) \in DOMAIN q /\ queue'[j] = q[j - Len(rest)]
            BY <2>7, <2>8, <3>4
        <3>5. CASE /\ j \in DOMAIN rest /\ queue'[j] = rest[j]
                   /\ i - Len(rest) \in DOMAIN q /\ queue'[i] = q[i - Len(rest)]
            BY <2>7, <2>8, <3>5
        <3> QED
            BY <2>3, <3>2, <3>3, <3>4, <3>5
    <2> QED
        BY <1>10, <2>1, <2>6, <2>8
<1>13. NoneWaits'
    <2>1. ASSUME NEW t \in Queued' \cup Placed' PROVE OpenEdges(t)' = {}
        <3>1. CASE t \in Freed(n)
            BY <1>8, <3>1
        <3>2. CASE t \in Queued \cup Placed
            BY <1>1, <1>6, <3>2 DEF NoneWaits
        <3> QED
            BY <1>3, <1>4, <1>9, <1>12, <3>1, <3>2
    <2> QED
        BY <2>1 DEF NoneWaits
<1>14. NoneForgotten'
    <2>1. ASSUME NEW t \in Stack, OpenEdges(t)' = {} PROVE t \in Queued' \cup Placed'
        <3>1. CASE OpenEdges(t) # {}
            BY <1>8, <1>12, <2>1, <3>1
        <3>2. CASE OpenEdges(t) = {}
            BY <1>1, <1>4, <1>9, <1>12, <3>2 DEF NoneForgotten
        <3> QED
            BY <3>1, <3>2
    <2> QED
        BY <2>1 DEF NoneForgotten
<1>15. QueuedOnce'
    <2>1. Queued' \cap Placed' = {}
        <3>1. n \notin Freed(n)
            BY <1>3, <1>11
        <3>2. Queued \cap Placed = {}
            BY <1>1 DEF QueuedOnce
        <3> QED
            BY <1>4, <1>9, <1>11, <1>12, <3>1, <3>2
    <2> QED
        BY <1>12, <2>1 DEF QueuedOnce
<1>16. DegreesCounted'
    BY <1>1, <1>7 DEF DegreesCounted
<1>17. DependentsFirst'
    <2> HIDE DEF n
    <2>1. /\ result' \in Seq(Stack) /\ Len(result') = Len(result) + 1 /\ Len(result) \in Nat
          /\ \A i \in 1 .. Len(result) : result'[i] = result[i]
          /\ result'[Len(result) + 1] = n /\ DOMAIN result = 1 .. Len(result)
        BY <1>1, <1>3, AppendProperties
    <2>2. ASSUME NEW i \in DOMAIN result', NEW e \in Into(result[i])'
          PROVE  \E j \in 1 .. i - 1 : result'[j] = e.source
        <3>1. i \in Int /\ (i \in 1 .. Len(result) \/ i = Len(result) + 1)
            BY <2>1
        <3>2. e \in Into(result'[i])
            BY <1>1, <2>2 DEF Into, Edges, Explicit, Implicit, ShareNetwork
        <3>3. CASE i \in 1 .. Len(result)
            <4>1. PICK j \in 1 .. i - 1 : result[j] = e.source
                BY <2>1, <3>2, <3>3 DEF SortInv, DependentsFirst
            <4> QED
                BY <2>1, <3>3, <4>1
        <3>4. CASE i = Len(result) + 1
            <4>1. e.source \in Placed
                BY <1>1, <1>3, <2>1, <3>2, <3>4 DEF NoneWaits, OpenEdges
            <4>2. PICK j \in 1 .. Len(result) : result[j] = e.source
                BY <2>1, <4>1 DEF Placed
            <4> QED
                BY <2>1, <3>4, <4>2
        <3> QED
            BY <3>1, <3>3, <3>4
    <2> QED
        BY <2>2 DEF DependentsFirst
<1>18. SortTypeOK'
    <2>1. inDegree' \in [Stack -> Int]
        BY <1>1, <1>7
    <2>2. result' \in Seq(Stack)
        BY <1>1, <1>3, AppendProperties
    <2> QED
        BY <1>1, <1>12, <2>1, <2>2 DEF SortInv, SortTypeOK
<1>20. PlacedOnce'
    <2> HIDE DEF n
    <2>1. /\ \A i \in 1 .. Len(result) : result'[i] = result[i]
          /\ result'[Len(result) + 1] = n /\ Len(result) \in Nat
          /\ DOMAIN result = 1 .. Len(result) /\ DOMAIN result' = 1 .. Len(result) + 1
        BY <1>1, <1>3, AppendProperties
    <2>2. \A i \in DOMAIN result : result[i] # n
        BY <1>3 DEF Placed
    <2>3. \A i \in DOMAIN result' : i \in DOMAIN result \/ i = Len(result) + 1
        BY <2>1
    <2> QED
        BY <2>1, <2>2, <2>3 DEF SortInv, PlacedOnce
<1>19. \A e \in Edges' : e.target \in Stack
    BY <1>1 DEF Edges, Explicit, Implicit, ShareNetwork
<1> QED
    BY <1>1, <1>13, <1>14, <1>15, <1>16, <1>17, <1>18, <1>19, <1>20
       DEF SortInv, Sorting, NotBegun, CycleFound, OrderFound

(* The queue has run dry.                                                  *)
LEMMA EndKeepsInv == ASSUME SortInv, SortEnds PROVE SortInv'
<1>1. /\ phase = "sorting" /\ queue = <<>> /\ phase' = "searching"
      /\ UNCHANGED <<compose, inDegree, queue, result>>
      /\ verdict' \in {"order", "cycle"}
    BY DEF SortEnds
<1>2. NoneForgotten /\ Queued = {}
    BY <1>1 DEF SortInv, Sorting, Queued
<1>3. Placed' = Placed /\ \A t : OpenEdges(t)' = OpenEdges(t)
    BY <1>1 DEF Placed, OpenEdges, Into, Edges, Explicit, Implicit, ShareNetwork
<1>4. CycleFound'
    <2>1. verdict' = "cycle" => Len(result) # Cardinality(Stack)
        BY DEF SortEnds
    <2>2. ASSUME Placed = Stack PROVE Len(result) = Cardinality(Stack)
        <3>1. result \in [1 .. Len(result) -> Stack] /\ Len(result) \in Nat
            BY DEF SortInv, SortTypeOK
        <3>2. result \in Injection(1 .. Len(result), Stack)
            BY <3>1 DEF SortInv, PlacedOnce, Injection, IsInjective
        <3>3. result \in Surjection(1 .. Len(result), Stack)
            BY <2>2, <3>1 DEF Placed, Surjection
        <3>4. Cardinality(1 .. Len(result)) = Len(result) /\ IsFiniteSet(1 .. Len(result))
            BY <3>1, LengthIsCardinality
        <3> QED
            BY <3>2, <3>3, <3>4, FS_Surjection
    <2> QED
        BY <1>2, <1>3, <2>1, <2>2 DEF CycleFound, NoneForgotten
<1>7. OrderFound'
    <2>1. verdict' = "order" => Len(result) = Cardinality(Stack)
        BY DEF SortEnds
    <2>2. ASSUME Len(result) = Cardinality(Stack) PROVE Placed = Stack
        <3>1. result \in [1 .. Len(result) -> Stack] /\ Len(result) \in Nat
            BY DEF SortInv, SortTypeOK
        <3>2. result \in Injection(1 .. Len(result), Stack)
            BY <3>1 DEF SortInv, PlacedOnce, Injection, IsInjective
        <3>3. Cardinality(1 .. Len(result)) = Cardinality(Stack)
            BY <2>2, <3>1, LengthIsCardinality
        <3>4. result \in Surjection(1 .. Len(result), Stack)
            BY <3>2, <3>3, FS_Injection, DependencyAssumption
        <3> QED
            BY <3>1, <3>4 DEF Placed, Surjection
    <2> QED
        BY <1>3, <2>1, <2>2 DEF OrderFound
<1>5. SortTypeOK'
    BY <1>1 DEF SortInv, SortTypeOK
<1>6. DependentsFirst'
    BY <1>1 DEF SortInv, DependentsFirst, Into, Edges, Explicit, Implicit, ShareNetwork
<1> QED
    BY <1>1, <1>4, <1>5, <1>6, <1>7 DEF SortInv, NotBegun, Sorting, PlacedOnce

(* What leaves the variables of the sort alone.                            *)
LEMMA OthersKeepSort ==
    ASSUME SortInv, UNCHANGED <<compose, inDegree, queue, result>>,
           \/ UNCHANGED <<phase, verdict>>
           \/ phase = "counting" /\ phase' = "searching" /\ verdict' = "KeyError"
           \/ /\ phase \in {"searching", "levelling"} /\ phase' \in {"levelling", "done"}
              /\ UNCHANGED verdict
    PROVE  SortInv'
<1>1. Placed' = Placed /\ Queued' = Queued /\ Edges' = Edges
    BY DEF Placed, Queued, Edges, Explicit, Implicit, ShareNetwork
<1>2. \A t : OpenEdges(t)' = OpenEdges(t)
    BY <1>1 DEF OpenEdges, Into
<1>3. DependentsFirst'
    BY <1>1 DEF SortInv, DependentsFirst, Into
<1>4. SortTypeOK'
    BY DEF SortInv, SortTypeOK
<1>5. CycleFound' /\ OrderFound' /\ NotBegun' /\ PlacedOnce'
    BY <1>1, <1>2 DEF SortInv, CycleFound, OrderFound, NotBegun, PlacedOnce
<1>6. Sorting'
    BY <1>1, <1>2 DEF SortInv, Sorting, DegreesCounted, NoneWaits, QueuedOnce, NoneForgotten
<1> QED
    BY <1>3, <1>4, <1>5, <1>6 DEF SortInv

LEMMA SortInitially == GraphInit => SortInv
<1> SUFFICES ASSUME GraphInit PROVE SortInv
    OBVIOUS
<1>1. compose \in Compose /\ phase = "counting" /\ queue = <<>> /\ result = <<>> /\ verdict = "none"
    BY DependencyAssumption DEF GraphInit
<1>2. SortTypeOK
    BY <1>1 DEF SortTypeOK, GraphInit
<1> QED
    BY <1>1, <1>2 DEF SortInv, NotBegun, Sorting, PlacedOnce, DependentsFirst, CycleFound, OrderFound

LEMMA SortKeepsInv == SortInv /\ [GraphNext]_graphVars => SortInv'
<1> SUFFICES ASSUME SortInv, [GraphNext]_graphVars PROVE SortInv'
    OBVIOUS
<1>1. CASE CountDegrees
    BY <1>1, CountKeepsInv
<1>2. CASE Dequeue
    BY <1>2, DequeueKeepsInv
<1>3. CASE SortEnds
    BY <1>3, EndKeepsInv
<1>4. CASE CountRaises
    BY <1>4, OthersKeepSort DEF CountRaises
<1>5. CASE PickRoot \/ VisitNext \/ LeaveNode \/ TakeLevel
    BY <1>5, OthersKeepSort DEF PickRoot, VisitNext, LeaveNode, TakeLevel, sortVars
<1>6. CASE SearchEnds \/ LevelsEnd
    BY <1>6, OthersKeepSort DEF SearchEnds, LevelsEnd, sortVars
<1>7. CASE UNCHANGED graphVars
    BY <1>7, OthersKeepSort DEF graphVars, sortVars
<1> QED
    BY <1>1, <1>2, <1>3, <1>4, <1>5, <1>6, <1>7 DEF GraphNext, SortStep

(* The invariant of the sort.                                              *)
LEMMA SortInvHolds == GraphSpec => []SortInv
    BY SortInitially, SortKeepsInv, PTL DEF GraphSpec

(* For every file: whatever stands in the order has every service that     *)
(* depends on it before it (_topological_sort).                            *)
THEOREM DependentsFirstHolds == GraphSpec => []DependentsFirst
<1>1. SortInv => DependentsFirst
    BY DEF SortInv
<1> QED
    BY <1>1, SortInvHolds, PTL

(* An order is no order of services that depend on one another in a        *)
(* circle: the first of them in it would have another before it.           *)
LEMMA OrderIsNotCircular == ASSUME SortInv, Placed = Stack PROVE ~Circular
<1> SUFFICES ASSUME NEW S \in SUBSET Stack, Endless(S) PROVE FALSE
    BY DEF Circular
<1> DEFINE I == {i \in DOMAIN result : result[i] \in S}
           Before == OpToRel(<, Nat)
<1>1. Before = {ss \in Nat \X Nat : ss[1] < ss[2]}
    BY DEF OpToRel
<1>2. I \subseteq Nat
    BY DEF SortInv, SortTypeOK
<1>3. I # {}
    BY DEF Endless, Placed
<1>4. PICK i \in I : \A j \in I : ~(<<j, i>> \in Before)
    <2> HIDE DEF I, Before
    <2>1. IsWellFoundedOn(Before, Nat)
        BY NatLessThanWellFounded DEF Before
    <2> QED
        BY <1>2, <1>3, <2>1, WFMin
<1>5. PICK e \in Into(result[i]) : e.source \in S
    BY <1>4 DEF Endless
<1>6. PICK j \in 1 .. i - 1 : result[j] = e.source
    BY <1>4, <1>5 DEF SortInv, DependentsFirst
<1>7. i \in Nat /\ i \in DOMAIN result
    <2> HIDE DEF Before
    <2> QED
        BY <1>2, <1>4
<1>8. j \in I /\ j < i /\ j \in Nat
    <2>1. DOMAIN result = 1 .. Len(result) /\ Len(result) \in Nat
        BY DEF SortInv, SortTypeOK
    <2>2. j \in Nat /\ j < i /\ j \in DOMAIN result
        BY <1>6, <1>7, <2>1
    <2> QED
        BY <1>5, <1>6, <2>2
<1>9. <<j, i>> \in Before
    <2> HIDE DEF I, Before
    <2> QED
        BY <1>1, <1>7, <1>8
<1> QED
    BY <1>4, <1>8, <1>9

(* A sort that fails for a cycle has left out services that depend on one  *)
(* another endlessly.                                                      *)
LEMMA SortInvJudges == SortInv => SortJudges
<1> SUFFICES ASSUME SortInv PROVE SortJudges
    OBVIOUS
<1>1. ASSUME verdict = "cycle" PROVE Circular
    <3> DEFINE S == Stack \ Placed
    <3>1. S # {}
        BY <1>1 DEF SortInv, SortTypeOK, CycleFound, Placed
    <3>2. \A t \in S : \E e \in Into(t) : e.source \in S
        BY <1>1 DEF SortInv, CycleFound, OpenEdges, Into, Edges, Explicit, Implicit, EdgeType
    <3> QED
        BY <3>1, <3>2 DEF Circular, Endless
<1>2. ASSUME verdict = "order" PROVE ~Circular
    BY <1>2, OrderIsNotCircular DEF SortInv, OrderFound
<1> QED
    BY <1>1, <1>2 DEF SortJudges

(* For every file: the sort fails for a cycle when there is one, and only  *)
(* then.                                                                   *)
THEOREM SortJudgesHolds == GraphSpec => []SortJudges
    BY SortInvJudges, SortInvHolds, PTL

(* A set of numbers has a least one.                                       *)
LEMMA LeastOne ==
    ASSUME NEW T \in SUBSET Nat, T # {} PROVE \E m \in T : \A x \in T : m <= x
<1> DEFINE Less == OpToRel(<, Nat)
<1>1. Less = {ss \in Nat \X Nat : ss[1] < ss[2]} /\ IsWellFoundedOn(Less, Nat)
    BY NatLessThanWellFounded DEF OpToRel
<1> HIDE DEF Less
<1>2. PICK m \in T : \A x \in T : ~(<<x, m>> \in Less)
    BY <1>1, WFMin
<1>3. ASSUME NEW x \in T PROVE m <= x
  <2>1. x \in Nat /\ m \in Nat
      OBVIOUS
  <2>2. ~(x < m)
      BY <1>1, <1>2, <2>1
  <2> QED
      BY <2>1, <2>2
<1> QED
    BY <1>3

(***************************************************************************)
(* The search for cycles.                                                  *)
(***************************************************************************)
GraphNames == Stack \cup Strangers

(* What was visited and left.                                              *)
Left == {n \in visited : \A i \in DOMAIN path : path[i] # n}

VisitTypes ==
    /\ path \in Seq(GraphNames) /\ targets \in Seq(SUBSET GraphNames) /\ Len(targets) = Len(path)
    /\ visited \subseteq GraphNames /\ \A i \in DOMAIN path : path[i] \in visited

(* Each service on the path is a target of the one before; as long as no   *)
(* cycle was found, each of its targets is to be visited yet, or was left, *)
(* or is the next on the path.                                             *)
OnThePath ==
    /\ \A i, j \in DOMAIN path : path[i] = path[j] => i = j
    /\ \A i \in DOMAIN path : targets[i] \subseteq Targets(path[i])
    /\ \A i, j \in DOMAIN path : j = i + 1 => path[j] \in Targets(path[i])
    /\ \A i \in DOMAIN path : \A t \in Targets(path[i]) :
          \/ cycles # {} \/ t \in targets[i] \/ t \in Left
          \/ \E j \in DOMAIN path : j = i + 1 /\ path[j] = t

(* As long as no cycle was found, what was left was left after its targets. *)
Places(S) == [S -> 1 .. Cardinality(S)]
AfterTargets(place, S) == \A s \in S : \A t \in Targets(s) : place[t] < place[s]

InReverse ==
    cycles = {} =>
        /\ \A s \in Left : Targets(s) \subseteq Left
        /\ \E place \in Places(Left) : AfterTargets(place, Left)

Cycles == \A c \in cycles : c \in Seq(visited) /\ RealCycle(c)

VisitInv == VisitTypes /\ OnThePath /\ InReverse /\ Cycles

(* Targets and edges are two ways to say the same.                         *)
LEMMA EdgesAre ==
    /\ \A s : Targets(s) \subseteq GraphNames
    /\ \A s : Targets(s) # {} => s \in Stack
    /\ \A s, t : t \in Targets(s) <=> Between(s, t) # {}
    /\ \A t : \A e \in Into(t) : e.source \in Stack /\ t \in Targets(e.source)
    /\ \A s, t : t \in Targets(s) => \E e \in Into(t) : e.source = s
    BY DEF Targets, Between, Into, Edges, Explicit, Implicit, EdgeType, GraphNames

(* The services of a cycle are a set of which each depends on another.     *)
LEMMA CycleIsCircular == ASSUME NEW c, c \in Seq(GraphNames), RealCycle(c) PROVE Circular
<1> DEFINE S == {c[i] : i \in 1 .. Len(c)}
<1>1. Len(c) \in Nat /\ Len(c) > 1 /\ c[1] = c[Len(c)]
      /\ \A i \in 1 .. Len(c) - 1 : c[i + 1] \in Targets(c[i])
    BY EdgesAre DEF RealCycle, Top
<1>2. ASSUME NEW i \in 1 .. Len(c) PROVE c[i] \in Stack
  <2>1. CASE i = Len(c)
    <3>1. 1 \in 1 .. Len(c) - 1
        BY <1>1
    <3>2. c[1] \in Stack
        BY <1>1, <3>1, EdgesAre
    <3> QED
        BY <2>1, <1>1, <3>2
  <2>2. CASE i # Len(c)
    <3>1. i \in 1 .. Len(c) - 1
        BY <2>2, <1>1
    <3> QED
        BY <1>1, <3>1, EdgesAre
  <2> QED
      BY <2>1, <2>2
<1>3. S \subseteq Stack /\ c[1] \in S
    BY <1>1, <1>2
<1>4. ASSUME NEW i \in 1 .. Len(c) PROVE \E e \in Into(c[i]) : e.source \in S
  <2>1. CASE i = 1
    <3>1. Len(c) - 1 \in 1 .. Len(c) - 1 /\ Len(c) - 1 \in 1 .. Len(c) /\ (Len(c) - 1) + 1 = Len(c)
        BY <1>1
    <3>2. c[i] \in Targets(c[Len(c) - 1])
        BY <1>1, <2>1, <3>1
    <3> QED
        BY <3>1, <3>2, EdgesAre
  <2>2. CASE i # 1
    <3>1. i - 1 \in 1 .. Len(c) - 1 /\ i - 1 \in 1 .. Len(c) /\ (i - 1) + 1 = i
        BY <1>1, <2>2
    <3>2. c[i] \in Targets(c[i - 1])
        BY <1>1, <3>1
    <3> QED
        BY <3>1, <3>2, EdgesAre
  <2> QED
      BY <2>1, <2>2
<1> QED
    BY <1>3, <1>4 DEF Circular, Endless

(* Without a cycle found there is none: of a set of which each depends on  *)
(* another, the one with the last place would be a target of a later one.  *)
LEMMA LeftIsNotCircular ==
    ASSUME VisitInv, path = <<>>, Stack \subseteq visited, cycles = {} PROVE ~Circular
<1> SUFFICES ASSUME NEW S \in SUBSET Stack, Endless(S) PROVE FALSE
    BY DEF Circular
<1> DEFINE k == Cardinality(Left)
<1>1. Stack \subseteq Left /\ IsFiniteSet(Left) /\ k \in Nat
  <2>1. Stack \subseteq Left /\ Left \subseteq GraphNames
      BY DEF Left, VisitInv, VisitTypes
  <2>2. IsFiniteSet(GraphNames)
      BY DependencyAssumption, FS_Union DEF DependencyAssumption, GraphNames
  <2> QED
      BY <2>1, <2>2, FS_Subset, FS_CardinalityType
<1>2. PICK place \in Places(Left) : AfterTargets(place, Left)
    BY DEF VisitInv, InReverse
<1>3. \A s \in S : place[s] \in 1 .. k
    BY <1>1, <1>2 DEF Places
<1> DEFINE T == {k - place[s] : s \in S}
<1>4. T \subseteq Nat /\ T # {}
  <2> HIDE DEF k
  <2> QED
      BY <1>1, <1>3 DEF Endless
<1>5. PICK s \in S : \A t \in S : k - place[s] <= k - place[t]
  <2>1. \E x \in T : \A y \in T : x <= y
    <3> HIDE DEF T
    <3> QED
        BY <1>4, LeastOne
  <2> QED
      BY <2>1
<1>6. PICK e \in Into(s) : e.source \in S
    BY DEF Endless
<1>7. place[s] < place[e.source]
    BY <1>1, <1>2, <1>6, EdgesAre DEF AfterTargets
<1>8. place[s] \in 1 .. k /\ place[e.source] \in 1 .. k /\ k - place[s] <= k - place[e.source]
    BY <1>3, <1>5, <1>6
<1> HIDE DEF k
<1> QED
    BY <1>1, <1>7, <1>8

(* A target that is on the path closes a cycle.                            *)
LEMMA CycleMade ==
    ASSUME VisitInv, path # <<>>, NEW t \in Top(targets), NEW k \in DOMAIN path, path[k] = t
    PROVE  LET c == SubSeq(path, k, Len(path)) \o <<t>>
           IN  c \in Seq(visited) /\ RealCycle(c)
<1> DEFINE m == Len(path)
           s == SubSeq(path, k, m)
           c == s \o <<t>>
           n == m - k + 1
<1>1. /\ m \in Nat /\ m >= 1 /\ DOMAIN path = 1 .. m /\ path \in Seq(visited) /\ k \in 1 .. m
      /\ t \in Targets(path[m]) /\ t \in visited
  <2>1. m \in Nat /\ m >= 1 /\ DOMAIN path = 1 .. m /\ k \in 1 .. m
      BY DEF VisitInv, VisitTypes
  <2>2. path \in Seq(visited)
      BY <2>1, SeqDef DEF VisitInv, VisitTypes
  <2>3. t \in Targets(path[m])
      BY <2>1 DEF VisitInv, VisitTypes, OnThePath, Top
  <2> QED
      BY <2>1, <2>2, <2>3 DEF VisitInv, VisitTypes
<1>2. /\ s \in Seq(visited) /\ Len(s) = n /\ n \in Nat /\ n >= 1
      /\ \A i \in 1 .. n : s[i] = path[k + i - 1]
    BY <1>1, SubSeqProperties
<1>3. /\ c \in Seq(visited) /\ Len(c) = n + 1
      /\ \A i \in 1 .. n : c[i] = path[k + i - 1]
      /\ c[n + 1] = t
  <2>1. <<t>> \in Seq(visited) /\ Len(<<t>>) = 1
      BY <1>1
  <2> HIDE DEF s, n
  <2>2. c \in Seq(visited) /\ Len(c) = n + 1 /\ (\A i \in 1 .. n : c[i] = s[i]) /\ c[n + 1] = t
      BY <1>2, <2>1, ConcatProperties
  <2> QED
      BY <1>2, <2>2
<1>4. c[1] = t
  <2>1. 1 \in 1 .. n /\ k + 1 - 1 = k
      BY <1>1, <1>2
  <2> QED
      BY <1>3, <2>1
<1>5. ASSUME NEW i \in 1 .. n PROVE c[i + 1] \in Targets(c[i])
  <2>1. CASE i = n
    <3>1. k + n - 1 = m
        BY <1>1
    <3> QED
        BY <2>1, <1>1, <1>3, <3>1
  <2>2. CASE i # n
    <3>1. /\ i + 1 \in 1 .. n /\ k + i - 1 \in 1 .. m /\ k + (i + 1) - 1 \in 1 .. m
          /\ k + (i + 1) - 1 = (k + i - 1) + 1
        BY <2>2, <1>1, <1>2
    <3>2. path[k + (i + 1) - 1] \in Targets(path[k + i - 1])
        BY <1>1, <3>1 DEF VisitInv, OnThePath
    <3> QED
        BY <1>3, <3>1, <3>2
  <2> QED
      BY <2>1, <2>2
<1>6. RealCycle(c)
  <2> HIDE DEF c, n
  <2>1. Len(c) - 1 = n /\ Len(c) > 1 /\ c[1] = c[Len(c)]
      BY <1>2, <1>3, <1>4
  <2> QED
      BY <1>5, <2>1, EdgesAre DEF RealCycle, Top
<1> QED
    BY <1>3, <1>6

(* Visiting n, which the service before has no longer to visit.            *)
LEMMA EnterKeeps ==
    ASSUME VisitInv, NEW n \in GraphNames, n \notin visited, NEW rest,
           rest \in Seq(SUBSET GraphNames), Len(rest) = Len(path),
           \A i \in DOMAIN path :
               rest[i] = IF i = Len(path) THEN targets[i] \ {n} ELSE targets[i],
           \A i \in DOMAIN path : i = Len(path) => n \in targets[i],
           Enter(n, rest), compose' = compose
    PROVE  VisitInv'
<1> DEFINE m == Len(path)
<1>1. m \in Nat /\ DOMAIN path = 1 .. m /\ DOMAIN targets = 1 .. m /\ DOMAIN rest = 1 .. m
    BY DEF VisitInv, VisitTypes
<1>2. /\ \A s : Targets(s)' = Targets(s)
      /\ \A s, t : Between(s, t)' = Between(s, t)
    BY DEF Targets, Between, Edges, Explicit, Implicit, ShareNetwork
<1>3. Targets(n) \subseteq GraphNames
    BY EdgesAre
<1>4. /\ path' \in Seq(GraphNames) /\ Len(path') = m + 1 /\ DOMAIN path' = 1 .. (m + 1)
      /\ \A i \in 1 .. m : path'[i] = path[i]
      /\ path'[m + 1] = n
    BY <1>1 DEF VisitInv, VisitTypes, Enter
<1>5. /\ targets' \in Seq(SUBSET GraphNames) /\ Len(targets') = m + 1
      /\ \A i \in 1 .. m : targets'[i] = rest[i]
      /\ targets'[m + 1] = Targets(n)
    BY <1>1, <1>3 DEF Enter
<1>6. visited' = visited \cup {n} /\ cycles' = cycles
    BY DEF Enter
<1>7. VisitTypes'
  <2>1. visited' \subseteq GraphNames /\ visited \subseteq visited' /\ n \in visited'
      BY <1>6 DEF VisitInv, VisitTypes
  <2>2. \A i \in DOMAIN path' : path'[i] \in visited'
      BY <1>1, <1>4, <2>1 DEF VisitInv, VisitTypes
  <2> QED
      BY <1>1, <1>4, <1>5, <2>1, <2>2 DEF VisitTypes
<1>8. Left' = Left
    BY <1>1, <1>4, <1>6 DEF Left, VisitInv, VisitTypes
<1>9. \A i \in 1 .. m : path[i] # n
    BY <1>1 DEF VisitInv, VisitTypes
<1>10. OnThePath'
  <2>1. \A i, j \in DOMAIN path' : path'[i] = path'[j] => i = j
      BY <1>1, <1>4, <1>9 DEF VisitInv, OnThePath
  <2>2. \A i \in DOMAIN path' : targets'[i] \subseteq Targets(path'[i])
      BY <1>1, <1>4, <1>5 DEF VisitInv, OnThePath
  <2>3. \A i, j \in DOMAIN path' : j = i + 1 => path'[j] \in Targets(path'[i])
      BY <1>1, <1>4 DEF VisitInv, OnThePath
  <2>4. ASSUME NEW i \in DOMAIN path', NEW x \in Targets(path'[i])
        PROVE  \/ cycles # {} \/ x \in targets'[i] \/ x \in Left
               \/ \E j \in DOMAIN path' : j = i + 1 /\ path'[j] = x
    <3>1. CASE i = m + 1
        BY <3>1, <1>4, <1>5, <2>4
    <3>2. CASE i # m + 1
      <4>1. i \in DOMAIN path /\ path'[i] = path[i] /\ targets'[i] = rest[i]
            /\ i + 1 \in DOMAIN path'
          BY <3>2, <1>1, <1>4, <1>5, <2>4
      <4>2. \/ cycles # {} \/ x \in targets[i] \/ x \in Left
            \/ \E j \in DOMAIN path : j = i + 1 /\ path[j] = x
          BY <4>1, <2>4 DEF VisitInv, OnThePath
      <4>3. CASE x \in targets[i]
        <5>1. x \in rest[i] \/ (i = m /\ x = n)
            BY <4>1, <4>3
        <5> QED
            BY <5>1, <4>1, <1>4
      <4>4. CASE \E j \in DOMAIN path : j = i + 1 /\ path[j] = x
          BY <4>4, <1>1, <1>4
      <4> QED
          BY <4>2, <4>3, <4>4
    <3> QED
        BY <3>1, <3>2
  <2> QED
      BY <1>2, <1>6, <1>8, <2>1, <2>2, <2>3, <2>4 DEF OnThePath
<1>11. InReverse'
    BY <1>2, <1>6, <1>8 DEF VisitInv, InReverse, AfterTargets
<1>12. Cycles'
  <2> SUFFICES ASSUME NEW c \in cycles PROVE c \in Seq(visited') /\ RealCycle(c)'
      BY <1>6 DEF Cycles
  <2>1. c \in Seq(visited) /\ RealCycle(c)
      BY DEF VisitInv, Cycles
  <2>2. c \in Seq(visited')
      BY <1>6, <2>1, SeqDef
  <2> QED
      BY <1>2, <2>1, <2>2 DEF RealCycle
<1> QED
    BY <1>7, <1>10, <1>11, <1>12 DEF VisitInv

(* Beginning with another service.                                         *)
LEMMA RootKeeps == ASSUME VisitInv, PickRoot PROVE VisitInv'
<1>1. PICK n \in Stack \ visited : Enter(n, <<>>)
    BY DEF PickRoot
<1>2. path = <<>> /\ Len(path) = 0 /\ DOMAIN path = {} /\ compose' = compose
    BY DEF PickRoot
<1>3. n \in GraphNames /\ n \notin visited /\ <<>> \in Seq(SUBSET GraphNames) /\ Len(<<>>) = 0
    BY DEF GraphNames
<1> QED
    BY <1>1, <1>2, <1>3, EnterKeeps

(* Following an edge: a cycle, or what was left, or a service to visit.    *)
LEMMA VisitKeeps == ASSUME VisitInv, VisitNext PROVE VisitInv'
<1> DEFINE m == Len(path)
<1>1. PICK t \in Top(targets) : Visit(t, Append(Pop(targets), Top(targets) \ {t}))
    BY DEF VisitNext
<1> DEFINE rest == Append(Pop(targets), Top(targets) \ {t})
<1>2. /\ m \in Nat /\ m >= 1 /\ DOMAIN path = 1 .. m /\ DOMAIN targets = 1 .. m
      /\ targets \in Seq(SUBSET GraphNames) /\ Len(targets) = m
    BY DEF VisitInv, VisitTypes, VisitNext
<1>3. /\ targets[m] \in SUBSET GraphNames /\ t \in targets[m] /\ Top(targets) = targets[m]
      /\ t \in GraphNames
    BY <1>2 DEF Top
<1>4. /\ rest \in Seq(SUBSET GraphNames) /\ Len(rest) = m /\ DOMAIN rest = 1 .. m
      /\ \A i \in 1 .. m : rest[i] = IF i = m THEN targets[i] \ {t} ELSE targets[i]
  <2> DEFINE front == Pop(targets)
             next == Top(targets) \ {t}
  <2> HIDE DEF m
  <2>1. /\ front \in Seq(SUBSET GraphNames) /\ Len(front) = m - 1
        /\ \A i \in 1 .. (m - 1) : front[i] = targets[i]
        /\ next \in SUBSET GraphNames /\ next = targets[m] \ {t}
      BY <1>2, <1>3, SubSeqProperties DEF Pop
  <2> HIDE DEF front, next
  <2>2. /\ Append(front, next) \in Seq(SUBSET GraphNames) /\ Len(Append(front, next)) = m
        /\ \A i \in 1 .. (m - 1) : Append(front, next)[i] = front[i]
        /\ Append(front, next)[m] = next
      BY <1>2, <2>1, AppendProperties
  <2>3. DOMAIN Append(front, next) = 1 .. m
      BY <1>2, <2>2
  <2>4. ASSUME NEW i \in 1 .. m
        PROVE  Append(front, next)[i] = IF i = m THEN targets[i] \ {t} ELSE targets[i]
    <3>1. CASE i = m
        BY <3>1, <2>1, <2>2
    <3>2. CASE i # m
      <4>1. i \in 1 .. (m - 1)
          BY <3>2, <1>2
      <4> QED
          BY <3>2, <4>1, <2>1, <2>2
    <3> QED
        BY <3>1, <3>2
  <2> QED
      BY <2>2, <2>3, <2>4 DEF front, next
<1>5. /\ Visit(t, rest)
      /\ \A s : Targets(s)' = Targets(s)
      /\ \A s, x : Between(s, x)' = Between(s, x)
      /\ \A c : RealCycle(c)' = RealCycle(c)
  <2>1. compose' = compose
      BY DEF VisitNext
  <2>2. /\ \A s : Targets(s)' = Targets(s)
        /\ \A s, x : Between(s, x)' = Between(s, x)
      BY <2>1 DEF Targets, Between, Edges, Explicit, Implicit, ShareNetwork
  <2> QED
      BY <1>1, <2>2 DEF RealCycle
<1> HIDE DEF rest
<1>6. CASE t \in Range(path)
  <2> DEFINE k == CHOOSE i \in DOMAIN path : path[i] = t
             c == SubSeq(path, k, Len(path)) \o <<t>>
  <2>1. k \in DOMAIN path /\ path[k] = t
      BY <1>6 DEF Range
  <2>2. c \in Seq(visited) /\ RealCycle(c)
    <3> HIDE DEF k
    <3> QED
        BY <1>2, <2>1, CycleMade
  <2>3. cycles' = cycles \cup {c} /\ targets' = rest /\ visited' = visited /\ path' = path
      BY <1>5, <1>6 DEF Visit
  <2> HIDE DEF c
  <2>4. cycles' # {} /\ Left' = Left
      BY <2>3 DEF Left
  <2>5. VisitTypes'
      BY <1>2, <1>4, <2>3 DEF VisitInv, VisitTypes
  <2>6. \A i \in DOMAIN path : targets'[i] \subseteq targets[i]
      BY <1>2, <1>4, <2>3
  <2>7. OnThePath'
      BY <1>5, <2>3, <2>4, <2>6 DEF VisitInv, OnThePath
  <2>8. InReverse' /\ Cycles'
      BY <1>5, <2>2, <2>3, <2>4 DEF VisitInv, InReverse, Cycles
  <2> QED
      BY <2>5, <2>7, <2>8 DEF VisitInv
<1>7. CASE t \notin Range(path) /\ t \in visited
  <2>1. targets' = rest /\ visited' = visited /\ path' = path /\ cycles' = cycles
      BY <1>5, <1>7 DEF Visit
  <2>2. t \in Left /\ Left' = Left
      BY <1>7, <2>1 DEF Left, Range
  <2>3. VisitTypes'
      BY <1>2, <1>4, <2>1 DEF VisitInv, VisitTypes
  <2>4. \A i \in DOMAIN path : targets'[i] \subseteq targets[i] /\ targets[i] \subseteq targets'[i] \cup {t}
      BY <1>2, <1>4, <2>1
  <2>5. OnThePath'
      BY <1>5, <2>1, <2>2, <2>4 DEF VisitInv, OnThePath
  <2>6. InReverse' /\ Cycles'
      BY <1>5, <2>1, <2>2 DEF VisitInv, InReverse, Cycles, AfterTargets
  <2> QED
      BY <2>3, <2>5, <2>6 DEF VisitInv
<1>8. CASE t \notin Range(path) /\ t \notin visited
  <2>1. Enter(t, rest) /\ compose' = compose
      BY <1>5, <1>8 DEF Visit, VisitNext
  <2> QED
      BY <1>2, <1>3, <1>4, <1>8, <2>1, EnterKeeps
<1> QED
    BY <1>6, <1>7, <1>8

(* Leaving a service, which takes the next place.                          *)
LEMMA LeaveKeeps == ASSUME VisitInv, LeaveNode PROVE VisitInv'
<1> DEFINE m == Len(path)
           n == path[m]
<1>1. m \in Nat /\ m >= 1 /\ DOMAIN path = 1 .. m /\ DOMAIN targets = 1 .. m /\ n \in visited
    BY DEF VisitInv, VisitTypes, LeaveNode
<1>2. /\ \A s : Targets(s)' = Targets(s)
      /\ \A c : RealCycle(c)' = RealCycle(c)
  <2>1. compose' = compose
      BY DEF LeaveNode
  <2>2. /\ \A s : Targets(s)' = Targets(s)
        /\ \A s, x : Between(s, x)' = Between(s, x)
      BY <2>1 DEF Targets, Between, Edges, Explicit, Implicit, ShareNetwork
  <2> QED
      BY <2>2 DEF RealCycle
<1>3. /\ path' \in Seq(GraphNames) /\ Len(path') = m - 1 /\ DOMAIN path' = 1 .. (m - 1)
      /\ \A i \in 1 .. (m - 1) : path'[i] = path[i]
    BY <1>1, SubSeqProperties DEF VisitInv, VisitTypes, LeaveNode, Pop
<1>4. /\ targets' \in Seq(SUBSET GraphNames) /\ Len(targets') = m - 1
      /\ \A i \in 1 .. (m - 1) : targets'[i] = targets[i]
    BY <1>1, SubSeqProperties DEF VisitInv, VisitTypes, LeaveNode, Pop
<1>5. targets[m] = {} /\ visited' = visited /\ cycles' = cycles
    BY DEF LeaveNode, Top, VisitInv, VisitTypes
<1>6. VisitTypes'
  <2>1. visited' \subseteq GraphNames
      BY <1>5 DEF VisitInv, VisitTypes
  <2>2. \A i \in DOMAIN path' : path'[i] \in visited'
      BY <1>1, <1>3, <1>5 DEF VisitInv, VisitTypes
  <2> QED
      BY <1>1, <1>3, <1>4, <2>1, <2>2 DEF VisitTypes
<1>7. Left' = Left \cup {n} /\ n \notin Left
    BY <1>1, <1>3, <1>5 DEF Left, VisitInv, OnThePath
<1>8. cycles = {} => Targets(n) \subseteq Left
    BY <1>1, <1>5 DEF VisitInv, OnThePath
<1>9. OnThePath'
  <2>1. \A i, j \in DOMAIN path' : path'[i] = path'[j] => i = j
      BY <1>1, <1>3 DEF VisitInv, OnThePath
  <2>2. \A i \in DOMAIN path' : targets'[i] \subseteq Targets(path'[i])
      BY <1>1, <1>3, <1>4 DEF VisitInv, OnThePath
  <2>3. \A i, j \in DOMAIN path' : j = i + 1 => path'[j] \in Targets(path'[i])
      BY <1>1, <1>3 DEF VisitInv, OnThePath
  <2>4. ASSUME NEW i \in DOMAIN path', NEW x \in Targets(path'[i])
        PROVE  \/ cycles # {} \/ x \in targets'[i] \/ x \in Left'
               \/ \E j \in DOMAIN path' : j = i + 1 /\ path'[j] = x
    <3>1. i \in DOMAIN path /\ path'[i] = path[i] /\ targets'[i] = targets[i]
        BY <1>1, <1>3, <1>4, <2>4
    <3>2. \/ cycles # {} \/ x \in targets[i] \/ x \in Left
          \/ \E j \in DOMAIN path : j = i + 1 /\ path[j] = x
        BY <3>1, <2>4 DEF VisitInv, OnThePath
    <3>3. CASE \E j \in DOMAIN path : j = i + 1 /\ path[j] = x
      <4>1. PICK j \in DOMAIN path : j = i + 1 /\ path[j] = x
          BY <3>3
      <4>2. CASE j = m
          BY <4>1, <4>2, <1>7
      <4>3. CASE j # m
          BY <4>1, <4>3, <1>1, <1>3
      <4> QED
          BY <4>2, <4>3
    <3> QED
        BY <3>1, <3>2, <3>3, <1>7
  <2> QED
      BY <1>2, <1>5, <2>1, <2>2, <2>3, <2>4 DEF OnThePath
<1>10. InReverse'
  <2> SUFFICES ASSUME cycles = {}
               PROVE  /\ \A s \in Left' : Targets(s) \subseteq Left'
                      /\ \E place \in Places(Left') : AfterTargets(place, Left')
      BY <1>2, <1>5 DEF InReverse, AfterTargets
  <2>1. PICK place \in Places(Left) : AfterTargets(place, Left)
      BY DEF VisitInv, InReverse
  <2>2. IsFiniteSet(Left) /\ Cardinality(Left) \in Nat
    <3>1. IsFiniteSet(GraphNames)
        BY DependencyAssumption, FS_Union DEF DependencyAssumption, GraphNames
    <3>2. IsFiniteSet(Left)
        BY <3>1, FS_Subset DEF Left, VisitInv, VisitTypes
    <3> QED
        BY <3>2, FS_CardinalityType
  <2> DEFINE U == Left \cup {n}
             k == Cardinality(Left) + 1
             next == [s \in U |-> IF s = n THEN k ELSE place[s]]
  <2>3. Cardinality(U) = k
      BY <1>7, <2>2, FS_AddElement
  <2>4. \A s \in Left : place[s] \in 1 .. Cardinality(Left) /\ s # n
      BY <2>1, <1>7 DEF Places
  <2>5. next \in Places(U)
    <3>1. \A s \in Left : place[s] \in 1 .. k
      <4> SUFFICES ASSUME NEW s \in Left PROVE place[s] \in 1 .. k
          OBVIOUS
      <4>1. place[s] \in 1 .. Cardinality(Left)
          BY <2>4
      <4> QED
          BY <2>2, <4>1
    <3>2. k \in 1 .. k
        BY <2>2
    <3>3. next \in [U -> 1 .. k]
        BY <3>1, <3>2
    <3> QED
        BY <2>3, <3>3 DEF Places
  <2>6. \A s \in U : Targets(s) \subseteq Left
      BY <1>8 DEF VisitInv, InReverse
  <2>7. AfterTargets(next, U)
    <3> SUFFICES ASSUME NEW s \in U, NEW t \in Targets(s) PROVE next[t] < next[s]
        BY DEF AfterTargets
    <3>1. t \in Left /\ next[t] = place[t] /\ place[t] \in 1 .. Cardinality(Left)
        BY <2>4, <2>6
    <3>2. CASE s = n
        BY <3>1, <3>2, <2>2
    <3>3. CASE s # n
        BY <3>1, <3>3, <2>1 DEF AfterTargets
    <3> QED
        BY <3>2, <3>3
  <2> HIDE DEF next
  <2> QED
      BY <1>7, <2>5, <2>6, <2>7
<1>11. Cycles'
    BY <1>2, <1>5 DEF VisitInv, Cycles
<1> QED
    BY <1>6, <1>9, <1>10, <1>11 DEF VisitInv

(* What leaves the variables of the search alone.                          *)
LEMMA VisitUnchanged == ASSUME VisitInv, compose' = compose, UNCHANGED searchVars PROVE VisitInv'
<1>1. /\ \A s : Targets(s)' = Targets(s)
      /\ \A s, x : Between(s, x)' = Between(s, x)
    BY DEF Targets, Between, Edges, Explicit, Implicit, ShareNetwork
<1>2. Left' = Left /\ \A c : RealCycle(c)' = RealCycle(c)
    BY <1>1 DEF Left, RealCycle, searchVars
<1> QED
    BY <1>1, <1>2
    DEF VisitInv, VisitTypes, OnThePath, InReverse, Cycles, AfterTargets, searchVars

(***************************************************************************)
(* The levels of a parallel start.                                         *)
(***************************************************************************)

(* A level has what its services depend on one level before at the latest, *)
(* and something of it there; the next level is the same.                  *)
OneAfter ==
    /\ \A j \in DOMAIN levels : \A t \in levels[j] :
          /\ \A e \in Into(t) : \E k \in DOMAIN levels : k < j /\ e.source \in levels[k]
          /\ \A i \in DOMAIN levels : j = i + 1 => \E e \in Into(t) : e.source \in levels[i]
    /\ \A t \in remaining : \A i \in DOMAIN levels :
          i = Len(levels) => \E e \in Into(t) : e.source \in remaining \cup levels[i]

(* Every service remains or is on one level; what is in a circle remains.  *)
OnOneLevel ==
    /\ \A s \in Stack \ remaining : \E i \in DOMAIN levels : s \in levels[i]
    /\ \A i \in DOMAIN levels : levels[i] \cap remaining = {}
    /\ \A i, j \in DOMAIN levels : levels[i] \cap levels[j] # {} => i = j
    /\ \A S \in SUBSET Stack : Endless(S) => S \subseteq remaining

LevelInv ==
    /\ remaining \subseteq Stack /\ levels \in Seq(SUBSET Stack)
    /\ OneAfter /\ OnOneLevel

(* Taking a level.                                                         *)
LEMMA TakeKeeps == ASSUME LevelInv, TakeLevel PROVE LevelInv'
<1> DEFINE m == Len(levels)
<1>1. m \in Nat /\ DOMAIN levels = 1 .. m /\ Level \subseteq remaining /\ Level \in SUBSET Stack
    BY DEF LevelInv, Level
<1>2. /\ \A t : Into(t)' = Into(t)
      /\ \A S : Endless(S)' = Endless(S)
  <2>1. compose' = compose
      BY DEF TakeLevel
  <2>2. \A t : Into(t)' = Into(t)
      BY <2>1 DEF Into, Edges, Explicit, Implicit, ShareNetwork
  <2> QED
      BY <2>2 DEF Endless
<1>3. /\ levels' \in Seq(SUBSET Stack) /\ Len(levels') = m + 1 /\ DOMAIN levels' = 1 .. (m + 1)
      /\ \A i \in 1 .. m : levels'[i] = levels[i]
      /\ levels'[m + 1] = Level
    BY <1>1 DEF LevelInv, TakeLevel
<1>4. remaining' = remaining \ Level
    BY DEF TakeLevel
<1>5. \A t \in Level : \A e \in Into(t) : e.source \in Stack \ remaining
    BY EdgesAre DEF Level
<1>6. OneAfter'
  <2>1. ASSUME NEW j \in DOMAIN levels', NEW t \in levels'[j]
        PROVE  /\ \A e \in Into(t) : \E k \in DOMAIN levels' : k < j /\ e.source \in levels'[k]
               /\ \A i \in DOMAIN levels' : j = i + 1 => \E e \in Into(t) : e.source \in levels'[i]
    <3>1. CASE j = m + 1
      <4>1. t \in Level
          BY <2>1, <3>1, <1>3
      <4>2. \A e \in Into(t) : \E k \in DOMAIN levels' : k < j /\ e.source \in levels'[k]
        <5> SUFFICES ASSUME NEW e \in Into(t)
                     PROVE  \E k \in DOMAIN levels' : k < j /\ e.source \in levels'[k]
            OBVIOUS
        <5>1. PICK k \in DOMAIN levels : e.source \in levels[k]
            BY <4>1, <1>5 DEF LevelInv, OnOneLevel
        <5> QED
            BY <5>1, <3>1, <1>1, <1>3
      <4>3. ASSUME NEW i \in DOMAIN levels', j = i + 1
            PROVE  \E e \in Into(t) : e.source \in levels'[i]
        <5>1. i = m /\ i \in DOMAIN levels /\ levels'[i] = levels[i]
            BY <4>3, <3>1, <1>1, <1>3
        <5>2. PICK e \in Into(t) : e.source \in remaining \cup levels[i]
            BY <5>1, <4>1, <1>1 DEF LevelInv, OneAfter
        <5> QED
            BY <5>1, <5>2, <4>1, <1>5
      <4> QED
          BY <4>2, <4>3
    <3>2. CASE j # m + 1
      <4>1. j \in DOMAIN levels /\ t \in levels[j] /\ DOMAIN levels \subseteq DOMAIN levels'
          BY <2>1, <3>2, <1>1, <1>3
      <4>2. \A e \in Into(t) : \E k \in DOMAIN levels' : k < j /\ e.source \in levels'[k]
          BY <4>1, <1>1, <1>3 DEF LevelInv, OneAfter
      <4>3. ASSUME NEW i \in DOMAIN levels', j = i + 1
            PROVE  \E e \in Into(t) : e.source \in levels'[i]
        <5>1. i \in DOMAIN levels /\ levels'[i] = levels[i]
            BY <4>1, <4>3, <1>1, <1>3
        <5> QED
            BY <5>1, <4>1, <4>3 DEF LevelInv, OneAfter
      <4> QED
          BY <4>2, <4>3
    <3> QED
        BY <3>1, <3>2
  <2>2. ASSUME NEW t \in remaining', NEW i \in DOMAIN levels', i = Len(levels')
        PROVE  \E e \in Into(t) : e.source \in remaining' \cup levels'[i]
    <3>1. \E e \in Into(t) : e.source \in remaining
        BY <2>2, <1>4 DEF Level
    <3> QED
        BY <3>1, <2>2, <1>3, <1>4
  <2> QED
      BY <1>2, <2>1, <2>2 DEF OneAfter
<1>7. OnOneLevel'
  <2>1. ASSUME NEW s \in Stack \ remaining' PROVE \E i \in DOMAIN levels' : s \in levels'[i]
    <3>1. CASE s \in Level
        BY <3>1, <1>1, <1>3
    <3>2. CASE s \notin Level
      <4>1. PICK i \in DOMAIN levels : s \in levels[i]
          BY <2>1, <3>2, <1>4 DEF LevelInv, OnOneLevel
      <4> QED
          BY <4>1, <1>1, <1>3
    <3> QED
        BY <3>1, <3>2
  <2>2. \A i \in DOMAIN levels' : levels'[i] \cap remaining' = {}
      BY <1>1, <1>3, <1>4 DEF LevelInv, OnOneLevel
  <2>3. \A i, j \in DOMAIN levels' : levels'[i] \cap levels'[j] # {} => i = j
    <3>1. \A i \in 1 .. m : levels'[i] \cap levels'[m + 1] = {}
        BY <1>1, <1>3 DEF LevelInv, OnOneLevel
    <3>2. \A i, j \in 1 .. m : levels'[i] \cap levels'[j] # {} => i = j
        BY <1>1, <1>3 DEF LevelInv, OnOneLevel
    <3>3. \A i \in DOMAIN levels' : i \in 1 .. m \/ i = m + 1
        BY <1>1, <1>3
    <3> QED
        BY <3>1, <3>2, <3>3
  <2>4. ASSUME NEW S \in SUBSET Stack, Endless(S) PROVE S \subseteq remaining'
    <3>1. S \subseteq remaining
        BY <2>4 DEF LevelInv, OnOneLevel
    <3>2. ASSUME NEW s \in S PROVE s \notin Level
      <4>1. PICK e \in Into(s) : e.source \in S
          BY <2>4 DEF Endless
      <4> QED
          BY <4>1, <3>1, <1>5
    <3> QED
        BY <3>1, <3>2, <1>4
  <2> QED
      BY <1>2, <2>1, <2>2, <2>3, <2>4 DEF OnOneLevel
<1> QED
    BY <1>1, <1>3, <1>4, <1>6, <1>7 DEF LevelInv

(* What leaves the variables of the levels alone.                          *)
LEMMA LevelUnchanged == ASSUME LevelInv, compose' = compose, UNCHANGED levelVars PROVE LevelInv'
<1>1. \A t : Into(t)' = Into(t)
    BY DEF Into, Edges, Explicit, Implicit, ShareNetwork
<1>2. \A S : Endless(S)' = Endless(S)
    BY <1>1 DEF Endless
<1>3. remaining' = remaining /\ levels' = levels
    BY DEF levelVars
<1>4. OneAfter'
    BY <1>1, <1>3 DEF LevelInv, OneAfter
<1>5. OnOneLevel'
    BY <1>2, <1>3 DEF LevelInv, OnOneLevel
<1> QED
    BY <1>3, <1>4, <1>5 DEF LevelInv

(* A service is on the level after the last that has one it follows.       *)
LEMMA LevelIs ==
    ASSUME LevelInv, NEW t \in Stack \ remaining
    PROVE  LevelOf(t) =
             {1 + Cardinality({i \in DOMAIN levels : \E e \in Into(t), k \in i .. Len(levels) :
                                                         e.source \in levels[k]})}
<1> DEFINE I == {i \in DOMAIN levels : \E e \in Into(t), k \in i .. Len(levels) :
                                          e.source \in levels[k]}
           m == Len(levels)
<1>1. m \in Nat /\ DOMAIN levels = 1 .. m
    BY DEF LevelInv
<1>2. PICK j \in DOMAIN levels : t \in levels[j]
    BY DEF LevelInv, OnOneLevel
<1>3. LevelOf(t) = {j}
    BY <1>2 DEF LevelOf, LevelInv, OnOneLevel
<1>4. ASSUME NEW i \in I PROVE i \in 1 .. (j - 1)
  <2>1. PICK e \in Into(t), k \in i .. Len(levels) : e.source \in levels[k]
      OBVIOUS
  <2>2. PICK l \in DOMAIN levels : l < j /\ e.source \in levels[l]
      BY <1>2 DEF LevelInv, OneAfter
  <2>3. i \in 1 .. m
      BY <1>1
  <2>4. k \in DOMAIN levels
      BY <1>1, <2>3
  <2>5. k = l
      BY <2>1, <2>2, <2>4 DEF LevelInv, OnOneLevel
  <2> HIDE DEF I, m
  <2> QED
      BY <1>1, <1>2, <2>2, <2>3, <2>5
<1>5. ASSUME NEW i \in 1 .. (j - 1) PROVE i \in I
  <2>1. j - 1 \in DOMAIN levels /\ j = (j - 1) + 1 /\ i \in DOMAIN levels
        /\ j - 1 \in i .. Len(levels)
      BY <1>1, <1>2
  <2>2. \E e \in Into(t) : e.source \in levels[j - 1]
      BY <1>2, <2>1 DEF LevelInv, OneAfter
  <2> QED
      BY <2>1, <2>2
<1>6. I = 1 .. (j - 1)
    BY <1>4, <1>5
<1>7. j - 1 \in Nat /\ Cardinality(1 .. (j - 1)) = j - 1 /\ 1 + (j - 1) = j
  <2>1. j \in 1 .. m /\ j - 1 \in Nat
      BY <1>1, <1>2
  <2> QED
      BY <2>1, LengthIsCardinality
<1> QED
    BY <1>3, <1>6, <1>7

(***************************************************************************)
(* The report.                                                             *)
(***************************************************************************)
Degrees == inDegree \in [Stack -> Nat]

Phases ==
    /\ phase \in {"levelling", "done"} => path = <<>> /\ Stack \subseteq visited
    /\ phase = "done" => Level = {}

GraphInv == SortInv /\ VisitInv /\ LevelInv /\ Degrees /\ Phases

LEMMA GraphInitially == GraphInit => GraphInv
<1> SUFFICES ASSUME GraphInit PROVE GraphInv
    OBVIOUS
<1>1. SortInv
    BY SortInitially
<1>2. VisitTypes /\ OnThePath /\ Left = {} /\ Cycles
    BY DEF GraphInit, VisitTypes, OnThePath, Left, Cycles
<1>3. InReverse
  <2>1. [s \in {} |-> 1] \in Places({}) /\ AfterTargets([s \in {} |-> 1], {})
      BY DEF Places, AfterTargets
  <2> QED
      BY <1>2, <2>1 DEF InReverse
<1>4. LevelInv
    BY DEF GraphInit, LevelInv, OneAfter, OnOneLevel
<1>5. Degrees /\ Phases
    BY DEF GraphInit, Degrees, Phases
<1> QED
    BY <1>1, <1>2, <1>3, <1>4, <1>5 DEF GraphInv, VisitInv

(* The three algorithms together.                                          *)
LEMMA GraphStep == ASSUME GraphInv, [GraphNext]_graphVars PROVE GraphInv'
<1>1. SortInv' /\ compose' = compose
  <2>1. SortInv'
      BY SortKeepsInv DEF GraphInv
  <2> QED
      BY <2>1 DEF GraphNext, SortStep, CountDegrees, CountRaises, Dequeue, SortEnds, PickRoot,
                  VisitNext, LeaveNode, SearchEnds, TakeLevel, LevelsEnd, graphVars
<1>2. VisitInv'
  <2>1. CASE PickRoot
      BY <2>1, RootKeeps DEF GraphInv
  <2>2. CASE VisitNext
      BY <2>2, VisitKeeps DEF GraphInv
  <2>3. CASE LeaveNode
      BY <2>3, LeaveKeeps DEF GraphInv
  <2>4. CASE UNCHANGED searchVars
      BY <2>4, <1>1, VisitUnchanged DEF GraphInv
  <2> QED
      BY <2>1, <2>2, <2>3, <2>4
      DEF GraphNext, SortStep, CountDegrees, CountRaises, Dequeue, SortEnds, SearchEnds,
          TakeLevel, LevelsEnd, graphVars
<1>3. LevelInv'
  <2>1. CASE TakeLevel
      BY <2>1, TakeKeeps DEF GraphInv
  <2>2. CASE UNCHANGED levelVars
      BY <2>2, <1>1, LevelUnchanged DEF GraphInv
  <2> QED
      BY <2>1, <2>2
      DEF GraphNext, SortStep, CountDegrees, CountRaises, Dequeue, SortEnds, PickRoot, VisitNext,
          LeaveNode, SearchEnds, LevelsEnd, graphVars
<1>4. Degrees'
  <2>1. CASE CountDegrees \/ Dequeue
    <3>1. phase' = "sorting" /\ inDegree' \in [Stack -> Int]
        BY <2>1, <1>1 DEF CountDegrees, Dequeue, SortInv, SortTypeOK
    <3>2. DegreesCounted'
        BY <1>1, <3>1 DEF SortInv, Sorting
    <3>3. ASSUME NEW t \in Stack PROVE Cardinality(OpenEdges(t)') \in Nat
      <4>1. OpenEdges(t)' \subseteq Edges
          BY <1>1 DEF OpenEdges, Into, Edges, Explicit, Implicit, ShareNetwork
      <4> QED
          BY <4>1, FiniteEdges, FS_Subset, FS_CardinalityType
    <3> QED
        BY <3>1, <3>2, <3>3 DEF Degrees, DegreesCounted
  <2>2. CASE inDegree' = inDegree
      BY <2>2 DEF GraphInv, Degrees
  <2> QED
      BY <2>1, <2>2
      DEF GraphNext, SortStep, CountRaises, SortEnds, PickRoot, VisitNext, LeaveNode, SearchEnds,
          TakeLevel, LevelsEnd, graphVars, sortVars
<1>5. Phases'
  <2>1. CASE SearchEnds
      BY <2>1 DEF SearchEnds, Phases, searchVars
  <2>2. CASE LevelsEnd
    <3>1. Level' = Level
        BY <2>2, <1>1 DEF LevelsEnd, Level, Into, Edges, Explicit, Implicit, ShareNetwork, levelVars
    <3> QED
        BY <2>2, <3>1 DEF LevelsEnd, GraphInv, Phases, searchVars
  <2>3. CASE TakeLevel
      BY <2>3 DEF TakeLevel, GraphInv, Phases, searchVars
  <2>4. CASE SortStep \/ PickRoot \/ VisitNext \/ LeaveNode
      BY <2>4 DEF SortStep, CountDegrees, CountRaises, Dequeue, SortEnds, PickRoot, VisitNext,
                  LeaveNode, Phases
  <2>5. CASE UNCHANGED graphVars
    <3>1. Level' = Level
        BY <2>5, <1>1
        DEF Level, Into, Edges, Explicit, Implicit, ShareNetwork, levelVars, graphVars
    <3> QED
        BY <2>5, <3>1 DEF GraphInv, Phases, graphVars, searchVars
  <2> QED
      BY <2>1, <2>2, <2>3, <2>4, <2>5 DEF GraphNext
<1> QED
    BY <1>1, <1>2, <1>3, <1>4, <1>5 DEF GraphInv

LEMMA GraphTyped == GraphInv => GraphTypeOK
<1> SUFFICES ASSUME GraphInv PROVE GraphTypeOK
    OBVIOUS
<1>1. VisitTypes /\ Cycles
    BY DEF GraphInv, VisitInv
<1>2. path \in Seq(visited)
    BY <1>1, SeqDef DEF VisitTypes
<1>3. targets \in [DOMAIN path -> SUBSET (Stack \cup Strangers)]
    BY <1>1 DEF VisitTypes, GraphNames
<1> QED
    BY <1>1, <1>2, <1>3
    DEF GraphInv, SortInv, SortTypeOK, LevelInv, Degrees, VisitTypes, Cycles, GraphTypeOK, GraphNames

(* The variables of the three algorithms have their types.                 *)
THEOREM GraphTypeCorrect == GraphSpec => []GraphTypeOK
    BY GraphTyped, GraphInitially, GraphStep, PTL DEF GraphSpec

(* For every file: the three algorithms of the report agree on whether     *)
(* there is a cycle, and there is one; each cycle named is one; the levels *)
(* are as early as they can be; and the order has every service once.      *)
THEOREM ReportAgreesHolds == GraphSpec => []ReportAgrees
<1>1. GraphInv => ReportAgrees
  <2> SUFFICES ASSUME GraphInv, phase = "done" PROVE ReportAgrees
      BY DEF ReportAgrees
  <2>1. SortJudges
      BY SortInvJudges DEF GraphInv
  <2>2. (cycles # {}) = Circular
    <3>1. ASSUME NEW c \in cycles PROVE Circular
      <4>1. c \in Seq(visited) /\ RealCycle(c) /\ visited \subseteq GraphNames
          BY DEF GraphInv, VisitInv, Cycles, VisitTypes
      <4>2. c \in Seq(GraphNames)
          BY <4>1, SeqDef
      <4> QED
          BY <4>1, <4>2, CycleIsCircular
    <3>2. cycles = {} => ~Circular
        BY LeftIsNotCircular DEF GraphInv, Phases
    <3>3. Circular \in BOOLEAN /\ (cycles # {}) \in BOOLEAN /\ (cycles # {} <=> Circular)
        BY <3>1, <3>2 DEF Circular
    <3> QED
        BY <3>3
  <2>3. (remaining # {}) = Circular
    <3>1. remaining # {} => Endless(remaining) /\ remaining \in SUBSET Stack
        BY DEF GraphInv, Phases, Level, Endless, LevelInv
    <3>2. Circular => remaining # {}
        BY DEF GraphInv, LevelInv, OnOneLevel, Circular, Endless
    <3>3. Circular \in BOOLEAN /\ (remaining # {}) \in BOOLEAN /\ (remaining # {} <=> Circular)
        BY <3>1, <3>2 DEF Circular
    <3> QED
        BY <3>3
  <2>4. \A c \in cycles : RealCycle(c)
      BY DEF GraphInv, VisitInv, Cycles
  <2>5. \A t \in Stack \ remaining : LevelOf(t) =
            {1 + Cardinality({i \in DOMAIN levels : \E e \in Into(t), k \in i .. Len(levels) :
                                                        e.source \in levels[k]})}
      BY LevelIs DEF GraphInv
  <2>6. ASSUME verdict = "order" PROVE Range(result) = Stack /\ Len(result) = Cardinality(Stack)
    <3>1. Placed = Stack /\ PlacedOnce /\ result \in Seq(Stack)
        BY <2>6 DEF GraphInv, SortInv, OrderFound, SortTypeOK
    <3>2. result \in Surjection(1 .. Len(result), Stack) /\ result \in Injection(1 .. Len(result), Stack)
          /\ Len(result) \in Nat
        BY <3>1 DEF Surjection, Injection, IsInjective, Placed, PlacedOnce
    <3>3. Cardinality(Stack) = Len(result)
        BY <3>2, LengthIsCardinality, FS_Surjection
    <3> QED
        BY <3>1, <3>3 DEF Placed, Range
  <2> QED
      BY <2>1, <2>2, <2>3, <2>4, <2>5, <2>6 DEF ReportAgrees
<1> QED
    BY <1>1, GraphInitially, GraphStep, PTL DEF GraphSpec

(***************************************************************************)
(* The validation of a file.                                               *)
(***************************************************************************)

FileNames == FileServices \cup Missing

(* What was visited and has returned.                                      *)
Returned == {n \in seen : \A i \in DOMAIN trail : trail[i] # n}

SearchTypes ==
    /\ trail \in Seq(FileNames) /\ unseen \in Seq(SUBSET FileNames) /\ Len(unseen) = Len(trail)
    /\ seen \subseteq FileNames /\ \A i \in DOMAIN trail : trail[i] \in seen

(* Each call on the way was made for a dependency of its caller, and each  *)
(* dependency is left to follow, or has returned, or is the next call.     *)
OnTheWay ==
    /\ \A i, j \in DOMAIN trail : trail[i] = trail[j] => i = j
    /\ \A i \in DOMAIN trail : unseen[i] \subseteq Dependencies(trail[i])
    /\ \A i, j \in DOMAIN trail : j = i + 1 => trail[j] \in Dependencies(trail[i])
    /\ \A i \in DOMAIN trail : \A n \in Dependencies(trail[i]) :
          n \in unseen[i] \/ n \in Returned \/ \E j \in DOMAIN trail : j = i + 1 /\ trail[j] = n

(* What has returned can be started in the order it returned in.           *)
OrderIn(place, S) ==
    \A s \in S : \A t \in file.dependsOn[s] \cap FileServices : place[t] < place[s]

ReturnedInOrder ==
    /\ \A s \in Returned : Dependencies(s) \subseteq Returned
    /\ \E place \in Places(Returned \cap FileServices) :
          OrderIn(place, Returned \cap FileServices)

CallsInv == SearchTypes /\ OnTheWay /\ ReturnedInOrder

NothingMissing == \A s \in FileServices : file.dependsOn[s] \subseteq FileServices
PortsApart ==
    \A s, t \in FileServices : \A k \in file.ports[s], n \in file.ports[t] :
        s # t => k.host # n.host \/ k.host = 0

(* What the checks that were made have found.                              *)
ErrorsFit ==
    /\ stage \in {"services", "missing"} => trail = <<>> /\ "missing" \notin errors
    /\ stage \in {"services", "missing", "circular"} => "circular" \notin errors
    /\ stage \in {"ports", "networks", "judged"} => ("circular" \in errors) = ~Startable
    /\ stage \notin {"services", "missing"} /\ "missing" \notin errors => NothingMissing
    /\ stage \in {"networks", "judged"} /\ "port" \notin errors => PortsApart

ValidationInv ==
    /\ file \in ParsedFile
    /\ stage \in {"services", "missing", "circular", "ports", "networks", "judged"}
    /\ errors \subseteq {"service", "missing", "circular", "port", "network"}
    /\ CallsInv /\ ErrorsFit

(* What the dependencies of a name are.                                    *)
LEMMA DependenciesAre ==
    ASSUME file \in ParsedFile, NEW n
    PROVE  /\ Dependencies(n) \subseteq FileNames
           /\ Dependencies(n) # {} => n \in FileServices
           /\ n \in FileServices => file.dependsOn[n] = Dependencies(n)
    BY DEF Dependencies, ParsedFile, FileNames

(* A service that is met on the way closes a cycle.                        *)
LEMMA NoOrderWithCycle ==
    ASSUME file \in ParsedFile, CallsInv, trail # <<>>, NEW n \in Last(unseen), FindsCycle(n)
    PROVE  ~Startable
<1> DEFINE m == Len(trail)
<1>1. m \in Nat /\ m >= 1 /\ DOMAIN trail = 1 .. m /\ DOMAIN unseen = 1 .. m
    BY DEF CallsInv, SearchTypes
<1>2. PICK k \in DOMAIN trail : trail[k] = n
    BY DEF FindsCycle, Range
<1>3. n \in Dependencies(trail[m])
    BY <1>1 DEF CallsInv, SearchTypes, OnTheWay, Last
<1>4. \A i \in DOMAIN trail : trail[i] \in FileServices
  <2> SUFFICES ASSUME NEW i \in DOMAIN trail PROVE Dependencies(trail[i]) # {}
      BY DependenciesAre
  <2>1. CASE i = m
      BY <2>1, <1>3
  <2>2. CASE i # m
    <3>1. i + 1 \in DOMAIN trail
        BY <2>2, <1>1
    <3> QED
        BY <3>1 DEF CallsInv, OnTheWay
  <2> QED
      BY <2>1, <2>2
<1> SUFFICES ASSUME NEW place \in [FileServices -> 1 .. Cardinality(FileServices)],
                    \A s \in FileServices :
                        \A t \in file.dependsOn[s] \cap FileServices : place[t] < place[s]
             PROVE  FALSE
    BY DEF Startable
<1> DEFINE T == {place[trail[i]] : i \in k .. m}
<1>5. T \subseteq Nat /\ T # {}
    BY <1>1, <1>2, <1>4
<1>6. PICK i \in k .. m : \A j \in k .. m : place[trail[i]] <= place[trail[j]]
  <2>1. \E x \in T : \A y \in T : x <= y
    <3> HIDE DEF T
    <3> QED
        BY <1>5, LeastOne
  <2> QED
      BY <2>1
<1>7. i \in DOMAIN trail /\ trail[i] \in FileServices /\ place[trail[i]] \in Nat
      /\ file.dependsOn[trail[i]] = Dependencies(trail[i])
    BY <1>1, <1>2, <1>4, DependenciesAre
<1>8. \E j \in k .. m : trail[j] \in Dependencies(trail[i])
  <2>1. CASE i = m
      BY <2>1, <1>1, <1>2, <1>3
  <2>2. CASE i # m
    <3>1. i + 1 \in DOMAIN trail /\ i + 1 \in k .. m
      <4>1. m \in Nat /\ k \in 1 .. m /\ i \in k .. m /\ DOMAIN trail = 1 .. m
          BY <1>1, <1>2
      <4> HIDE DEF m
      <4> QED
          BY <2>2, <4>1
    <3> QED
        BY <3>1, <1>7 DEF CallsInv, OnTheWay
  <2> QED
      BY <2>1, <2>2
<1>9. PICK j \in k .. m : trail[j] \in Dependencies(trail[i])
    BY <1>8
<1>10. trail[j] \in FileServices /\ place[trail[j]] \in Nat
    BY <1>1, <1>2, <1>4
<1>11. place[trail[j]] < place[trail[i]]
    BY <1>7, <1>9, <1>10
<1> QED
    BY <1>6, <1>7, <1>10, <1>11

LEMMA ValidationInitially == ValidationInit => ValidationInv
<1> SUFFICES ASSUME ValidationInit PROVE ValidationInv
    OBVIOUS
<1>1. file \in ParsedFile
    BY ValidationAssumption DEF ValidationInit, ValidationAssumption
<1>2. SearchTypes /\ OnTheWay /\ Returned = {}
    BY DEF ValidationInit, SearchTypes, OnTheWay, Returned
<1>3. ReturnedInOrder
  <2>1. [s \in {} |-> 1] \in Places({})
      BY DEF Places
  <2>2. OrderIn([s \in {} |-> 1], {})
      BY DEF OrderIn
  <2> QED
      BY <1>2, <2>1, <2>2 DEF ReturnedInOrder
<1>4. ErrorsFit
    BY DEF ErrorsFit, ValidationInit
<1> QED
    BY <1>1, <1>2, <1>3, <1>4 DEF ValidationInv, CallsInv, ValidationInit

(* A call, whose caller has no longer to follow n.                         *)
LEMMA CallKeeps ==
    ASSUME file \in ParsedFile, CallsInv, NEW n \in FileNames, n \notin seen, NEW callers,
           callers \in Seq(SUBSET FileNames), Len(callers) = Len(trail),
           \A i \in DOMAIN trail : callers[i] = IF i = Len(trail) THEN unseen[i] \ {n} ELSE unseen[i],
           \A i \in DOMAIN trail : i = Len(trail) => n \in unseen[i],
           Visits(n, callers), file' = file
    PROVE  CallsInv'
<1> DEFINE m == Len(trail)
<1>1. m \in Nat /\ DOMAIN trail = 1 .. m /\ DOMAIN unseen = 1 .. m /\ DOMAIN callers = 1 .. m
    BY DEF CallsInv, SearchTypes
<1>2. \A x : Dependencies(x)' = Dependencies(x)
    BY DEF Dependencies
<1>3. Dependencies(n) \subseteq FileNames
    BY DependenciesAre
<1>4. /\ trail' \in Seq(FileNames) /\ Len(trail') = m + 1 /\ DOMAIN trail' = 1 .. (m + 1)
      /\ \A i \in 1 .. m : trail'[i] = trail[i]
      /\ trail'[m + 1] = n
    BY <1>1 DEF CallsInv, SearchTypes, Visits
<1>5. /\ unseen' \in Seq(SUBSET FileNames) /\ Len(unseen') = m + 1
      /\ \A i \in 1 .. m : unseen'[i] = callers[i]
      /\ unseen'[m + 1] = Dependencies(n)
    BY <1>1, <1>3 DEF Visits
<1>6. seen' = seen \cup {n}
    BY DEF Visits
<1>7. SearchTypes'
  <2>1. seen' \subseteq FileNames /\ seen \subseteq seen' /\ n \in seen'
      BY <1>6 DEF CallsInv, SearchTypes
  <2>2. \A i \in DOMAIN trail' : trail'[i] \in seen'
      BY <1>1, <1>4, <2>1 DEF CallsInv, SearchTypes
  <2> QED
      BY <1>1, <1>4, <1>5, <2>1, <2>2 DEF SearchTypes
<1>8. Returned' = Returned
    BY <1>1, <1>4, <1>6 DEF Returned, CallsInv, SearchTypes
<1>9. \A i \in 1 .. m : trail[i] # n
    BY <1>1 DEF CallsInv, SearchTypes
<1>10. OnTheWay'
  <2>1. \A i, j \in DOMAIN trail' : trail'[i] = trail'[j] => i = j
      BY <1>1, <1>4, <1>9 DEF CallsInv, OnTheWay
  <2>2. \A i \in DOMAIN trail' : unseen'[i] \subseteq Dependencies(trail'[i])
      BY <1>1, <1>4, <1>5 DEF CallsInv, OnTheWay
  <2>3. \A i, j \in DOMAIN trail' : j = i + 1 => trail'[j] \in Dependencies(trail'[i])
      BY <1>1, <1>4 DEF CallsInv, OnTheWay
  <2>4. ASSUME NEW i \in DOMAIN trail', NEW x \in Dependencies(trail'[i])
        PROVE  x \in unseen'[i] \/ x \in Returned
               \/ \E j \in DOMAIN trail' : j = i + 1 /\ trail'[j] = x
    <3>1. CASE i = m + 1
        BY <3>1, <1>4, <1>5, <2>4
    <3>2. CASE i # m + 1
      <4>1. i \in DOMAIN trail /\ trail'[i] = trail[i] /\ unseen'[i] = callers[i]
            /\ i + 1 \in DOMAIN trail'
          BY <3>2, <1>1, <1>4, <1>5, <2>4
      <4>2. x \in unseen[i] \/ x \in Returned \/ \E j \in DOMAIN trail : j = i + 1 /\ trail[j] = x
          BY <4>1, <2>4 DEF CallsInv, OnTheWay
      <4>3. CASE x \in unseen[i]
        <5>1. x \in callers[i] \/ (i = m /\ x = n)
            BY <4>1, <4>3
        <5> QED
            BY <5>1, <4>1, <1>4
      <4>4. CASE \E j \in DOMAIN trail : j = i + 1 /\ trail[j] = x
          BY <4>4, <1>1, <1>4
      <4> QED
          BY <4>2, <4>3, <4>4
    <3> QED
        BY <3>1, <3>2
  <2> QED
      BY <1>2, <1>8, <2>1, <2>2, <2>3, <2>4 DEF OnTheWay
<1>11. ReturnedInOrder'
    BY <1>2, <1>8 DEF CallsInv, ReturnedInOrder, OrderIn
<1> QED
    BY <1>7, <1>10, <1>11 DEF CallsInv

(* A call returns; it takes the next place.                                *)
LEMMA ReturnKeeps ==
    ASSUME file \in ParsedFile, CallsInv, Return PROVE CallsInv'
<1> DEFINE m == Len(trail)
           n == trail[m]
           S == Returned \cap FileServices
<1>1. m \in Nat /\ m >= 1 /\ DOMAIN trail = 1 .. m /\ DOMAIN unseen = 1 .. m /\ n \in FileNames
      /\ n \in seen
    BY DEF CallsInv, SearchTypes, Return
<1>2. \A x : Dependencies(x)' = Dependencies(x)
    BY DEF Dependencies, Return
<1>3. /\ trail' \in Seq(FileNames) /\ Len(trail') = m - 1 /\ DOMAIN trail' = 1 .. (m - 1)
      /\ \A i \in 1 .. (m - 1) : trail'[i] = trail[i]
    BY <1>1, SubSeqProperties DEF CallsInv, SearchTypes, Return, Front
<1>4. /\ unseen' \in Seq(SUBSET FileNames) /\ Len(unseen') = m - 1
      /\ \A i \in 1 .. (m - 1) : unseen'[i] = unseen[i]
    BY <1>1, SubSeqProperties DEF CallsInv, SearchTypes, Return, Front
<1>5. unseen[m] = {} /\ seen' = seen /\ file' = file
    BY DEF Return, Last, CallsInv, SearchTypes
<1>6. SearchTypes'
  <2>1. seen' \subseteq FileNames
      BY <1>5 DEF CallsInv, SearchTypes
  <2>2. \A i \in DOMAIN trail' : trail'[i] \in seen'
      BY <1>1, <1>3, <1>5 DEF CallsInv, SearchTypes
  <2> QED
      BY <1>1, <1>3, <1>4, <2>1, <2>2 DEF SearchTypes
<1>7. Returned' = Returned \cup {n} /\ n \notin Returned
    BY <1>1, <1>3, <1>5 DEF Returned, CallsInv, OnTheWay
<1>8. Dependencies(n) \subseteq Returned
    BY <1>1, <1>5 DEF CallsInv, OnTheWay
<1>9. OnTheWay'
  <2>1. \A i, j \in DOMAIN trail' : trail'[i] = trail'[j] => i = j
      BY <1>1, <1>3 DEF CallsInv, OnTheWay
  <2>2. \A i \in DOMAIN trail' : unseen'[i] \subseteq Dependencies(trail'[i])
      BY <1>1, <1>3, <1>4 DEF CallsInv, OnTheWay
  <2>3. \A i, j \in DOMAIN trail' : j = i + 1 => trail'[j] \in Dependencies(trail'[i])
      BY <1>1, <1>3 DEF CallsInv, OnTheWay
  <2>4. ASSUME NEW i \in DOMAIN trail', NEW x \in Dependencies(trail'[i])
        PROVE  x \in unseen'[i] \/ x \in Returned'
               \/ \E j \in DOMAIN trail' : j = i + 1 /\ trail'[j] = x
    <3>1. i \in DOMAIN trail /\ trail'[i] = trail[i] /\ unseen'[i] = unseen[i]
        BY <1>1, <1>3, <1>4, <2>4
    <3>2. x \in unseen[i] \/ x \in Returned \/ \E j \in DOMAIN trail : j = i + 1 /\ trail[j] = x
        BY <3>1, <2>4 DEF CallsInv, OnTheWay
    <3>3. CASE \E j \in DOMAIN trail : j = i + 1 /\ trail[j] = x
      <4>1. PICK j \in DOMAIN trail : j = i + 1 /\ trail[j] = x
          BY <3>3
      <4>2. CASE j = m
          BY <4>1, <4>2, <1>7
      <4>3. CASE j # m
          BY <4>1, <4>3, <1>1, <1>3
      <4> QED
          BY <4>2, <4>3
    <3> QED
        BY <3>1, <3>2, <3>3, <1>7
  <2> QED
      BY <1>2, <2>1, <2>2, <2>3, <2>4 DEF OnTheWay
<1>10. \A s \in Returned' : Dependencies(s) \subseteq Returned'
    BY <1>7, <1>8 DEF CallsInv, ReturnedInOrder
<1>11. \E place \in Places(Returned' \cap FileServices) :
           OrderIn(place, Returned' \cap FileServices)
  <2>1. PICK place \in Places(S) : OrderIn(place, S)
      BY DEF CallsInv, ReturnedInOrder
  <2>2. IsFiniteSet(S) /\ Cardinality(S) \in Nat
    <3>1. IsFiniteSet(S)
        BY ValidationAssumption, FS_Subset DEF ValidationAssumption
    <3> QED
        BY <3>1, FS_CardinalityType
  <2>3. CASE n \notin FileServices
    <3>1. Returned' \cap FileServices = S
        BY <1>7, <2>3
    <3> QED
        BY <2>1, <3>1
  <2>4. CASE n \in FileServices
    <3> DEFINE U == S \cup {n}
               c == Cardinality(S) + 1
               next == [s \in U |-> IF s = n THEN c ELSE place[s]]
    <3>1. Returned' \cap FileServices = U
        BY <1>7, <2>4
    <3>2. Cardinality(U) = c
        BY <1>7, <2>2, FS_AddElement
    <3>3. \A s \in S : place[s] \in 1 .. Cardinality(S) /\ s # n
        BY <2>1, <1>7 DEF Places
    <3>4. next \in Places(U)
      <4>1. \A s \in S : place[s] \in 1 .. c
        <5> SUFFICES ASSUME NEW s \in S PROVE place[s] \in 1 .. c
            OBVIOUS
        <5>1. place[s] \in 1 .. Cardinality(S)
            BY <3>3
        <5> HIDE DEF S
        <5> QED
            BY <2>2, <5>1
      <4>2. c \in 1 .. c
          BY <2>2
      <4>3. next \in [U -> 1 .. c]
          BY <4>1, <4>2
      <4> QED
          BY <3>2, <4>3 DEF Places
    <3>5. \A s \in FileServices : file.dependsOn[s] = Dependencies(s)
        BY DependenciesAre
    <3>6. \A s \in U : file.dependsOn[s] \cap FileServices \subseteq S
        BY <2>4, <1>8, <3>5 DEF CallsInv, ReturnedInOrder
    <3>7. OrderIn(next, U)
      <4> SUFFICES ASSUME NEW s \in U, NEW t \in file.dependsOn[s] \cap FileServices
                   PROVE  next[t] < next[s]
          BY DEF OrderIn
      <4>1. t \in S /\ next[t] = place[t] /\ place[t] \in 1 .. Cardinality(S)
          BY <3>3, <3>6
      <4>2. CASE s = n
          BY <4>1, <4>2, <2>2
      <4>3. CASE s # n
          BY <4>1, <4>3, <2>1 DEF OrderIn
      <4> QED
          BY <4>2, <4>3
    <3> HIDE DEF U, next
    <3> QED
        BY <3>1, <3>4, <3>7
  <2> QED
      BY <2>3, <2>4
<1>12. ReturnedInOrder'
    BY <1>2, <1>5, <1>10, <1>11 DEF ReturnedInOrder, OrderIn
<1> QED
    BY <1>6, <1>9, <1>12 DEF CallsInv

(* When nothing is left to visit, the services have returned in an order.  *)
LEMMA OrderWithoutCycle ==
    ASSUME CallsInv, NoneFound PROVE Startable
<1>1. Returned \cap FileServices = FileServices
    BY DEF NoneFound, Returned
<1>2. PICK place \in Places(FileServices) : OrderIn(place, FileServices)
    BY <1>1 DEF CallsInv, ReturnedInOrder
<1> QED
    BY <1>2 DEF Startable, Places, OrderIn

(* Following a dependency.                                                 *)
LEMMA FollowKeeps ==
    ASSUME file \in ParsedFile, CallsInv, Follow PROVE CallsInv'
<1> DEFINE m == Len(trail)
<1>1. PICK n \in Last(unseen) :
          /\ ~FindsCycle(n)
          /\ LET left == Append(Front(unseen), Last(unseen) \ {n})
             IN  IF n \in seen THEN unseen' = left /\ UNCHANGED <<seen, trail>>
                 ELSE Visits(n, left)
    BY DEF Follow
<1> DEFINE left == Append(Front(unseen), Last(unseen) \ {n})
<1>2. m \in Nat /\ m >= 1 /\ DOMAIN trail = 1 .. m /\ DOMAIN unseen = 1 .. m
      /\ unseen \in Seq(SUBSET FileNames) /\ Len(unseen) = m
    BY DEF CallsInv, SearchTypes, Follow
<1>3. unseen[m] \in SUBSET FileNames /\ n \in unseen[m] /\ Last(unseen) = unseen[m]
      /\ n \in FileNames
    BY <1>2 DEF Last
<1>4. /\ Front(unseen) \in Seq(SUBSET FileNames) /\ Len(Front(unseen)) = m - 1
      /\ \A i \in 1 .. (m - 1) : Front(unseen)[i] = unseen[i]
    BY <1>2, SubSeqProperties DEF Front
<1>5. /\ left \in Seq(SUBSET FileNames) /\ Len(left) = m /\ DOMAIN left = 1 .. m
      /\ \A i \in 1 .. m : left[i] = IF i = m THEN unseen[i] \ {n} ELSE unseen[i]
  <2>1. Last(unseen) \ {n} \in SUBSET FileNames
      BY <1>3
  <2>2. /\ left \in Seq(SUBSET FileNames) /\ Len(left) = m
        /\ \A i \in 1 .. (m - 1) : left[i] = Front(unseen)[i]
        /\ left[m] = Last(unseen) \ {n}
    <3> DEFINE front == Front(unseen)
               next == Last(unseen) \ {n}
    <3>1. front \in Seq(SUBSET FileNames) /\ next \in SUBSET FileNames
        BY <1>4, <2>1
    <3>2. Len(front) = m - 1 /\ m \in Nat
        BY <1>2, <1>4
    <3> HIDE DEF front, next
    <3>3. /\ Append(front, next) \in Seq(SUBSET FileNames) /\ Len(Append(front, next)) = m
          /\ \A i \in 1 .. (m - 1) : Append(front, next)[i] = front[i]
          /\ Append(front, next)[m] = next
        BY <3>1, <3>2, AppendProperties
    <3> QED
        BY <3>3 DEF front, next
  <2>3. DOMAIN left = 1 .. m
    <3> HIDE DEF left
    <3> QED
        BY <2>2
  <2>4. ASSUME NEW i \in 1 .. m PROVE left[i] = IF i = m THEN unseen[i] \ {n} ELSE unseen[i]
    <3>1. CASE i = m
        BY <3>1, <1>3, <2>2
    <3>2. CASE i # m
      <4>1. i \in 1 .. (m - 1)
        <5>1. m \in Nat /\ i \in 1 .. m
            BY <1>2
        <5> HIDE DEF m
        <5> QED
            BY <3>2, <5>1
      <4> QED
          BY <3>2, <4>1, <1>4, <2>2
    <3> QED
        BY <3>1, <3>2
  <2> QED
      BY <2>2, <2>3, <2>4
<1>6. file' = file
    BY DEF Follow
<1>7. CASE n \notin seen
  <2>1. Visits(n, left)
      BY <1>1, <1>7
  <2> HIDE DEF left
  <2> QED
      BY <1>2, <1>3, <1>5, <1>6, <1>7, <2>1, CallKeeps
<1>8. CASE n \in seen
  <2>1. unseen' = left /\ seen' = seen /\ trail' = trail
      BY <1>1, <1>8
  <2> HIDE DEF left
  <2>2. n \in Returned
      BY <1>1, <1>8 DEF Returned, FindsCycle, Range
  <2>3. Returned' = Returned /\ \A x : Dependencies(x)' = Dependencies(x)
      BY <1>6, <2>1 DEF Returned, Dependencies
  <2>4. SearchTypes'
      BY <1>2, <1>5, <2>1 DEF CallsInv, SearchTypes
  <2>5. \A i \in DOMAIN trail : unseen'[i] \subseteq unseen[i] /\ unseen[i] \subseteq unseen'[i] \cup {n}
      BY <1>2, <1>5, <2>1
  <2>6. OnTheWay'
      BY <2>1, <2>2, <2>3, <2>5 DEF CallsInv, OnTheWay
  <2>7. ReturnedInOrder'
      BY <1>6, <2>3 DEF CallsInv, ReturnedInOrder, OrderIn
  <2> QED
      BY <2>4, <2>6, <2>7 DEF CallsInv
<1> QED
    BY <1>7, <1>8

(* Beginning with another service.                                         *)
LEMMA SearchFromKeeps ==
    ASSUME file \in ParsedFile, CallsInv, SearchFrom PROVE CallsInv'
<1>1. PICK n \in FileServices \ seen : Visits(n, <<>>)
    BY DEF SearchFrom
<1>2. trail = <<>> /\ Len(trail) = 0 /\ DOMAIN trail = {} /\ file' = file
    BY DEF SearchFrom
<1>3. n \in FileNames /\ n \notin seen /\ <<>> \in Seq(SUBSET FileNames) /\ Len(<<>>) = 0
    BY DEF FileNames
<1> QED
    BY <1>1, <1>2, <1>3, CallKeeps

(* What leaves the calls alone.                                            *)
LEMMA CallsUnchanged ==
    ASSUME CallsInv, UNCHANGED <<file, callVars>> PROVE CallsInv'
<1>1. Returned' = Returned /\ \A x : Dependencies(x)' = Dependencies(x)
    BY DEF Returned, Dependencies, callVars
<1> QED
    BY <1>1 DEF CallsInv, SearchTypes, OnTheWay, ReturnedInOrder, OrderIn, callVars

(* The checks together.                                                    *)
LEMMA ValidationStep ==
    ASSUME ValidationInv, [ValidationNext]_validationVars PROVE ValidationInv'
<1>1. file \in ParsedFile /\ CallsInv
    BY DEF ValidationInv
<1>2. file' = file
    BY DEF ValidationNext, CheckServices, CheckMissing, CheckPorts, CheckNetworks, Checked,
           SearchFrom, Found, Follow, Return, NoneFound, validationVars
<1>3. Startable' = Startable /\ NothingMissing' = NothingMissing /\ PortsApart' = PortsApart
    BY <1>2 DEF Startable, NothingMissing, PortsApart
<1>4. CallsInv'
  <2>1. CASE SearchFrom
      BY <2>1, <1>1, SearchFromKeeps
  <2>2. CASE Follow
      BY <2>2, <1>1, FollowKeeps
  <2>3. CASE Return
      BY <2>3, <1>1, ReturnKeeps
  <2>4. CASE UNCHANGED <<file, callVars>>
      BY <2>4, <1>1, CallsUnchanged
  <2> QED
      BY <2>1, <2>2, <2>3, <2>4
      DEF ValidationNext, CheckServices, CheckMissing, CheckPorts, CheckNetworks, Checked,
          Found, NoneFound, validationVars
<1>5. /\ stage' \in {"services", "missing", "circular", "ports", "networks", "judged"}
      /\ errors' \subseteq {"service", "missing", "circular", "port", "network"}
    BY DEF ValidationInv, ValidationNext, CheckServices, CheckMissing, CheckPorts, CheckNetworks,
           Checked, SearchFrom, Found, Follow, Return, NoneFound, validationVars
<1>6. ErrorsFit'
  <2>1. CASE CheckServices
      BY <2>1, <1>3 DEF ValidationInv, ErrorsFit, CheckServices, Checked, callVars
  <2>2. CASE CheckMissing
    <3>1. (\A s \in FileServices : file.dependsOn[s] \cap Missing = {}) => NothingMissing
        BY <1>1 DEF NothingMissing, ParsedFile
    <3> QED
        BY <2>2, <3>1, <1>3 DEF ValidationInv, ErrorsFit, CheckMissing, Checked, callVars
  <2>3. CASE CheckPorts
    <3>1. (\A s, t \in FileServices : \A k \in file.ports[s], n \in file.ports[t] :
              ~(Conflict(s, k, t, n) \/ k.host \in DockerPorts)) => PortsApart
        BY DEF PortsApart, Conflict
    <3> QED
        BY <2>3, <3>1, <1>3 DEF ValidationInv, ErrorsFit, CheckPorts, Checked, callVars
  <2>4. CASE CheckNetworks
      BY <2>4, <1>3 DEF ValidationInv, ErrorsFit, CheckNetworks, Checked, callVars
  <2>5. CASE SearchFrom \/ Follow \/ Return
      BY <2>5, <1>3 DEF ValidationInv, ErrorsFit, SearchFrom, Follow, Return
  <2>6. CASE Found
    <3>1. ~Startable
        BY <2>6, <1>1, NoOrderWithCycle DEF Found
    <3> QED
        BY <2>6, <3>1, <1>3 DEF ValidationInv, ErrorsFit, Found
  <2>7. CASE NoneFound
    <3>1. Startable
        BY <2>7, <1>1, OrderWithoutCycle
    <3> QED
        BY <2>7, <3>1, <1>3 DEF ValidationInv, ErrorsFit, NoneFound, callVars
  <2>8. CASE UNCHANGED validationVars
      BY <2>8, <1>3 DEF ValidationInv, ErrorsFit, validationVars, callVars
  <2> QED
      BY <2>1, <2>2, <2>3, <2>4, <2>5, <2>6, <2>7, <2>8 DEF ValidationNext
<1> QED
    BY <1>1, <1>2, <1>4, <1>5, <1>6 DEF ValidationInv

LEMMA ValidationTyped == ValidationInv => ValidationTypeOK
<1> SUFFICES ASSUME ValidationInv PROVE ValidationTypeOK
    OBVIOUS
<1>1. SearchTypes
    BY DEF ValidationInv, CallsInv
<1>2. trail \in Seq(seen)
    BY <1>1, SeqDef DEF SearchTypes
<1>3. unseen \in [DOMAIN trail -> SUBSET FileNames]
    BY <1>1 DEF SearchTypes
<1> QED
    BY <1>1, <1>2, <1>3 DEF ValidationInv, ValidationTypeOK, SearchTypes, FileNames

(* The variables of the validation have their types.                       *)
THEOREM ValidationTypeCorrect == ValidationSpec => []ValidationTypeOK
    BY ValidationInitially, ValidationStep, ValidationTyped, PTL DEF ValidationSpec

(* A file is judged to have circular dependencies exactly when there is no *)
(* order to start it in, and one that is judged valid can be started.      *)
THEOREM ValidStartsHolds == ValidationSpec => []ValidStarts
<1>1. ValidationInv => ValidStarts
  <2> SUFFICES ASSUME ValidationInv, stage = "judged" PROVE ValidStarts
      BY DEF ValidStarts, Valid
  <2>1. ("circular" \in errors) = ~Startable
      BY DEF ValidationInv, ErrorsFit
  <2>2. CASE errors = {}
    <3>1. Startable /\ NothingMissing /\ PortsApart
        BY <2>1, <2>2 DEF ValidationInv, ErrorsFit
    <3>2. UNION Range(file.dependsOn) \subseteq FileServices
        BY <3>1 DEF NothingMissing, Range, ValidationInv, ParsedFile
    <3> QED
        BY <2>1, <3>1, <3>2 DEF ValidStarts, PortsApart
  <2> QED
      BY <2>1, <2>2 DEF ValidStarts, Valid
<1> QED
    BY <1>1, ValidationInitially, ValidationStep, PTL DEF ValidationSpec
===============================================================================
