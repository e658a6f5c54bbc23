------------------------------- MODULE LogProofs -------------------------------
(***************************************************************************)
(* Proofs about the logs of containers and of the audit, for any           *)
(* containers, tasks, sizes, bounds on time and numbers of failures.       *)
(*                                                                         *)
(* LogBuffers: a container is monitored while it has a task, and each of   *)
(* its lines is saved once and in order.                                   *)
(* LogSearch: whenever nobody is indexing, the index of a file on disk is  *)
(* a beginning of the file.                                                *)
(* LogIndex: a search finds what was acknowledged long enough ago.         *)
(* SecurityAudit: the trail of the events that are logged, and the bursts  *)
(* and failed logins that are reported.                                    *)
(* AuditRetention: the files of the audit's log.                           *)
(***************************************************************************)
EXTENDS LogBuffers, LogSearch, LogIndex, SecurityAudit, AuditRetention,
        FiniteSetTheorems, SequenceTheorems, WellFoundedInduction, TLAPS

(***************************************************************************)
(* The buffers of the collector.                                           *)
(***************************************************************************)

(* What a flush and the containers it is about have to do with each other.  *)
ShapeOf(m) ==
    /\ m.pc \in {"idle", "over"} => m.on = {} /\ m.todo = {} /\ m.list = 0
    /\ m.pc \in {"writing", "closing"} =>
          m.list \in ListIds /\ \E c \in LogContainers : m.on = {c}

FlushShape == \A f \in Flushers : ShapeOf(flushers[f])

OwnBuffers ==
    \A c, d \in LogContainers : buffers[c] # 0 /\ buffers[c] = buffers[d] => c = d

(* The buffers in use: those a container has, and those whose containers    *)
(* were forgotten by a stop.  A stop forgets one of each container at most. *)
Having     == {c \in LogContainers : buffers[c] # 0}
Current    == {buffers[c] : c \in Having}
UsedLists  == {k \in ListIds : \/ lists[k] # <<>> \/ k \in Current
                               \/ \E f \in Flushers : flushers[f].list = k}
StopsEnded == logFaults.stops - (IF flushers["stop"].pc = "idle" THEN 0 ELSE 1)

ListsLeft ==
    /\ StopsEnded \in Nat
    /\ Cardinality(UsedLists \ Current) <= Cardinality(LogContainers) * StopsEnded

LogTypes == LogTypeOK /\ FlushShape /\ OwnBuffers /\ ListsLeft /\ MonitoredHasTask

(* There is an injection into a set that is no smaller.                     *)
LEMMA FreshChoice ==
    ASSUME NEW A, NEW B, IsFiniteSet(A), IsFiniteSet(B), Cardinality(A) <= Cardinality(B)
    PROVE  \E n \in [A -> B] : IsInjective(n)
<1> DEFINE k == Cardinality(A)
           m == Cardinality(B)
<1>1. k \in Nat /\ m \in Nat /\ k <= m
    BY FS_CardinalityType
<1>2. PICK a \in Bijection(1 .. k, A) : TRUE
    BY FS_CardinalityType DEF ExistsBijection
<1>3. PICK b \in Bijection(1 .. m, B) : TRUE
    BY FS_CardinalityType DEF ExistsBijection
<1>4. /\ a \in [1 .. k -> A] /\ \A t \in A : \E i \in 1 .. k : a[i] = t
      /\ b \in [1 .. m -> B] /\ \A i, j \in 1 .. m : b[i] = b[j] => i = j
    BY <1>2, <1>3 DEF Bijection, Injection, Surjection, IsInjective
<1> DEFINE at(x) == CHOOSE i \in 1 .. k : a[i] = x
           n == [x \in A |-> b[at(x)]]
<1>5. ASSUME NEW x \in A PROVE at(x) \in 1 .. k /\ at(x) \in 1 .. m /\ a[at(x)] = x
  <2>1. at(x) \in 1 .. k /\ a[at(x)] = x
      BY <1>4
  <2> HIDE DEF at, k, m
  <2>2. QED
      BY <2>1, <1>1
<1> HIDE DEF at, k, m
<1>6. n \in [A -> B]
    BY <1>4, <1>5
<1>7. IsInjective(n)
  <2>1. ASSUME NEW x \in A, NEW y \in A, n[x] = n[y] PROVE x = y
    <3>1. at(x) = at(y)
        BY <2>1, <1>4, <1>5
    <3>2. QED
        BY <3>1, <1>5
  <2>2. QED
      BY <2>1 DEF IsInjective
<1>8. QED
    BY <1>6, <1>7

(* What Add chooses.                                                       *)
Added(S) == CHOOSE n \in [S \ monitored -> {t \in Tasks : tasks[t].pc = "none"}] :
                IsInjective(n)

LEMMA AddChooses ==
    ASSUME NEW S \in SUBSET LogContainers, Add(S)
    PROVE  /\ Added(S) \in [S \ monitored -> {t \in Tasks : tasks[t].pc = "none"}]
           /\ IsInjective(Added(S))
<1> DEFINE B == {t \in Tasks : tasks[t].pc = "none"}
<1>1. IsFiniteSet(S \ monitored) /\ IsFiniteSet(B)
    BY LogAssumption, FS_Subset DEF LogAssumption
<1>2. Cardinality(S \ monitored) <= Cardinality(B)
    BY DEF Add
<1>3. \E n \in [S \ monitored -> B] : IsInjective(n)
  <2> HIDE DEF B
  <2>1. QED
      BY <1>1, <1>2, FreshChoice
<1>4. QED
    BY <1>3 DEF Added

LEMMA AddKeeps ==
    ASSUME LogTypeOK, MonitoredHasTask, NEW S \in SUBSET LogContainers, Add(S)
    PROVE  /\ monitored' \subseteq LogContainers
           /\ holder' \in [LogContainers -> SUBSET Tasks]
           /\ tasks' \in [Tasks -> TaskType]
           /\ MonitoredHasTask'
<1> DEFINE new == Added(S)
<1>1. new \in [S \ monitored -> Tasks] /\ DOMAIN new = S \ monitored
    BY AddChooses
<1>2. /\ monitored' = monitored \cup S
      /\ holder' = [c \in LogContainers |-> IF c \in DOMAIN new THEN {new[c]} ELSE holder[c]]
      /\ tasks' = [t \in Tasks |->
                      IF t \in Range(new)
                      THEN [of |-> {c \in DOMAIN new : new[c] = t}, cancelled |-> FALSE,
                            pc |-> "created"]
                      ELSE tasks[t]]
    BY DEF Add, Added
<1> HIDE DEF new
<1>3. monitored' \subseteq LogContainers /\ holder' \in [LogContainers -> SUBSET Tasks]
    BY <1>1, <1>2 DEF LogTypeOK
<1>4. tasks' \in [Tasks -> TaskType]
  <2>1. ASSUME NEW t \in Tasks
        PROVE  [of |-> {c \in DOMAIN new : new[c] = t}, cancelled |-> FALSE,
                pc |-> "created"] \in TaskType
      BY <1>1 DEF TaskType
  <2>2. tasks \in [Tasks -> TaskType]
      BY DEF LogTypeOK
  <2>3. QED
      BY <1>2, <2>1, <2>2
<1>5. MonitoredHasTask'
    BY <1>1, <1>2 DEF MonitoredHasTask, LogTypeOK
<1>6. QED
    BY <1>3, <1>4, <1>5


LEMMA LogNumbers ==
    /\ Cardinality(LogContainers) \in Nat
    /\ Cardinality(LogContainers) * (LogStops + 1) \in Nat
    /\ IsFiniteSet(ListIds)
    /\ Cardinality(ListIds) = Cardinality(LogContainers) * (LogStops + 1)
    /\ 0 \notin ListIds
<1> DEFINE n == Cardinality(LogContainers)
           k == n * (LogStops + 1)
<1>1. n \in Nat
    BY LogAssumption, FS_CardinalityType DEF LogAssumption
<1>2. LogStops + 1 \in Nat
    BY LogAssumption DEF LogAssumption
<1>3. k \in Nat
  <2> HIDE DEF n
  <2>1. \A x, y \in Nat : x * y \in Nat
      OBVIOUS
  <2>2. QED
      BY <1>1, <1>2, <2>1
<1>4. ListIds = 1 .. k
    BY DEF ListIds
<1> HIDE DEF k
<1>5. IsFiniteSet(ListIds) /\ Cardinality(ListIds) = k /\ 0 \notin ListIds
    BY <1>3, <1>4, FS_Interval
<1>6. QED
    BY <1>1, <1>3, <1>5 DEF k

(* A forgotten list remains one of those in use.                           *)
LEMMA ListsFinite ==
    ASSUME LogTypeOK
    PROVE  /\ IsFiniteSet(Current) /\ Current \subseteq ListIds
           /\ Cardinality(Current) <= Cardinality(Having)
           /\ IsFiniteSet(Having) /\ Cardinality(Having) \in Nat
           /\ Cardinality(Having) <= Cardinality(LogContainers)
           /\ IsFiniteSet(UsedLists) /\ IsFiniteSet(UsedLists \ Current)
           /\ Cardinality(Current) \in Nat
           /\ Cardinality(UsedLists \ Current) \in Nat
           /\ Cardinality(UsedLists) \in Nat
           /\ Cardinality(UsedLists) <= Cardinality(UsedLists \ Current) + Cardinality(Current)
<1>1. /\ IsFiniteSet(Having) /\ Cardinality(Having) <= Cardinality(LogContainers)
      /\ Cardinality(Having) \in Nat
    BY LogAssumption, FS_Subset, FS_CardinalityType DEF LogAssumption, Having
<1>2. [c \in Having |-> buffers[c]] \in Surjection(Having, Current)
    BY DEF Surjection, Current
<1>3. IsFiniteSet(Current) /\ Cardinality(Current) <= Cardinality(Having)
    BY <1>1, <1>2, FS_Surjection
<1>4. Current \subseteq ListIds
    BY DEF Current, Having, LogTypeOK
<1>5. UsedLists \in SUBSET ListIds /\ Current \subseteq UsedLists
    BY <1>4 DEF UsedLists
<1>6. IsFiniteSet(UsedLists)
    BY <1>5, LogNumbers, FS_Subset
<1> HIDE DEF UsedLists, Current, Having
<1>7. IsFiniteSet(UsedLists \ Current)
    BY <1>6, FS_Subset
<1>8. /\ Cardinality(Current) \in Nat /\ Cardinality(UsedLists \ Current) \in Nat
      /\ Cardinality(UsedLists) \in Nat
    BY <1>3, <1>6, <1>7, FS_CardinalityType
<1>9. Cardinality(UsedLists) <= Cardinality(UsedLists \ Current) + Cardinality(Current)
  <2>1. (UsedLists \ Current) \cup Current = UsedLists
      BY <1>5
  <2>2. (UsedLists \ Current) \cap Current = {}
      OBVIOUS
  <2>3. ASSUME NEW A, NEW B, IsFiniteSet(A), IsFiniteSet(B), A \cap B = {}
        PROVE  Cardinality(A \cup B) = Cardinality(A) + Cardinality(B)
    <3>1. Cardinality(A \cap B) = 0
        BY <2>3, FS_EmptySet
    <3>2. Cardinality(A) \in Nat /\ Cardinality(B) \in Nat
        BY <2>3, FS_CardinalityType
    <3>3. Cardinality(A \cup B) = Cardinality(A) + Cardinality(B) - Cardinality(A \cap B)
        BY <2>3, FS_Union, Zenon
    <3>4. QED
        BY <3>1, <3>2, <3>3
  <2>4. Cardinality(UsedLists) = Cardinality(UsedLists \ Current) + Cardinality(Current)
      BY <2>1, <2>2, <2>3, <1>3, <1>7, Zenon
  <2>5. QED
      BY <2>4, <1>8
<1>10. QED
    BY <1>1, <1>3, <1>4, <1>6, <1>7, <1>8, <1>9

(* Whenever a container needs a buffer, there is a list left for it.        *)
LEMMA FreshList ==
    ASSUME LogTypes, NEW c \in LogContainers, buffers[c] = 0
    PROVE  \E k \in ListIds : /\ lists[k] = <<>>
                              /\ \A f \in Flushers : flushers[f].list # k
                              /\ \A d \in LogContainers : buffers[d] # k
<1> DEFINE n == Cardinality(LogContainers)
<1>1. n \in Nat /\ n >= 1 /\ Cardinality(Having) <= n - 1
  <2>1. IsFiniteSet(LogContainers \ {c}) /\ Cardinality(LogContainers \ {c}) = n - 1
      BY LogAssumption, FS_RemoveElement DEF LogAssumption
  <2>2. Having \in SUBSET (LogContainers \ {c})
      BY DEF Having
  <2>3. n - 1 \in Nat /\ n \in Nat
      BY <2>1, FS_CardinalityType, LogNumbers
  <2>4. Cardinality(Having) <= n - 1
    <3> HIDE DEF n
    <3>1. QED
        BY <2>1, <2>2, FS_Subset
  <2>5. QED
      BY <2>3, <2>4
<1>2. StopsEnded \in Nat /\ StopsEnded <= LogStops /\ LogStops \in Nat
    BY LogAssumption DEF LogTypes, LogTypeOK, ListsLeft, StopsEnded, LogAssumption
<1>3. n * StopsEnded <= n * LogStops
  <2>1. \A x, y, z \in Nat : y <= z => x * y <= x * z
      OBVIOUS
  <2> HIDE DEF n
  <2>2. QED
      BY <1>1, <1>2, <2>1
<1>4. n * (LogStops + 1) = n * LogStops + n /\ n * LogStops \in Nat /\ n * StopsEnded \in Nat
  <2>1. \A x, y \in Nat : x * (y + 1) = x * y + x /\ x * y \in Nat
      OBVIOUS
  <2> HIDE DEF n
  <2>2. QED
      BY <1>1, <1>2, <2>1
<1>5. Cardinality(UsedLists \ Current) <= n * StopsEnded
    BY DEF LogTypes, ListsLeft
<1>6. Cardinality(UsedLists) < Cardinality(ListIds)
  <2>1. /\ Cardinality(Current) <= Cardinality(Having)
        /\ Cardinality(Current) \in Nat /\ Cardinality(Having) \in Nat
        /\ Cardinality(UsedLists \ Current) \in Nat
        /\ Cardinality(UsedLists) \in Nat
        /\ Cardinality(UsedLists) <= Cardinality(UsedLists \ Current) + Cardinality(Current)
      BY ListsFinite DEF LogTypes
  <2>2. Cardinality(ListIds) = n * (LogStops + 1)
      BY LogNumbers
  <2> DEFINE u == Cardinality(UsedLists)
             v == Cardinality(UsedLists \ Current)
             w == Cardinality(Current)
             h == Cardinality(Having)
             p == n * StopsEnded
             q == n * LogStops
  <2>3. u < q + n
    <3>1. w <= h /\ w \in Nat /\ h \in Nat /\ v \in Nat /\ u \in Nat /\ u <= v + w
        BY <2>1
    <3>2. v <= p /\ p <= q /\ p \in Nat /\ q \in Nat /\ h <= n - 1 /\ n \in Nat
        BY <1>1, <1>3, <1>4, <1>5
    <3> HIDE DEF u, v, w, h, p, q, n
    <3>3. QED
        BY <3>1, <3>2
  <2>4. QED
      BY <2>2, <2>3, <1>4
<1>7. UsedLists # ListIds /\ UsedLists \subseteq ListIds
  <2>1. Cardinality(UsedLists) \in Nat
      BY ListsFinite DEF LogTypes
  <2>2. UsedLists # ListIds
      BY <1>6, <2>1
  <2>3. QED
      BY <2>2 DEF UsedLists
<1>8. PICK k \in ListIds : k \notin UsedLists
    BY <1>7
<1>9. \A d \in LogContainers : buffers[d] # k
    BY <1>8, LogNumbers DEF UsedLists, Current, Having
<1>10. lists[k] = <<>> /\ \A f \in Flushers : flushers[f].list # k
    BY <1>8 DEF UsedLists
<1>11. QED
    BY <1>9, <1>10

(* One flush more, or one that goes on.                                     *)
LEMMA SetFlush ==
    ASSUME flushers \in [Flushers -> FlushType], FlushShape,
           NEW f \in Flushers, NEW m \in FlushType, ShapeOf(m),
           flushers' = [flushers EXCEPT ![f] = m]
    PROVE  flushers' \in [Flushers -> FlushType] /\ FlushShape' /\ flushers'[f] = m
<1>1. flushers' \in [Flushers -> FlushType] /\ flushers'[f] = m
    OBVIOUS
<1>2. ASSUME NEW g \in Flushers PROVE ShapeOf(flushers'[g])
  <2>1. CASE g = f
      BY <2>1, <1>1
  <2>2. CASE g # f
      BY <2>2 DEF FlushShape
  <2>3. QED
      BY <2>1, <2>2
<1>3. FlushShape'
    BY <1>2 DEF FlushShape, ShapeOf, ListIds
<1>4. QED
    BY <1>1, <1>3

LEMMA NoFlushFits == NoFlush \in FlushType /\ ShapeOf(NoFlush)
    BY DEF NoFlush, FlushType, ShapeOf

LEMMA OpenFits ==
    ASSUME LogTypeOK, NEW c \in LogContainers, NEW S \in SUBSET LogContainers,
           NEW l \in ListIds
    PROVE  /\ [OpenFile(c, S) EXCEPT !.list = l] \in FlushType
           /\ ShapeOf([OpenFile(c, S) EXCEPT !.list = l])
<1> DEFINE m == [pc |-> "writing", todo |-> S \ {c}, on |-> {c}, list |-> l, written |-> 0]
<1>1. [OpenFile(c, S) EXCEPT !.list = l] = m
    BY DEF OpenFile
<1>2. m \in FlushType
    BY DEF FlushType
<1>3. ShapeOf(m)
    BY DEF ShapeOf
<1>4. QED
    BY <1>1, <1>2, <1>3

(* How a flush of S begins or goes on: with a container of S that has       *)
(* something in its buffer, or there is none.                               *)
LEMMA FlushOutcome ==
    ASSUME LogTypeOK, NEW f \in Flushers, NEW S \in SUBSET LogContainers,
           NEW flush \in Flush(f, S)
    PROVE  /\ flush \in FlushType /\ ShapeOf(flush) /\ flush.written = 0
           /\ f = "stop" => flush.pc # "idle"
           /\ \/ /\ flush.pc \in {"idle", "over"} /\ flush.on = {} /\ flush.todo = {}
                 /\ flush.list = 0
                 /\ \A c \in S : Buffer(c) = <<>>
              \/ \E c \in S : /\ Buffer(c) # <<>> /\ buffers[c] \in ListIds
                              /\ flush = OpenFile(c, S)
                              /\ flush.pc = "writing" /\ flush.on = {c}
                              /\ flush.todo = S \ {c} /\ flush.list = buffers[c]
<1> DEFINE full == {c \in S : Buffer(c) # <<>>}
<1>1. CASE full = {}
  <2>1. flush = [NoFlush EXCEPT !.pc = IF f = "stop" THEN "over" ELSE "idle"]
      BY <1>1 DEF Flush
  <2>2. flush = [pc |-> IF f = "stop" THEN "over" ELSE "idle", todo |-> {}, on |-> {},
                 list |-> 0, written |-> 0]
      BY <2>1 DEF NoFlush
  <2>3. flush \in FlushType /\ ShapeOf(flush)
      BY <2>2 DEF FlushType, ShapeOf
  <2>4. QED
      BY <2>2, <2>3, <1>1
<1>2. CASE full # {}
  <2>1. PICK c \in S : Buffer(c) # <<>> /\ flush = OpenFile(c, S)
      BY <1>2 DEF Flush
  <2>2. buffers[c] \in ListIds
      BY <2>1 DEF Buffer, LogTypeOK
  <2>3. flush = [pc |-> "writing", todo |-> S \ {c}, on |-> {c}, list |-> buffers[c],
                 written |-> 0]
      BY <2>1 DEF OpenFile
  <2>4. flush \in FlushType /\ ShapeOf(flush)
      BY <2>2, <2>3 DEF FlushType, ShapeOf
  <2>5. /\ flush.pc = "writing" /\ flush.on = {c} /\ flush.todo = S \ {c}
        /\ flush.list = buffers[c] /\ flush.written = 0
      BY <2>3
  <2>6. QED
      BY <2>1, <2>2, <2>4, <2>5
<1>3. QED
    BY <1>1, <1>2

(* No step but the end of a stop forgets a buffer.                          *)
LEMMA ListsKept ==
    ASSUME LogTypeOK, ListsLeft, LogTypeOK',
           Current \subseteq Current',
           \A k \in ListIds : lists'[k] # <<>> => lists[k] # <<>> \/ k \in Current',
           \A f \in Flushers :
               \/ flushers'[f].list \in {0, flushers[f].list}
               \/ flushers'[f].list \in Current',
           StopsEnded' = StopsEnded
    PROVE  ListsLeft'
<1>1. ASSUME NEW k \in (UsedLists \ Current)' PROVE k \in UsedLists \ Current
  <2>1. k \in ListIds /\ k \notin Current' /\ k \notin Current
      BY DEF UsedLists, ListIds
  <2>2. CASE lists'[k] # <<>>
      BY <2>1, <2>2 DEF UsedLists
  <2>3. CASE \E f \in Flushers : flushers'[f].list = k
      BY <2>1, <2>3, LogNumbers DEF UsedLists
  <2>4. QED
      BY <2>1, <2>2, <2>3 DEF UsedLists
<1>2. (UsedLists \ Current)' \in SUBSET (UsedLists \ Current)
    BY <1>1
<1>3. Cardinality((UsedLists \ Current)') <= Cardinality(UsedLists \ Current)
    BY <1>2, ListsFinite, FS_Subset
<1>4. Cardinality((UsedLists \ Current)') \in Nat /\ Cardinality(UsedLists \ Current) \in Nat
    BY <1>2, ListsFinite, FS_Subset, FS_CardinalityType
<1>5. StopsEnded \in Nat /\ Cardinality(LogContainers) * StopsEnded \in Nat
  <2>1. \A x, y \in Nat : x * y \in Nat
      OBVIOUS
  <2>2. QED
      BY <2>1, LogNumbers DEF ListsLeft
<1> DEFINE n == Cardinality(LogContainers) * StopsEnded
<1>6. Cardinality(UsedLists \ Current) <= n /\ n \in Nat
    BY <1>5 DEF ListsLeft
<1> HIDE DEF n
<1>7. Cardinality((UsedLists \ Current)') <= n
    BY <1>3, <1>4, <1>6
<1>8. QED
    BY <1>7, <1>5 DEF ListsLeft, n

LEMMA CancelFits ==
    ASSUME tasks \in [Tasks -> TaskType], NEW S
    PROVE  Cancel(S) \in [Tasks -> TaskType]
<1>1. ASSUME NEW t \in Tasks
      PROVE  /\ OverTask \in TaskType
             /\ [tasks[t] EXCEPT !.cancelled = TRUE] \in TaskType
    BY DEF OverTask, NoTask, TaskType
<1>2. QED
    BY <1>1 DEF Cancel

LEMMA MappingIsSeq ==
    ASSUME NEW S, NEW n \in Nat, NEW f \in [1 .. n -> S]
    PROVE  f \in Seq(S) /\ Len(f) = n /\ DOMAIN f = 1 .. n
<1>1. f \in Seq(S)
    BY SeqDef
<1>2. Len(f) \in Nat /\ 1 .. Len(f) = 1 .. n
    BY <1>1, LenProperties
<1> QED
    BY <1>1, <1>2

(* The line a task takes in.                                                *)
NewLine(c) == <<collected[c] + 1>>

LEMMA NewLineFits ==
    ASSUME LogTypeOK, NEW c \in LogContainers, collected[c] + 1 <= Lines
    PROVE  /\ NewLine(c) \in Seq(1 .. Lines) /\ Len(NewLine(c)) = 1
           /\ collected[c] + 1 \in 0 .. Lines
<1>1. collected[c] \in Nat /\ Lines \in Nat
    BY LogAssumption DEF LogTypeOK, LogAssumption
<1>2. collected[c] + 1 \in 1 .. Lines
    BY <1>1
<1>3. QED
    BY <1>1, <1>2 DEF NewLine

LEMMA CollectKeeps ==
    ASSUME LogTypes, NEW c \in LogContainers, Collect(c)
    PROVE  /\ collected' \in [LogContainers -> 0 .. Lines]
           /\ buffers' \in [LogContainers -> {0} \cup ListIds]
           /\ lists' \in [ListIds -> Seq(1 .. Lines)]
           /\ OwnBuffers'
           /\ Current \subseteq Current'
           /\ \A k \in ListIds : lists'[k] # <<>> => lists[k] # <<>> \/ k \in Current'
           /\ buffers'[c] \in ListIds /\ buffers'[c] \in Current'
           /\ collected'[c] = collected[c] + 1
           /\ Buffer(c)' = Buffer(c) \o NewLine(c)
           /\ \A d \in LogContainers \ {c} :
                 /\ collected'[d] = collected[d] /\ buffers'[d] = buffers[d]
                 /\ Buffer(d)' = Buffer(d)
<1> DEFINE free(k) == /\ lists[k] = <<>>
                      /\ \A f \in Flushers : flushers[f].list # k
                      /\ \A d \in LogContainers : buffers[d] # k
           l == CHOOSE k \in ListIds : free(k)
           line == collected[c] + 1
           new == NewLine(c)
<1>1. /\ line <= Lines /\ collected' = [collected EXCEPT ![c] = line]
      /\ buffers[c] = 0
            => buffers' = [buffers EXCEPT ![c] = l] /\ lists' = [lists EXCEPT ![l] = new]
      /\ buffers[c] # 0
            => /\ UNCHANGED buffers
               /\ lists' = [lists EXCEPT ![buffers[c]] = Append(lists[buffers[c]], line)]
  <2>1. line <= Lines /\ collected' = [collected EXCEPT ![c] = line]
      BY DEF Collect
  <2>2. buffers[c] = 0
            => buffers' = [buffers EXCEPT ![c] = l] /\ lists' = [lists EXCEPT ![l] = new]
      BY DEF Collect, NewLine
  <2>3. buffers[c] # 0
            => /\ UNCHANGED buffers
               /\ lists' = [lists EXCEPT ![buffers[c]] = Append(lists[buffers[c]], line)]
      BY DEF Collect
  <2> HIDE DEF l, new, line
  <2>4. QED
      BY <2>1, <2>2, <2>3
<1>2. buffers[c] = 0 => /\ l \in ListIds /\ lists[l] = <<>>
                        /\ \A d \in LogContainers : buffers[d] # l
  <2>1. ASSUME buffers[c] = 0 PROVE \E k \in ListIds : free(k)
      BY <2>1, FreshList
  <2>2. l = CHOOSE k \in ListIds : free(k)
      BY Zenon
  <2> HIDE DEF free, l
  <2>3. ASSUME buffers[c] = 0 PROVE l \in ListIds /\ free(l)
      BY <2>1, <2>2, <2>3, Zenon
  <2>4. QED
      BY <2>3 DEF free
<1>3. new \in Seq(1 .. Lines) /\ Len(new) = 1 /\ line \in 1 .. Lines /\ new = <<line>>
  <2>1. new \in Seq(1 .. Lines) /\ Len(new) = 1 /\ new = <<line>>
      BY <1>1, NewLineFits DEF LogTypes, NewLine
  <2>2. collected[c] \in Nat /\ Lines \in Nat
      BY LogAssumption DEF LogTypes, LogTypeOK, LogAssumption
  <2>3. QED
      BY <2>1, <2>2, <1>1
<1> HIDE DEF l, new
<1>4. /\ collected \in [LogContainers -> 0 .. Lines]
      /\ buffers \in [LogContainers -> {0} \cup ListIds]
      /\ lists \in [ListIds -> Seq(1 .. Lines)]
      /\ OwnBuffers
    BY DEF LogTypes, LogTypeOK
<1>5. /\ collected' \in [LogContainers -> 0 .. Lines] /\ collected'[c] = collected[c] + 1
      /\ \A d \in LogContainers \ {c} : collected'[d] = collected[d]
  <2>1. line = collected[c] + 1
      OBVIOUS
  <2> HIDE DEF line
  <2>2. line \in 0 .. Lines
      BY <1>3
  <2>3. QED
      BY <2>1, <2>2, <1>1, <1>4
<1> HIDE DEF line
<1>6. CASE buffers[c] = 0
  <2>1. buffers' = [buffers EXCEPT ![c] = l] /\ lists' = [lists EXCEPT ![l] = new]
      BY <1>1, <1>6
  <2>2. l \in ListIds /\ lists[l] = <<>> /\ \A d \in LogContainers : buffers[d] # l
      BY <1>2, <1>6
  <2>3. buffers' \in [LogContainers -> {0} \cup ListIds] /\ buffers'[c] = l
      BY <2>1, <2>2, <1>4
  <2>4. lists' \in [ListIds -> Seq(1 .. Lines)] /\ lists'[l] = new
      BY <2>1, <2>2, <1>3, <1>4
  <2>5. OwnBuffers'
      BY <2>1, <2>2, <1>4 DEF OwnBuffers
  <2>6. Current \subseteq Current' /\ l \in Current'
      BY <2>1, <2>2, <1>4, <1>6, LogNumbers DEF Current, Having
  <2>7. \A k \in ListIds : lists'[k] # <<>> => lists[k] # <<>> \/ k \in Current'
      BY <2>1, <2>6, <1>4
  <2>8. Buffer(c)' = Buffer(c) \o new
    <3>1. Buffer(c) = <<>> /\ Buffer(c)' = new
        BY <2>2, <2>3, <2>4, <1>6, LogNumbers DEF Buffer
    <3>2. QED
        BY <3>1, <1>3
  <2>9. ASSUME NEW d \in LogContainers \ {c}
        PROVE  buffers'[d] = buffers[d] /\ Buffer(d)' = Buffer(d)
    <3>1. buffers'[d] = buffers[d] /\ buffers[d] # l
        BY <2>1, <2>2, <1>4
    <3>2. buffers[d] # 0 => lists'[buffers[d]] = lists[buffers[d]]
        BY <2>1, <3>1, <1>4
    <3>3. QED
        BY <3>1, <3>2 DEF Buffer
  <2>10. QED
      BY <2>2, <2>3, <2>4, <2>5, <2>6, <2>7, <2>8, <2>9, <1>5, <1>6 DEF new
<1>7. CASE buffers[c] # 0
  <2>1. buffers' = buffers /\ lists' = [lists EXCEPT ![buffers[c]] = lists[buffers[c]] \o new]
    <3>1. lists[buffers[c]] \in Seq(1 .. Lines)
        BY <1>4, <1>7
    <3>2. Append(lists[buffers[c]], line) = lists[buffers[c]] \o new
        BY <3>1, <1>3
    <3>3. QED
        BY <3>2, <1>1, <1>7
  <2>2. buffers[c] \in ListIds /\ lists[buffers[c]] \o new \in Seq(1 .. Lines)
      BY <1>3, <1>4, <1>7
  <2>3. lists' \in [ListIds -> Seq(1 .. Lines)] /\ lists'[buffers[c]] = lists[buffers[c]] \o new
      BY <2>1, <2>2, <1>4
  <2>4. OwnBuffers'
      BY <2>1, <1>4 DEF OwnBuffers
  <2>5. Current' = Current /\ buffers[c] \in Current
      BY <2>1, <1>7 DEF Current, Having
  <2>6. \A k \in ListIds : lists'[k] # <<>> => lists[k] # <<>> \/ k \in Current'
      BY <2>1, <2>5, <1>4
  <2>7. Buffer(c)' = Buffer(c) \o new
      BY <2>1, <2>3, <1>7 DEF Buffer
  <2>8. ASSUME NEW d \in LogContainers \ {c}
        PROVE  Buffer(d)' = Buffer(d)
    <3>1. buffers[d] # 0 => buffers[d] # buffers[c] /\ buffers[d] \in ListIds
        BY <1>4 DEF OwnBuffers
    <3>2. QED
        BY <2>1, <3>1, <1>4 DEF Buffer
  <2>9. QED
      BY <2>1, <2>2, <2>3, <2>4, <2>5, <2>6, <2>7, <2>8, <1>4, <1>5, <1>7 DEF new
<1>8. QED
    BY <1>6, <1>7

LEMMA LogTypesInit == LogInit => LogTypes
<1> SUFFICES ASSUME LogInit PROVE LogTypes
    OBVIOUS
<1>1. NoFlush \in FlushType /\ ShapeOf(NoFlush) /\ NoFlush.pc = "idle" /\ NoFlush.list = 0
    BY NoFlushFits DEF NoFlush
<1>2. LogTypeOK
  <2>1. tasks \in [Tasks -> TaskType]
      BY DEF LogInit, NoTask, TaskType
  <2>2. /\ lists \in [ListIds -> Seq(1 .. Lines)] /\ logFiles \in [LogContainers -> Seq(1 .. Lines)]
        /\ collected \in [LogContainers -> 0 .. Lines]
      BY EmptySeq, LogAssumption DEF LogInit, LogAssumption
  <2>3. logFaults \in [stops : 0 .. LogStops, failures : 0 .. WriteFailures]
      BY LogAssumption DEF LogInit, LogAssumption
  <2>4. QED
      BY <1>1, <2>1, <2>2, <2>3 DEF LogInit, LogTypeOK
<1>3. FlushShape
    BY <1>1 DEF LogInit, FlushShape
<1>4. OwnBuffers /\ MonitoredHasTask
    BY DEF LogInit, OwnBuffers, MonitoredHasTask
<1>5. ListsLeft
  <2>1. Having = {} /\ Current = {} /\ UsedLists = {}
      BY <1>1, LogNumbers DEF LogInit, Having, Current, UsedLists
  <2>2. StopsEnded = 0
      BY <1>1 DEF LogInit, StopsEnded, Flushers
  <2>3. Cardinality(UsedLists \ Current) = 0
      BY <2>1, FS_EmptySet
  <2>4. Cardinality(LogContainers) * 0 = 0
      BY LogNumbers
  <2>5. QED
      BY <2>2, <2>3, <2>4 DEF ListsLeft
<1>6. QED
    BY <1>2, <1>3, <1>4, <1>5 DEF LogTypes

(* The steps that leave the buffers alone.                                  *)
LEMMA SameBuffers ==
    ASSUME UNCHANGED <<lists, buffers>>, OwnBuffers
    PROVE  /\ OwnBuffers' /\ Current' = Current
           /\ \A k \in ListIds : lists'[k] # <<>> => lists[k] # <<>> \/ k \in Current'
    BY DEF OwnBuffers, Current, Having

(* What the list of a flush may be.                                         *)
ListMoves == \A f \in Flushers : \/ flushers'[f].list \in {0, flushers[f].list}
                                 \/ flushers'[f].list \in Current'

LEMMA StartTypes == ASSUME LogTypes, StartCollecting PROVE LogTypes'
<1> USE DEF StartCollecting
<1>1. PICK S \in SUBSET LogContainers : Add(S)
    OBVIOUS
<1>2. LogTypeOK /\ MonitoredHasTask /\ OwnBuffers /\ ListsLeft /\ FlushShape
    BY DEF LogTypes
<1>3. /\ monitored' \subseteq LogContainers /\ holder' \in [LogContainers -> SUBSET Tasks]
      /\ tasks' \in [Tasks -> TaskType] /\ MonitoredHasTask'
    BY <1>1, <1>2, AddKeeps
<1>4. LogTypeOK'
    BY <1>2, <1>3 DEF LogTypeOK
<1>5. FlushShape'
    BY <1>2 DEF FlushShape
<1>6. ListsLeft'
    BY <1>2, <1>4, SameBuffers, ListsKept DEF StopsEnded
<1>7. QED
    BY <1>3, <1>4, <1>5, <1>6, <1>2, SameBuffers DEF LogTypes

LEMMA AddTypes ==
    ASSUME LogTypes, NEW c \in LogContainers, AddContainer(c) PROVE LogTypes'
<1> USE DEF AddContainer
<1>1. {c} \in SUBSET LogContainers /\ Add({c})
    OBVIOUS
<1>2. LogTypeOK /\ MonitoredHasTask /\ OwnBuffers /\ ListsLeft /\ FlushShape
    BY DEF LogTypes
<1>3. /\ monitored' \subseteq LogContainers /\ holder' \in [LogContainers -> SUBSET Tasks]
      /\ tasks' \in [Tasks -> TaskType] /\ MonitoredHasTask'
    BY <1>1, <1>2, AddKeeps
<1>4. LogTypeOK'
    BY <1>2, <1>3 DEF LogTypeOK
<1>5. FlushShape'
    BY <1>2 DEF FlushShape
<1>6. ListsLeft'
    BY <1>2, <1>4, SameBuffers, ListsKept DEF StopsEnded
<1>7. QED
    BY <1>3, <1>4, <1>5, <1>6, <1>2, SameBuffers DEF LogTypes

LEMMA OverlapsFit ==
    ASSUME NEW flush \in FlushType
    PROVE  Overlaps(flush) \subseteq LogContainers
    BY DEF Overlaps, FlushType

LEMMA FlushersNamed ==
    /\ "worker" \in Flushers /\ "remove" \in Flushers /\ "stop" \in Flushers
    /\ Tasks \subseteq Flushers
    /\ "stop" # "worker" /\ "stop" # "remove" /\ \A t \in Tasks : t # "stop"
    BY LogAssumption DEF LogAssumption, Flushers

(* A flush that begins, of a flusher that was idle.                         *)
LEMMA BeginFits ==
    ASSUME LogTypes, NEW f \in Flushers, NEW S \in SUBSET LogContainers,
           NEW flush \in Flush(f, S),
           flushers' = [flushers EXCEPT ![f] = flush], UNCHANGED <<lists, buffers>>
    PROVE  /\ flushers' \in [Flushers -> FlushType] /\ FlushShape' /\ ListMoves
           /\ Overlaps(flush) \subseteq LogContainers
           /\ f # "stop" => flushers'["stop"] = flushers["stop"]
           /\ f = "stop" => flushers'["stop"].pc # "idle"
<1>1. LogTypeOK /\ FlushShape /\ flushers \in [Flushers -> FlushType] /\ OwnBuffers
    BY DEF LogTypes, LogTypeOK
<1>2. /\ flush \in FlushType /\ ShapeOf(flush)
      /\ f = "stop" => flush.pc # "idle"
      /\ flush.list = 0 \/ \E c \in S : Buffer(c) # <<>> /\ flush.list = buffers[c]
    BY <1>1, FlushOutcome
<1>3. flushers' \in [Flushers -> FlushType] /\ FlushShape' /\ flushers'[f] = flush
    BY <1>1, <1>2, SetFlush
<1>4. flush.list = 0 \/ flush.list \in Current
    BY <1>1, <1>2 DEF Buffer, Current, Having
<1>5. ListMoves
    BY <1>1, <1>3, <1>4, SameBuffers DEF ListMoves
<1>6. QED
    BY <1>1, <1>2, <1>3, <1>5, OverlapsFit, FlushersNamed

LEMMA RemoveTypes ==
    ASSUME LogTypes, NEW c \in LogContainers, RemoveContainer(c) PROVE LogTypes'
<1> USE DEF RemoveContainer
<1>1. LogTypeOK /\ MonitoredHasTask /\ OwnBuffers /\ ListsLeft /\ FlushShape
    BY DEF LogTypes
<1>2. PICK flush \in Flush("remove", {c}) :
         /\ flushers' = [flushers EXCEPT !["remove"] = flush]
         /\ spoiled' = spoiled \cup Overlaps(flush)
    OBVIOUS
<1>3. /\ flushers' \in [Flushers -> FlushType] /\ FlushShape' /\ ListMoves
      /\ Overlaps(flush) \subseteq LogContainers
      /\ flushers'["stop"] = flushers["stop"]
    BY <1>2, BeginFits, FlushersNamed
<1>4. tasks' \in [Tasks -> TaskType]
    BY <1>1, CancelFits DEF LogTypeOK
<1>5. LogTypeOK'
    BY <1>1, <1>2, <1>3, <1>4 DEF LogTypeOK
<1>6. MonitoredHasTask'
    BY <1>1 DEF MonitoredHasTask, LogTypeOK
<1>7. ListsLeft'
    BY <1>1, <1>3, <1>5, SameBuffers, ListsKept DEF StopsEnded, ListMoves
<1>8. QED
    BY <1>1, <1>3, <1>5, <1>6, <1>7, SameBuffers DEF LogTypes

LEMMA WorkerTypes == ASSUME LogTypes, WorkerFlushes PROVE LogTypes'
<1> USE DEF WorkerFlushes
<1>1. LogTypeOK /\ MonitoredHasTask /\ OwnBuffers /\ ListsLeft /\ FlushShape
    BY DEF LogTypes
<1> DEFINE S == {c \in LogContainers : buffers[c] # 0}
<1>2. PICK flush \in Flush("worker", S) :
         /\ flushers' = [flushers EXCEPT !["worker"] = flush]
         /\ spoiled' = spoiled \cup Overlaps(flush)
    OBVIOUS
<1>3. /\ flushers' \in [Flushers -> FlushType] /\ FlushShape' /\ ListMoves
      /\ Overlaps(flush) \subseteq LogContainers
      /\ flushers'["stop"] = flushers["stop"]
  <2>1. S \in SUBSET LogContainers
      OBVIOUS
  <2> HIDE DEF S
  <2>2. QED
      BY <1>2, <2>1, BeginFits, FlushersNamed
<1>4. LogTypeOK'
    BY <1>1, <1>2, <1>3 DEF LogTypeOK
<1>5. MonitoredHasTask'
    BY <1>1 DEF MonitoredHasTask
<1>6. ListsLeft'
    BY <1>1, <1>3, <1>4, SameBuffers, ListsKept DEF StopsEnded, ListMoves
<1>7. QED
    BY <1>1, <1>3, <1>4, <1>5, <1>6, SameBuffers DEF LogTypes

LEMMA StopTypes == ASSUME LogTypes, StopCollecting PROVE LogTypes'
<1> USE DEF StopCollecting
<1>1. LogTypeOK /\ MonitoredHasTask /\ OwnBuffers /\ ListsLeft /\ FlushShape
    BY DEF LogTypes
<1> DEFINE S == {c \in LogContainers : buffers[c] # 0}
           quiet == [flushers EXCEPT !["worker"] = NoFlush]
<1>2. PICK flush \in Flush("stop", S) :
         /\ flushers' = [flushers EXCEPT !["worker"] = NoFlush, !["stop"] = flush]
         /\ spoiled' = spoiled \cup Overlaps(flush) \cup flushers["worker"].on
    OBVIOUS
<1>3. S \in SUBSET LogContainers /\ "stop" \in Flushers /\ "worker" \in Flushers
    BY FlushersNamed
<1> HIDE DEF S
<1>4. /\ flush \in FlushType /\ ShapeOf(flush) /\ flush.pc # "idle"
      /\ flush.list = 0 \/ \E c \in S : Buffer(c) # <<>> /\ flush.list = buffers[c]
    BY <1>1, <1>2, <1>3, FlushOutcome
<1>5. quiet \in [Flushers -> FlushType] /\ \A f \in Flushers : ShapeOf(quiet[f])
    BY <1>1, <1>3, NoFlushFits DEF LogTypeOK, FlushShape
<1>6. flushers' = [quiet EXCEPT !["stop"] = flush]
    BY <1>2, <1>3
<1>7. /\ flushers' \in [Flushers -> FlushType] /\ flushers'["stop"] = flush
      /\ \A f \in Flushers : ShapeOf(flushers'[f])
  <2> HIDE DEF quiet
  <2>1. QED
      BY <1>3, <1>4, <1>5, <1>6
<1>8. FlushShape'
    BY <1>7 DEF FlushShape, ShapeOf, ListIds
<1>9. ListMoves
  <2>1. flush.list = 0 \/ flush.list \in Current
      BY <1>1, <1>3, <1>4 DEF Buffer, Current, Having
  <2>2. \A f \in Flushers : flushers'[f].list \in {0, flushers[f].list, flush.list}
    <3>1. \A f \in Flushers : flushers'[f] \in {NoFlush, flushers[f], flush}
        BY <1>2, <1>1 DEF LogTypeOK
    <3>2. NoFlush.list = 0
        BY DEF NoFlush
    <3>3. QED
        BY <3>1, <3>2
  <2>3. Current' = Current
      BY <1>1, SameBuffers
  <2>4. QED
      BY <2>1, <2>2, <2>3 DEF ListMoves
<1>10. tasks' \in [Tasks -> TaskType]
    BY <1>1, CancelFits DEF LogTypeOK
<1>11. Overlaps(flush) \subseteq LogContainers /\ flushers["worker"].on \subseteq LogContainers
    BY <1>1, <1>3, <1>4, OverlapsFit DEF LogTypeOK, FlushType
<1>12. /\ logFaults' \in [stops : 0 .. LogStops, failures : 0 .. WriteFailures]
       /\ logFaults'.stops = logFaults.stops + 1
  <2>1. /\ logFaults \in [stops : 0 .. LogStops, failures : 0 .. WriteFailures]
        /\ logFaults.stops < LogStops /\ LogStops \in Nat
      BY <1>1, LogAssumption DEF LogTypeOK, LogAssumption
  <2>2. logFaults' = [logFaults EXCEPT !.stops = logFaults.stops + 1]
      OBVIOUS
  <2>3. logFaults.stops + 1 \in 0 .. LogStops
      BY <2>1
  <2>4. QED
      BY <2>1, <2>2, <2>3
<1>13. LogTypeOK'
    BY <1>1, <1>2, <1>7, <1>10, <1>11, <1>12 DEF LogTypeOK
<1>14. StopsEnded' = StopsEnded
  <2>1. logFaults.stops \in Nat
      BY <1>1 DEF LogTypeOK
  <2>2. flushers["stop"].pc = "idle" /\ flushers'["stop"].pc # "idle"
      BY <1>4, <1>7
  <2>3. QED
      BY <2>1, <2>2, <1>12 DEF StopsEnded
<1>15. ListsLeft'
    BY <1>1, <1>9, <1>13, <1>14, SameBuffers, ListsKept DEF ListMoves
<1>16. MonitoredHasTask'
    BY <1>1 DEF MonitoredHasTask
<1>17. QED
    BY <1>1, <1>8, <1>13, <1>15, <1>16, SameBuffers DEF LogTypes

LEMMA StopEndsTypes == ASSUME LogTypes, StopEnds PROVE LogTypes'
<1> USE DEF StopEnds
<1>1. LogTypeOK /\ MonitoredHasTask /\ OwnBuffers /\ ListsLeft /\ FlushShape
    BY DEF LogTypes
<1>2. /\ flushers' \in [Flushers -> FlushType] /\ FlushShape' /\ flushers'["stop"] = NoFlush
    BY <1>1, FlushersNamed, NoFlushFits, SetFlush DEF LogTypeOK
<1>3. LogTypeOK'
    BY <1>1, <1>2 DEF LogTypeOK
<1>4. OwnBuffers' /\ MonitoredHasTask' /\ Current' = {}
    BY DEF OwnBuffers, MonitoredHasTask, Current, Having
<1>5. UsedLists' \in SUBSET UsedLists
  <2>1. \A f \in Flushers : flushers'[f].list \in {0, flushers[f].list}
    <3>1. NoFlush.list = 0
        BY DEF NoFlush
    <3>2. QED
        BY <3>1, <1>1 DEF LogTypeOK
  <2>2. QED
      BY <1>4, <2>1, LogNumbers DEF UsedLists, ListIds
<1>6. StopsEnded' = StopsEnded + 1 /\ StopsEnded \in Nat
    BY <1>1, <1>2, FlushersNamed DEF StopsEnded, NoFlush, LogTypeOK, ListsLeft
<1>7. Cardinality((UsedLists \ Current)') <= Cardinality(UsedLists)
  <2>1. (UsedLists \ Current)' = UsedLists'
      BY <1>4
  <2>2. Cardinality(UsedLists') <= Cardinality(UsedLists)
      BY <1>1, <1>5, ListsFinite, FS_Subset
  <2>3. QED
      BY <2>1, <2>2
<1>8. Cardinality((UsedLists \ Current)') \in Nat
    BY <1>1, <1>4, <1>5, ListsFinite, FS_Subset, FS_CardinalityType
<1>9. ListsLeft'
  <2> DEFINE n == Cardinality(LogContainers)
             e == StopsEnded
             v == Cardinality((UsedLists \ Current)')
             u == Cardinality(UsedLists)
             w == Cardinality(UsedLists \ Current)
             k == Cardinality(Current)
  <2>1. w <= n * e /\ n \in Nat /\ e \in Nat
      BY <1>1, <1>6, LogNumbers DEF ListsLeft
  <2>2. v \in Nat /\ v <= u /\ u \in Nat /\ w \in Nat /\ k \in Nat /\ u <= w + k /\ k <= n
    <3>1. /\ u \in Nat /\ w \in Nat /\ k \in Nat /\ u <= w + k
          /\ k <= Cardinality(Having) /\ Cardinality(Having) <= n
          /\ Cardinality(Having) \in Nat /\ n \in Nat
        BY <1>1, ListsFinite, LogNumbers
    <3> HIDE DEF u, v, w, k, n
    <3>2. k <= n
        BY <3>1
    <3>3. QED
        BY <3>1, <3>2, <1>7, <1>8 DEF u, v
  <2>3. n * (e + 1) = n * e + n /\ n * e \in Nat
    <3>1. \A x, y \in Nat : x * (y + 1) = x * y + x /\ x * y \in Nat
        OBVIOUS
    <3> HIDE DEF n, e
    <3>2. QED
        BY <2>1, <3>1
  <2>4. v <= n * (e + 1)
    <3> DEFINE p == n * e
    <3>1. w <= p /\ p \in Nat /\ n * (e + 1) = p + n
        BY <2>1, <2>3
    <3> HIDE DEF n, e, u, v, w, k, p
    <3>2. v <= p + n
        BY <2>1, <2>2, <3>1
    <3>3. QED
        BY <3>1, <3>2
  <2>5. QED
      BY <2>4, <1>6 DEF ListsLeft
<1>10. QED
    BY <1>2, <1>3, <1>4, <1>9 DEF LogTypes

(* A step of a task ends it, or goes on with it.                            *)
LEMMA TaskEndsFits ==
    ASSUME LogTypeOK, MonitoredHasTask, NEW t \in Tasks, TaskEnds(t)
    PROVE  /\ tasks' \in [Tasks -> TaskType] /\ monitored' \subseteq LogContainers
           /\ holder' \in [LogContainers -> SUBSET Tasks] /\ MonitoredHasTask'
<1>1. OverTask \in TaskType
    BY DEF OverTask, NoTask, TaskType
<1>2. QED
    BY <1>1 DEF TaskEnds, LogTypeOK, MonitoredHasTask

LEMMA CancelledTypes == ASSUME LogTypes, NEW t \in Tasks, TaskCancelled(t) PROVE LogTypes'
<1> USE DEF TaskCancelled
<1>1. LogTypeOK /\ MonitoredHasTask /\ OwnBuffers /\ ListsLeft /\ FlushShape
    BY DEF LogTypes
<1>2. /\ flushers' \in [Flushers -> FlushType] /\ FlushShape'
      /\ flushers'["stop"] = flushers["stop"] /\ flushers'[t] = NoFlush
    BY <1>1, FlushersNamed, NoFlushFits, SetFlush DEF LogTypeOK
<1>3. /\ tasks' \in [Tasks -> TaskType] /\ monitored' \subseteq LogContainers
      /\ holder' \in [LogContainers -> SUBSET Tasks] /\ MonitoredHasTask'
    BY <1>1, TaskEndsFits
<1>4. flushers[t].on \subseteq LogContainers
    BY <1>1, FlushersNamed DEF LogTypeOK, FlushType
<1>5. LogTypeOK'
    BY <1>1, <1>2, <1>3, <1>4 DEF LogTypeOK
<1>6. \A f \in Flushers : flushers'[f].list \in {0, flushers[f].list}
  <2>1. NoFlush.list = 0
      BY DEF NoFlush
  <2>2. QED
      BY <2>1, <1>1 DEF LogTypeOK
<1>7. ListsLeft'
    BY <1>1, <1>2, <1>5, <1>6, SameBuffers, ListsKept DEF StopsEnded
<1>8. QED
    BY <1>1, <1>2, <1>3, <1>5, <1>7, SameBuffers DEF LogTypes

LEMMA StartsTypes == ASSUME LogTypes, NEW t \in Tasks, TaskStarts(t) PROVE LogTypes'
<1> USE DEF TaskStarts
<1>1. LogTypeOK /\ MonitoredHasTask /\ OwnBuffers /\ ListsLeft /\ FlushShape
    BY DEF LogTypes
<1>2. tasks' \in [Tasks -> TaskType]
  <2>1. [tasks[t] EXCEPT !.pc = "reading"] \in TaskType
      BY <1>1 DEF LogTypeOK, TaskType
  <2>2. tasks' = [tasks EXCEPT ![t] = [tasks[t] EXCEPT !.pc = "reading"]]
      BY <1>1 DEF LogTypeOK
  <2>3. QED
      BY <2>1, <2>2, <1>1 DEF LogTypeOK
<1>3. LogTypeOK'
    BY <1>1, <1>2 DEF LogTypeOK
<1>4. FlushShape' /\ MonitoredHasTask'
    BY <1>1 DEF FlushShape, MonitoredHasTask
<1>5. ListsLeft'
    BY <1>1, <1>3, SameBuffers, ListsKept DEF StopsEnded
<1>6. QED
    BY <1>1, <1>3, <1>4, <1>5, SameBuffers DEF LogTypes

(* The flush of a buffer that a line has filled, if it has.                 *)
FilledBy(t, c) ==
    \/ UNCHANGED flushers
    \/ flushers' = [flushers EXCEPT ![t] = [OpenFile(c, {}) EXCEPT !.list = buffers'[c]]]

LEMMA ReadTypes == ASSUME LogTypes, NEW t \in Tasks, ReadLine(t) PROVE LogTypes'
<1>1. LogTypeOK /\ MonitoredHasTask /\ OwnBuffers /\ ListsLeft /\ FlushShape
    BY DEF LogTypes
<1>2. PICK c \in tasks[t].of :
         /\ Collect(c) /\ FilledBy(t, c) /\ reading' \in {reading, {}}
         /\ spoiled' = IF FlushingOn(c) = {} THEN spoiled ELSE spoiled \cup {c}
    BY DEF ReadLine, FilledBy
<1>3. UNCHANGED <<collecting, monitored, holder, tasks, logFiles, logFaults>>
    BY DEF ReadLine
<1>4. c \in LogContainers
    BY <1>1, <1>2 DEF LogTypeOK, TaskType
<1>5. /\ collected' \in [LogContainers -> 0 .. Lines]
      /\ buffers' \in [LogContainers -> {0} \cup ListIds]
      /\ lists' \in [ListIds -> Seq(1 .. Lines)]
      /\ OwnBuffers' /\ Current \subseteq Current'
      /\ \A k \in ListIds : lists'[k] # <<>> => lists[k] # <<>> \/ k \in Current'
      /\ buffers'[c] \in ListIds /\ buffers'[c] \in Current'
    BY <1>2, <1>4, CollectKeeps
<1>6. /\ flushers' \in [Flushers -> FlushType] /\ FlushShape'
      /\ flushers'["stop"] = flushers["stop"]
      /\ \A f \in Flushers : \/ flushers'[f].list = flushers[f].list
                             \/ flushers'[f].list \in Current'
  <2>1. CASE UNCHANGED flushers
      BY <2>1, <1>1 DEF LogTypeOK, FlushShape
  <2>2. CASE flushers' = [flushers EXCEPT ![t] = [OpenFile(c, {}) EXCEPT !.list = buffers'[c]]]
    <3> DEFINE m == [OpenFile(c, {}) EXCEPT !.list = buffers'[c]]
    <3>1. m \in FlushType /\ ShapeOf(m)
        BY <1>1, <1>4, <1>5, OpenFits
    <3>2. m.list = buffers'[c]
        BY DEF OpenFile
    <3>3. flushers' = [flushers EXCEPT ![t] = m]
        BY <2>2
    <3> HIDE DEF m
    <3>4. /\ flushers' \in [Flushers -> FlushType] /\ FlushShape' /\ flushers'[t] = m
          /\ flushers'["stop"] = flushers["stop"]
        BY <1>1, <3>1, <3>3, FlushersNamed, SetFlush DEF LogTypeOK
    <3>5. QED
        BY <1>1, <1>5, <3>2, <3>3, <3>4 DEF LogTypeOK
  <2>3. QED
      BY <2>1, <2>2, <1>2 DEF FilledBy
<1>7. LogTypeOK'
    BY <1>1, <1>2, <1>3, <1>4, <1>5, <1>6 DEF LogTypeOK
<1>8. StopsEnded' = StopsEnded
    BY <1>3, <1>6 DEF StopsEnded
<1>9. ListsLeft'
    BY <1>1, <1>5, <1>6, <1>7, <1>8, ListsKept
<1>10. MonitoredHasTask'
    BY <1>1, <1>3 DEF MonitoredHasTask
<1>11. QED
    BY <1>5, <1>6, <1>7, <1>9, <1>10 DEF LogTypes

LEMMA StreamEndsTypes == ASSUME LogTypes, NEW t \in Tasks, StreamEnds(t) PROVE LogTypes'
<1> USE DEF StreamEnds
<1>1. LogTypeOK /\ MonitoredHasTask /\ OwnBuffers /\ ListsLeft /\ FlushShape
    BY DEF LogTypes
<1>2. /\ tasks' \in [Tasks -> TaskType] /\ monitored' \subseteq LogContainers
      /\ holder' \in [LogContainers -> SUBSET Tasks] /\ MonitoredHasTask'
    BY <1>1, TaskEndsFits
<1>3. LogTypeOK'
    BY <1>1, <1>2 DEF LogTypeOK
<1>4. FlushShape'
    BY <1>1 DEF FlushShape
<1>5. ListsLeft'
    BY <1>1, <1>3, SameBuffers, ListsKept DEF StopsEnded
<1>6. QED
    BY <1>1, <1>2, <1>3, <1>4, <1>5, SameBuffers DEF LogTypes

LEMMA WriteTypes == ASSUME LogTypes, NEW f \in Flushers, WriteEntry(f) PROVE LogTypes'
<1> USE DEF WriteEntry
<1>1. LogTypeOK /\ MonitoredHasTask /\ OwnBuffers /\ ListsLeft /\ FlushShape
    BY DEF LogTypes
<1>2. flushers[f] \in FlushType /\ flushers[f].list \in ListIds
    BY <1>1 DEF LogTypeOK, FlushShape, ShapeOf
<1> DEFINE m == [flushers[f] EXCEPT !.written = flushers[f].written + 1]
<1>3. /\ m \in FlushType /\ ShapeOf(m) /\ flushers' = [flushers EXCEPT ![f] = m]
      /\ m.list = flushers[f].list /\ m.pc = flushers[f].pc
  <2>1. m \in FlushType /\ m.list = flushers[f].list /\ m.pc = flushers[f].pc
      BY <1>2 DEF FlushType
  <2>2. m.on = flushers[f].on /\ m.todo = flushers[f].todo
      BY <1>2 DEF FlushType
  <2>3. flushers' = [flushers EXCEPT ![f] = m]
      BY <1>1 DEF LogTypeOK
  <2>4. ShapeOf(m)
    <3> HIDE DEF m
    <3>1. QED
        BY <1>1, <2>1, <2>2 DEF FlushShape, ShapeOf
  <2>5. QED
      BY <2>1, <2>3, <2>4
<1> HIDE DEF m
<1>4. /\ flushers' \in [Flushers -> FlushType] /\ FlushShape' /\ flushers'[f] = m
    BY <1>1, <1>3, SetFlush DEF LogTypeOK
<1> DEFINE line == lists[flushers[f].list][flushers[f].written + 1]
<1>5. line \in 1 .. Lines
  <2>1. lists[flushers[f].list] \in Seq(1 .. Lines)
      BY <1>1, <1>2 DEF LogTypeOK
  <2>2. flushers[f].written + 1 \in 1 .. Len(lists[flushers[f].list])
      BY <1>2, <2>1, LenProperties DEF FlushType
  <2>3. QED
      BY <2>1, <2>2, ElementOfSeq
<1> HIDE DEF line
<1>6. logFiles' \in [LogContainers -> Seq(1 .. Lines)]
  <2>1. logFiles' = [c \in LogContainers |-> IF c \in flushers[f].on \ spoiled
                                            THEN Append(logFiles[c], line) ELSE logFiles[c]]
      BY DEF line
  <2>2. ASSUME NEW c \in LogContainers
        PROVE  Append(logFiles[c], line) \in Seq(1 .. Lines) /\ logFiles[c] \in Seq(1 .. Lines)
      BY <1>1, <1>5, AppendProperties DEF LogTypeOK
  <2>3. QED
      BY <2>1, <2>2
<1>7. LogTypeOK'
    BY <1>1, <1>4, <1>6 DEF LogTypeOK
<1>8. StopsEnded' = StopsEnded
    BY <1>1, <1>3, <1>4 DEF StopsEnded, LogTypeOK
<1>9. \A g \in Flushers : flushers'[g].list = flushers[g].list
    BY <1>1, <1>3, <1>4 DEF LogTypeOK
<1>10. ListsLeft'
    BY <1>1, <1>7, <1>8, <1>9, SameBuffers, ListsKept
<1>11. MonitoredHasTask'
    BY <1>1 DEF MonitoredHasTask
<1>12. QED
    BY <1>1, <1>4, <1>7, <1>10, <1>11, SameBuffers DEF LogTypes

LEMMA CloseTypes == ASSUME LogTypes, NEW f \in Flushers, CloseFile(f) PROVE LogTypes'
<1> USE DEF CloseFile
<1>1. LogTypeOK /\ MonitoredHasTask /\ OwnBuffers /\ ListsLeft /\ FlushShape
    BY DEF LogTypes
<1>2. flushers[f] \in FlushType
    BY <1>1 DEF LogTypeOK
<1> DEFINE m == [flushers[f] EXCEPT !.pc = "closing"]
<1>3. /\ m \in FlushType /\ ShapeOf(m) /\ flushers' = [flushers EXCEPT ![f] = m]
      /\ m.list = flushers[f].list /\ m.pc = "closing"
  <2>1. m \in FlushType /\ m.list = flushers[f].list /\ m.pc = "closing" /\ m.on = flushers[f].on
      BY <1>2 DEF FlushType
  <2>2. flushers' = [flushers EXCEPT ![f] = m]
      BY <1>1 DEF LogTypeOK
  <2>3. ShapeOf(m)
    <3> HIDE DEF m
    <3>1. QED
        BY <1>1, <2>1 DEF FlushShape, ShapeOf
  <2>4. QED
      BY <2>1, <2>2, <2>3
<1> HIDE DEF m
<1>4. /\ flushers' \in [Flushers -> FlushType] /\ FlushShape' /\ flushers'[f] = m
    BY <1>1, <1>3, SetFlush DEF LogTypeOK
<1>5. LogTypeOK'
    BY <1>1, <1>4 DEF LogTypeOK
<1>6. (flushers'["stop"].pc = "idle") <=> (flushers["stop"].pc = "idle")
    BY <1>1, <1>3, <1>4, FlushersNamed DEF LogTypeOK
<1>7. \A g \in Flushers : flushers'[g].list = flushers[g].list
    BY <1>1, <1>3, <1>4 DEF LogTypeOK
<1>8. ListsLeft'
    BY <1>1, <1>5, <1>6, <1>7, SameBuffers, ListsKept DEF StopsEnded
<1>9. MonitoredHasTask'
    BY <1>1 DEF MonitoredHasTask
<1>10. QED
    BY <1>1, <1>4, <1>5, <1>8, <1>9, SameBuffers DEF LogTypes

(* Clearing a buffer, and going on to the next.                             *)
LEMMA NextFits ==
    ASSUME LogTypes, NEW f \in Flushers, flushers[f].pc \in {"writing", "closing"},
           NEW spoilt \in SUBSET LogContainers, FlushNext(f, spoilt), buffers' = buffers
    PROVE  /\ flushers' \in [Flushers -> FlushType] /\ FlushShape' /\ ListMoves
           /\ spoiled' \subseteq LogContainers /\ reading' \subseteq Tasks
           /\ (flushers'["stop"].pc = "idle") <=> (flushers["stop"].pc = "idle")
<1>1. LogTypeOK /\ FlushShape
    BY DEF LogTypes
<1>2. flushers \in [Flushers -> FlushType] /\ spoiled \subseteq LogContainers
    BY <1>1 DEF LogTypeOK
<1>3. flushers[f].todo \in SUBSET LogContainers
    BY <1>2 DEF FlushType
<1>4. PICK flush \in Flush(f, flushers[f].todo) :
         /\ flushers' = [flushers EXCEPT ![f] = flush]
         /\ spoiled' = spoiled \cup spoilt \cup Overlaps(flush)
    BY DEF FlushNext
<1>5. /\ flush \in FlushType /\ ShapeOf(flush)
      /\ f = "stop" => flush.pc # "idle"
      /\ flush.list = 0 \/ \E c \in flushers[f].todo : Buffer(c) # <<>> /\ flush.list = buffers[c]
    BY <1>1, <1>3, FlushOutcome
<1>6. flushers' \in [Flushers -> FlushType] /\ FlushShape' /\ flushers'[f] = flush
    BY <1>1, <1>2, <1>4, <1>5, SetFlush
<1>7. flush.list = 0 \/ flush.list \in Current
    BY <1>3, <1>5 DEF Buffer, Current, Having
<1>8. Current' = Current
    BY DEF Current, Having
<1>9. ListMoves
    BY <1>2, <1>4, <1>6, <1>7, <1>8 DEF ListMoves
<1>10. (flushers'["stop"].pc = "idle") <=> (flushers["stop"].pc = "idle")
    BY <1>2, <1>4, <1>5, <1>6, FlushersNamed
<1>11. spoiled' \subseteq LogContainers
    BY <1>2, <1>4, <1>5, OverlapsFit
<1>12. reading' \subseteq Tasks
    BY DEF FlushNext
<1>13. QED
    BY <1>6, <1>9, <1>10, <1>11, <1>12

LEMMA ClearTypes == ASSUME LogTypes, NEW f \in Flushers, ClearBuffer(f) PROVE LogTypes'
<1> USE DEF ClearBuffer
<1>1. LogTypeOK /\ MonitoredHasTask /\ OwnBuffers /\ ListsLeft /\ FlushShape
    BY DEF LogTypes
<1>2. /\ flushers' \in [Flushers -> FlushType] /\ FlushShape' /\ ListMoves
      /\ spoiled' \subseteq LogContainers /\ reading' \subseteq Tasks
      /\ (flushers'["stop"].pc = "idle") <=> (flushers["stop"].pc = "idle")
    BY NextFits, {} \in SUBSET LogContainers
<1>3. /\ lists' \in [ListIds -> Seq(1 .. Lines)]
      /\ \A k \in ListIds : lists'[k] # <<>> => lists[k] # <<>>
    BY <1>1, EmptySeq DEF LogTypeOK
<1>4. LogTypeOK'
    BY <1>1, <1>2, <1>3 DEF LogTypeOK
<1>5. OwnBuffers' /\ Current' = Current /\ MonitoredHasTask'
    BY <1>1 DEF OwnBuffers, Current, Having, MonitoredHasTask
<1>6. ListsLeft'
    BY <1>1, <1>2, <1>3, <1>4, <1>5, ListsKept DEF StopsEnded, ListMoves
<1>7. QED
    BY <1>2, <1>4, <1>5, <1>6 DEF LogTypes

LEMMA FailTypes == ASSUME LogTypes, NEW f \in Flushers, FlushFails(f) PROVE LogTypes'
<1> USE DEF FlushFails
<1>1. LogTypeOK /\ MonitoredHasTask /\ OwnBuffers /\ ListsLeft /\ FlushShape
    BY DEF LogTypes
<1>2. flushers[f].on \in SUBSET LogContainers
    BY <1>1 DEF LogTypeOK, FlushType
<1>3. /\ flushers' \in [Flushers -> FlushType] /\ FlushShape' /\ ListMoves
      /\ spoiled' \subseteq LogContainers /\ reading' \subseteq Tasks
      /\ (flushers'["stop"].pc = "idle") <=> (flushers["stop"].pc = "idle")
    BY <1>2, NextFits
<1>4. /\ logFaults' \in [stops : 0 .. LogStops, failures : 0 .. WriteFailures]
      /\ logFaults'.stops = logFaults.stops
  <2>1. /\ logFaults \in [stops : 0 .. LogStops, failures : 0 .. WriteFailures]
        /\ logFaults.failures < WriteFailures /\ WriteFailures \in Nat
      BY <1>1, LogAssumption DEF LogTypeOK, LogAssumption
  <2>2. logFaults' = [logFaults EXCEPT !.failures = logFaults.failures + 1]
      OBVIOUS
  <2>3. logFaults.failures + 1 \in 0 .. WriteFailures
      BY <2>1
  <2>4. QED
      BY <2>1, <2>2, <2>3
<1>5. LogTypeOK'
    BY <1>1, <1>3, <1>4 DEF LogTypeOK
<1>6. ListsLeft'
    BY <1>1, <1>3, <1>4, <1>5, SameBuffers, ListsKept DEF StopsEnded, ListMoves
<1>7. MonitoredHasTask'
    BY <1>1 DEF MonitoredHasTask
<1>8. QED
    BY <1>1, <1>3, <1>5, <1>6, <1>7, SameBuffers DEF LogTypes

LEMMA LogTypesStep == ASSUME LogTypes, [LogNext]_logVars PROVE LogTypes'
<1>1. CASE StartCollecting
    BY <1>1, StartTypes
<1>2. CASE StopCollecting
    BY <1>2, StopTypes
<1>3. CASE StopEnds
    BY <1>3, StopEndsTypes
<1>4. CASE WorkerFlushes
    BY <1>4, WorkerTypes
<1>5. ASSUME NEW c \in LogContainers, AddContainer(c) \/ RemoveContainer(c) PROVE LogTypes'
    BY <1>5, AddTypes, RemoveTypes
<1>6. ASSUME NEW t \in Tasks,
             ReadLine(t) \/ StreamEnds(t) \/ TaskStarts(t) \/ TaskCancelled(t)
      PROVE  LogTypes'
    BY <1>6, ReadTypes, StreamEndsTypes, StartsTypes, CancelledTypes
<1>7. ASSUME NEW f \in Flushers, FlushStep(f) PROVE LogTypes'
    BY <1>7, WriteTypes, CloseTypes, ClearTypes, FailTypes DEF FlushStep
<1>8. CASE UNCHANGED logVars
    BY <1>8 DEF logVars, LogTypes, LogTypeOK, FlushShape, OwnBuffers, ListsLeft, StopsEnded,
                UsedLists, Current, Having, MonitoredHasTask
<1>9. reading \subseteq Tasks
    BY DEF LogTypes, LogTypeOK
<1>10. QED
    BY <1>1, <1>2, <1>3, <1>4, <1>5, <1>6, <1>7, <1>8, <1>9 DEF LogNext

(* What the file and the buffer of a container hold of its k lines, when w  *)
(* entries of the buffer are already in the file.                           *)
Ordered(log, buffer, k, w) ==
    /\ Len(buffer) <= k
    /\ Len(log) = k - Len(buffer) + w
    /\ \A i \in 1 .. Len(log) : log[i] = i
    /\ \A i \in 1 .. Len(buffer) : buffer[i] = k - Len(buffer) + i

LEMMA CollectOrdered ==
    ASSUME NEW F \in Seq(Nat), NEW B \in Seq(Nat), NEW N \in Seq(Nat), NEW k \in Nat,
           \A i \in 1 .. Len(N) : N[i] = k + i, Ordered(F, B, k, 0)
    PROVE  Ordered(F, B \o N, k + Len(N), 0)
<1>1. Len(B) \in Nat /\ Len(N) \in Nat /\ Len(B \o N) = Len(B) + Len(N)
    BY LenProperties, ConcatProperties
<1>2. ASSUME NEW i \in 1 .. Len(B \o N)
      PROVE  (B \o N)[i] = (k + Len(N)) - Len(B \o N) + i
  <2>1. CASE i <= Len(B)
    <3>1. i \in 1 .. Len(B) /\ (B \o N)[i] = B[i]
        BY <2>1, <1>1, ConcatProperties
    <3>2. QED
        BY <3>1, <1>1 DEF Ordered
  <2>2. CASE i > Len(B)
    <3>1. i - Len(B) \in 1 .. Len(N) /\ (B \o N)[i] = N[i - Len(B)]
        BY <2>2, <1>1, ConcatProperties
    <3>2. N[i - Len(B)] = k + (i - Len(B))
        BY <3>1
    <3>3. QED
        BY <3>1, <3>2, <1>1
  <2>3. QED
      BY <2>1, <2>2, <1>1
<1>3. Len(B) <= k /\ Len(F) = k - Len(B) + 0 /\ \A i \in 1 .. Len(F) : F[i] = i
    BY DEF Ordered
<1> DEFINE C == B \o N
<1>4. Len(C) = Len(B) + Len(N) /\ \A i \in 1 .. Len(C) : C[i] = (k + Len(N)) - Len(C) + i
    BY <1>1, <1>2
<1>5. Len(C) <= k + Len(N) /\ Len(F) = (k + Len(N)) - Len(C) + 0
  <2> DEFINE c == Len(C)
             b == Len(B)
             n == Len(N)
             f == Len(F)
  <2>1. c = b + n /\ b <= k /\ f = k - b + 0 /\ b \in Nat /\ n \in Nat
      BY <1>1, <1>3, <1>4
  <2> HIDE DEF b, c, n, f
  <2>2. c <= k + n /\ f = (k + n) - c + 0
      BY <2>1
  <2>3. QED
      BY <2>2 DEF b, c, n, f
<1> HIDE DEF C
<1>6. Ordered(F, C, k + Len(N), 0)
    BY <1>3, <1>4, <1>5 DEF Ordered
<1>7. QED
    BY <1>6 DEF C

LEMMA WriteOrdered ==
    ASSUME NEW F \in Seq(Nat), NEW B \in Seq(Nat), NEW k \in Nat, NEW w \in Nat,
           w < Len(B), Ordered(F, B, k, w)
    PROVE  Ordered(Append(F, B[w + 1]), B, k, w + 1)
<1>1. Len(B) \in Nat /\ Len(F) \in Nat
    BY LenProperties
<1>2. w + 1 \in 1 .. Len(B) /\ B[w + 1] \in Nat
    BY <1>1, ElementOfSeq
<1>3. B[w + 1] = Len(F) + 1
    BY <1>1, <1>2 DEF Ordered
<1> DEFINE A == Append(F, B[w + 1])
<1>4. /\ Len(A) = Len(F) + 1 /\ A[Len(F) + 1] = B[w + 1]
      /\ \A i \in 1 .. Len(F) : A[i] = F[i]
    BY <1>2, AppendProperties
<1> HIDE DEF A
<1>5. ASSUME NEW i \in 1 .. Len(A) PROVE A[i] = i
  <2>1. CASE i = Len(F) + 1
      BY <2>1, <1>3, <1>4
  <2>2. CASE i \in 1 .. Len(F)
      BY <2>2, <1>4 DEF Ordered
  <2>3. QED
      BY <2>1, <2>2, <1>1, <1>4
<1>6. Ordered(A, B, k, w + 1)
    BY <1>1, <1>4, <1>5 DEF Ordered
<1>7. QED
    BY <1>6 DEF A

LEMMA ClearOrdered ==
    ASSUME NEW F \in Seq(Nat), NEW B \in Seq(Nat), NEW k \in Nat,
           Ordered(F, B, k, Len(B))
    PROVE  Ordered(F, <<>>, k, 0)
<1>1. Len(B) \in Nat /\ Len(F) \in Nat /\ Len(<<>>) = 0
    BY LenProperties, EmptySeq
<1>2. QED
    BY <1>1 DEF Ordered

LEMMA OrderedSaved ==
    ASSUME NEW F \in Seq(Nat), NEW B \in Seq(Nat), NEW k \in Nat, Ordered(F, B, k, 0)
    PROVE  F \o B = [i \in 1 .. k |-> i]
<1>1. Len(B) \in Nat /\ Len(F) \in Nat /\ Len(F) + Len(B) = k
    BY LenProperties DEF Ordered
<1> DEFINE C == F \o B
<1>2. C \in Seq(Nat) /\ Len(C) = k
    BY <1>1, ConcatProperties
<1>3. ASSUME NEW i \in 1 .. k PROVE C[i] = i
  <2>1. CASE i <= Len(F)
    <3>1. i \in 1 .. Len(F) /\ C[i] = F[i]
        BY <2>1, <1>1, ConcatProperties
    <3>2. F[i] = i
        BY <3>1 DEF Ordered
    <3>3. QED
        BY <3>1, <3>2
  <2>2. CASE i > Len(F)
    <3>1. i - Len(F) \in 1 .. Len(B) /\ C[i] = B[i - Len(F)]
        BY <2>2, <1>1, ConcatProperties
    <3>2. B[i - Len(F)] = k - Len(B) + (i - Len(F))
        BY <3>1 DEF Ordered
    <3>3. k - Len(B) + (i - Len(F)) = i
      <4> DEFINE b == Len(B)
                 f == Len(F)
      <4>1. b \in Nat /\ f \in Nat /\ f + b = k
          BY <1>1
      <4> HIDE DEF b, f
      <4>2. k - b + (i - f) = i
          BY <4>1
      <4>3. QED
          BY <4>2 DEF b, f
    <3>4. QED
        BY <3>1, <3>2, <3>3
  <2>3. QED
      BY <2>1, <2>2, <1>1
<1> HIDE DEF C
<1>4. C = [i \in 1 .. k |-> i]
  <2>1. DOMAIN C = 1 .. k /\ C = [i \in DOMAIN C |-> C[i]]
      BY <1>2, LenProperties
  <2>2. QED
      BY <2>1, <1>3
<1>5. QED
    BY <1>4 DEF C

(* Of a container that nothing has spoiled: one flush at a time, of the      *)
(* buffer it has, and file and buffer agree with how far the flush is.       *)
Flushed(c, f) ==
    /\ \A g \in FlushingOn(c) : g = f
    /\ flushers[f].list = buffers[c] /\ Buffer(c) # <<>>
    /\ flushers[f].written <= Len(Buffer(c))
    /\ flushers[f].pc = "closing" => flushers[f].written = Len(Buffer(c))
    /\ Ordered(logFiles[c], Buffer(c), collected[c], flushers[f].written)

Sound(c) ==
    /\ \A f \in FlushingOn(c) : Flushed(c, f)
    /\ FlushingOn(c) = {} => Ordered(logFiles[c], Buffer(c), collected[c], 0)

(* A stop does not forget a container before it has flushed it.             *)
StopSees(c) ==
    flushers["stop"].pc # "idle" =>
        /\ ~collecting
        /\ Buffer(c) # <<>> => c \in flushers["stop"].todo \cup flushers["stop"].on

LogInv == LogTypes /\ \A c \in LogContainers \ spoiled : Sound(c) /\ StopSees(c)

LEMMA BufferTypes ==
    ASSUME LogTypeOK, NEW c \in LogContainers
    PROVE  /\ Buffer(c) \in Seq(1 .. Lines) /\ Buffer(c) \in Seq(Nat) /\ Len(Buffer(c)) \in Nat
           /\ logFiles[c] \in Seq(Nat) /\ collected[c] \in Nat
<1>1. Buffer(c) \in Seq(1 .. Lines) /\ logFiles[c] \in Seq(1 .. Lines)
    BY EmptySeq DEF Buffer, LogTypeOK
<1>2. ASSUME NEW q \in Seq(1 .. Lines) PROVE q \in Seq(Nat)
  <2>1. Len(q) \in Nat /\ DOMAIN q = 1 .. Len(q) /\ \A i \in 1 .. Len(q) : q[i] \in 1 .. Lines
      BY LenProperties, ElementOfSeq
  <2>2. \A i \in 1 .. Len(q) : q[i] \in Nat
      BY <2>1
  <2>3. q = [i \in 1 .. Len(q) |-> q[i]]
      BY <2>1, LenProperties
  <2>4. q \in [1 .. Len(q) -> Nat]
      BY <2>2, <2>3
  <2>5. QED
      BY <2>1, <2>4, SeqDef
<1>3. collected[c] \in Nat
    BY LogAssumption DEF LogTypeOK, LogAssumption
<1>4. QED
    BY <1>1, <1>2, <1>3, LenProperties

(* Nothing happens to a container.                                          *)
LEMMA NothingHappens ==
    ASSUME NEW c \in LogContainers, Sound(c),
           buffers'[c] = buffers[c], Buffer(c)' = Buffer(c),
           logFiles'[c] = logFiles[c], collected'[c] = collected[c],
           \A f \in Flushers : /\ (c \in flushers'[f].on) <=> (c \in flushers[f].on)
                               /\ c \in flushers[f].on => flushers'[f] = flushers[f]
    PROVE  Sound(c)'
<1>1. FlushingOn(c)' = FlushingOn(c)
    BY DEF FlushingOn, Flushers
<1>2. ASSUME NEW f \in FlushingOn(c) PROVE Flushed(c, f)'
  <2>1. flushers'[f] = flushers[f]
      BY <1>2 DEF FlushingOn
  <2>2. Flushed(c, f)
      BY DEF Sound
  <2>3. QED
      BY <1>1, <2>1, <2>2 DEF Flushed, Ordered
<1>3. FlushingOn(c) = {} => Ordered(logFiles[c], Buffer(c), collected[c], 0)'
    BY DEF Sound, Ordered
<1>4. QED
    BY <1>1, <1>2, <1>3 DEF Sound

(* A flush turns to another container.                                      *)
LEMMA TurnsTo ==
    ASSUME LogTypes, NEW c \in LogContainers, Sound(c),
           NEW f \in Flushers, NEW S \in SUBSET LogContainers, NEW flush \in Flush(f, S),
           c \notin Overlaps(flush), c \notin flushers[f].on,
           buffers' = buffers, Buffer(c)' = Buffer(c),
           logFiles'[c] = logFiles[c], collected'[c] = collected[c],
           flushers'[f] = flush,
           \A g \in Flushers \ {f} :
               flushers'[g] = flushers[g] \/ (c \notin flushers[g].on /\ c \notin flushers'[g].on)
    PROVE  Sound(c)'
<1>1. LogTypeOK
    BY DEF LogTypes
<1>2. CASE c \notin flush.on
  <2>1. \A g \in Flushers : /\ (c \in flushers'[g].on) <=> (c \in flushers[g].on)
                            /\ c \in flushers[g].on => flushers'[g] = flushers[g]
      BY <1>2
  <2>2. QED
      BY <2>1, NothingHappens
<1>3. CASE c \in flush.on
  <2>1. FlushingOn(c) = {}
      BY <1>3 DEF Overlaps
  <2>2. /\ Buffer(c) # <<>> /\ flush.list = buffers[c] /\ flush.pc = "writing"
        /\ flush.written = 0
      BY <1>1, <1>3, FlushOutcome
  <2>3. FlushingOn(c)' = {f}
      BY <1>3, <2>1 DEF FlushingOn, Flushers
  <2>4. Ordered(logFiles[c], Buffer(c), collected[c], 0)
      BY <2>1 DEF Sound
  <2>5. Len(Buffer(c)) \in Nat
      BY <1>1, BufferTypes
  <2>6. Flushed(c, f)'
    <3>1. flushers'[f].list = buffers'[c] /\ Buffer(c)' # <<>>
        BY <2>2
    <3>2. /\ flushers'[f].written <= Len(Buffer(c)')
          /\ flushers'[f].pc # "closing"
        BY <2>2, <2>5
    <3>3. Ordered(logFiles[c], Buffer(c), collected[c], flushers[f].written)'
        BY <2>2, <2>4 DEF Ordered
    <3>4. QED
        BY <2>3, <3>1, <3>2, <3>3 DEF Flushed
  <2>7. QED
      BY <2>3, <2>6 DEF Sound
<1>4. QED
    BY <1>2, <1>3

(* What a stop has before it, when it turns to a container of S.            *)
LEMMA StopTurns ==
    ASSUME LogTypes, NEW c \in LogContainers, NEW S \in SUBSET LogContainers,
           NEW flush \in Flush("stop", S), Buffer(c) # <<>> => c \in S
    PROVE  Buffer(c) # <<>> => c \in flush.todo \cup flush.on
    BY FlushOutcome, FlushersNamed DEF LogTypes

LEMMA IdleFlushes ==
    ASSUME LogTypes, NEW f \in Flushers, flushers[f].pc \in {"idle", "over"}
    PROVE  flushers[f].on = {} /\ flushers[f].todo = {}
    BY DEF LogTypes, FlushShape, ShapeOf

SoundAfter == \A c \in LogContainers \ spoiled' : Sound(c)' /\ StopSees(c)'

LEMMA StartSound == ASSUME LogInv, StartCollecting PROVE SoundAfter
<1> SUFFICES ASSUME NEW c \in LogContainers \ spoiled' PROVE Sound(c)' /\ StopSees(c)'
    BY DEF SoundAfter
<1> USE DEF StartCollecting
<1>1. flushers["stop"].pc = "idle" /\ c \notin spoiled
    OBVIOUS
<1>2. Sound(c)
    BY <1>1 DEF LogInv
<1>3. Buffer(c)' = Buffer(c)
    BY DEF Buffer
<1>4. Sound(c)'
    BY <1>2, <1>3, NothingHappens
<1>5. QED
    BY <1>1, <1>4 DEF StopSees

LEMMA AddSound ==
    ASSUME LogInv, NEW k \in LogContainers, AddContainer(k) PROVE SoundAfter
<1> SUFFICES ASSUME NEW c \in LogContainers \ spoiled' PROVE Sound(c)' /\ StopSees(c)'
    BY DEF SoundAfter
<1> USE DEF AddContainer
<1>1. Sound(c) /\ StopSees(c)
    BY DEF LogInv
<1>2. Buffer(c)' = Buffer(c)
    BY DEF Buffer
<1>3. Sound(c)'
    BY <1>1, <1>2, NothingHappens
<1>4. QED
    BY <1>1, <1>2, <1>3 DEF StopSees

LEMMA RemoveSound ==
    ASSUME LogInv, NEW k \in LogContainers, RemoveContainer(k) PROVE SoundAfter
<1> SUFFICES ASSUME NEW c \in LogContainers \ spoiled' PROVE Sound(c)' /\ StopSees(c)'
    BY DEF SoundAfter
<1> USE DEF RemoveContainer
<1>1. LogTypes /\ flushers \in [Flushers -> FlushType]
    BY DEF LogInv, LogTypes, LogTypeOK
<1>2. PICK flush \in Flush("remove", {k}) :
         /\ flushers' = [flushers EXCEPT !["remove"] = flush]
         /\ spoiled' = spoiled \cup Overlaps(flush)
    OBVIOUS
<1>3. Sound(c) /\ StopSees(c) /\ c \notin Overlaps(flush)
    BY <1>2 DEF LogInv
<1>4. Buffer(c)' = Buffer(c)
    BY DEF Buffer
<1>5. flushers["remove"].on = {}
    BY <1>1, IdleFlushes, FlushersNamed
<1>6. /\ flushers'["remove"] = flush /\ flushers'["stop"] = flushers["stop"]
      /\ \A g \in Flushers \ {"remove"} : flushers'[g] = flushers[g]
    BY <1>1, <1>2, FlushersNamed
<1>7. Sound(c)'
    BY <1>1, <1>3, <1>4, <1>5, <1>6, TurnsTo, FlushersNamed, {k} \in SUBSET LogContainers
<1>8. QED
    BY <1>3, <1>4, <1>6, <1>7 DEF StopSees

LEMMA WorkerSound == ASSUME LogInv, WorkerFlushes PROVE SoundAfter
<1> SUFFICES ASSUME NEW c \in LogContainers \ spoiled' PROVE Sound(c)' /\ StopSees(c)'
    BY DEF SoundAfter
<1> USE DEF WorkerFlushes
<1> DEFINE S == {d \in LogContainers : buffers[d] # 0}
<1>1. LogTypes /\ flushers \in [Flushers -> FlushType]
    BY DEF LogInv, LogTypes, LogTypeOK
<1>2. PICK flush \in Flush("worker", S) :
         /\ flushers' = [flushers EXCEPT !["worker"] = flush]
         /\ spoiled' = spoiled \cup Overlaps(flush)
    OBVIOUS
<1>3. S \in SUBSET LogContainers
    OBVIOUS
<1> HIDE DEF S
<1>4. Sound(c) /\ StopSees(c) /\ c \notin Overlaps(flush)
    BY <1>2 DEF LogInv
<1>5. Buffer(c)' = Buffer(c)
    BY DEF Buffer
<1>6. flushers["worker"].on = {}
    BY <1>1, IdleFlushes, FlushersNamed
<1>7. /\ flushers'["worker"] = flush /\ flushers'["stop"] = flushers["stop"]
      /\ \A g \in Flushers \ {"worker"} : flushers'[g] = flushers[g]
    BY <1>1, <1>2, FlushersNamed
<1>8. Sound(c)'
    BY <1>1, <1>3, <1>4, <1>5, <1>6, <1>7, TurnsTo, FlushersNamed
<1>9. QED
    BY <1>4, <1>5, <1>7, <1>8 DEF StopSees

LEMMA StopSound == ASSUME LogInv, StopCollecting PROVE SoundAfter
<1> SUFFICES ASSUME NEW c \in LogContainers \ spoiled' PROVE Sound(c)' /\ StopSees(c)'
    BY DEF SoundAfter
<1> USE DEF StopCollecting
<1> DEFINE S == {d \in LogContainers : buffers[d] # 0}
<1>1. LogTypes /\ flushers \in [Flushers -> FlushType]
    BY DEF LogInv, LogTypes, LogTypeOK
<1>2. PICK flush \in Flush("stop", S) :
         /\ flushers' = [flushers EXCEPT !["worker"] = NoFlush, !["stop"] = flush]
         /\ spoiled' = spoiled \cup Overlaps(flush) \cup flushers["worker"].on
    OBVIOUS
<1>3. S \in SUBSET LogContainers /\ (Buffer(c) # <<>> => c \in S)
    BY DEF Buffer
<1> HIDE DEF S
<1>4. Sound(c) /\ c \notin Overlaps(flush) /\ c \notin flushers["worker"].on
    BY <1>2 DEF LogInv
<1>5. Buffer(c)' = Buffer(c)
    BY DEF Buffer
<1>6. flushers["stop"].on = {}
    BY <1>1, IdleFlushes, FlushersNamed
<1>7. NoFlush.on = {}
    BY DEF NoFlush
<1>8. /\ flushers'["stop"] = flush
      /\ \A g \in Flushers \ {"stop"} :
            flushers'[g] = flushers[g] \/ (c \notin flushers[g].on /\ c \notin flushers'[g].on)
    BY <1>1, <1>2, <1>4, <1>7, FlushersNamed
<1>9. Sound(c)'
    BY <1>1, <1>3, <1>4, <1>5, <1>6, <1>8, TurnsTo, FlushersNamed
<1>10. Buffer(c)' # <<>> => c \in flush.todo \cup flush.on
    BY <1>1, <1>3, <1>5, StopTurns
<1>11. QED
    BY <1>8, <1>9, <1>10 DEF StopSees

LEMMA StopEndsSound == ASSUME LogInv, StopEnds PROVE SoundAfter
<1> SUFFICES ASSUME NEW c \in LogContainers \ spoiled' PROVE Sound(c)' /\ StopSees(c)'
    BY DEF SoundAfter
<1> USE DEF StopEnds
<1>1. LogTypes /\ flushers \in [Flushers -> FlushType]
    BY DEF LogInv, LogTypes, LogTypeOK
<1>2. Sound(c) /\ StopSees(c)
    BY DEF LogInv
<1>3. flushers["stop"].on = {} /\ flushers["stop"].todo = {}
    BY <1>1, IdleFlushes, FlushersNamed
<1>4. Buffer(c) = <<>>
    BY <1>2, <1>3 DEF StopSees
<1>5. FlushingOn(c) = {}
    BY <1>2, <1>4 DEF Sound, Flushed
<1>6. Buffer(c)' = <<>>
    BY DEF Buffer
<1>7. /\ flushers'["stop"] = NoFlush /\ NoFlush.on = {} /\ NoFlush.pc = "idle"
      /\ \A g \in Flushers \ {"stop"} : flushers'[g] = flushers[g]
    BY <1>1, FlushersNamed DEF NoFlush
<1>8. FlushingOn(c)' = {}
    BY <1>5, <1>7 DEF FlushingOn, Flushers
<1>9. Ordered(logFiles[c], Buffer(c), collected[c], 0)'
    BY <1>2, <1>4, <1>5, <1>6 DEF Sound, Ordered
<1>10. QED
    BY <1>7, <1>8, <1>9 DEF Sound, StopSees

LEMMA CancelledSound == ASSUME LogInv, NEW t \in Tasks, TaskCancelled(t) PROVE SoundAfter
<1> SUFFICES ASSUME NEW c \in LogContainers \ spoiled' PROVE Sound(c)' /\ StopSees(c)'
    BY DEF SoundAfter
<1> USE DEF TaskCancelled
<1>1. flushers \in [Flushers -> FlushType]
    BY DEF LogInv, LogTypes, LogTypeOK
<1>2. Sound(c) /\ StopSees(c) /\ c \notin flushers[t].on
    BY DEF LogInv
<1>3. Buffer(c)' = Buffer(c)
    BY DEF Buffer
<1>4. /\ flushers'[t] = NoFlush /\ NoFlush.on = {} /\ flushers'["stop"] = flushers["stop"]
      /\ \A g \in Flushers \ {t} : flushers'[g] = flushers[g]
    BY <1>1, FlushersNamed DEF NoFlush
<1>5. \A g \in Flushers : /\ (c \in flushers'[g].on) <=> (c \in flushers[g].on)
                          /\ c \in flushers[g].on => flushers'[g] = flushers[g]
    BY <1>2, <1>4
<1>6. Sound(c)'
    BY <1>2, <1>3, <1>5, NothingHappens
<1>7. QED
    BY <1>2, <1>3, <1>4, <1>6 DEF StopSees

(* What a task collects is the next line of its container.                  *)
LEMMA CollectSound ==
    ASSUME LogTypes, NEW c \in LogContainers, Collect(c),
           Ordered(logFiles[c], Buffer(c), collected[c], 0), logFiles' = logFiles
    PROVE  /\ Ordered(logFiles[c], Buffer(c), collected[c], 0)'
           /\ Len(Buffer(c)') = Len(Buffer(c)) + 1
<1>1. /\ collected'[c] = collected[c] + 1 /\ Buffer(c)' = Buffer(c) \o NewLine(c)
    BY CollectKeeps
<1>2. /\ Buffer(c) \in Seq(Nat) /\ logFiles[c] \in Seq(Nat) /\ collected[c] \in Nat
      /\ Len(Buffer(c)) \in Nat
    BY BufferTypes DEF LogTypes
<1> DEFINE N == NewLine(c)
<1>3. N \in Seq(Nat) /\ Len(N) = 1 /\ \A i \in 1 .. Len(N) : N[i] = collected[c] + i
    BY <1>2 DEF NewLine
<1> HIDE DEF N
<1>4. Ordered(logFiles[c], Buffer(c) \o N, collected[c] + 1, 0)
    BY <1>2, <1>3, CollectOrdered
<1>5. Len(Buffer(c) \o N) = Len(Buffer(c)) + 1
  <2>1. Len(Buffer(c) \o N) = Len(Buffer(c)) + Len(N)
      BY <1>2, <1>3, ConcatProperties
  <2>2. QED
      BY <2>1, <1>3
<1>6. QED
    BY <1>1, <1>4, <1>5 DEF N, Ordered

LEMMA StartsSound == ASSUME LogInv, NEW t \in Tasks, TaskStarts(t) PROVE SoundAfter
<1> SUFFICES ASSUME NEW c \in LogContainers \ spoiled' PROVE Sound(c)' /\ StopSees(c)'
    BY DEF SoundAfter
<1> USE DEF TaskStarts
<1>1. Sound(c) /\ StopSees(c)
    BY DEF LogInv
<1>2. Buffer(c)' = Buffer(c)
    BY DEF Buffer
<1>3. QED
    BY <1>1, <1>2, NothingHappens DEF StopSees

LEMMA ReadSound == ASSUME LogInv, NEW t \in Tasks, ReadLine(t) PROVE SoundAfter
<1> SUFFICES ASSUME NEW c \in LogContainers \ spoiled' PROVE Sound(c)' /\ StopSees(c)'
    BY DEF SoundAfter
<1>1. LogTypes /\ LogTypeOK /\ flushers \in [Flushers -> FlushType]
    BY DEF LogInv, LogTypes, LogTypeOK
<1>2. PICK k \in tasks[t].of :
         /\ Collect(k) /\ FilledBy(t, k)
         /\ spoiled' = IF FlushingOn(k) = {} THEN spoiled ELSE spoiled \cup {k}
    BY DEF ReadLine, FilledBy
<1>3. collecting /\ UNCHANGED <<collecting, logFiles>> /\ flushers[t].pc = "idle"
    BY DEF ReadLine
<1>4. k \in LogContainers
    BY <1>1, <1>2 DEF LogTypeOK, TaskType
<1>5. Sound(c) /\ StopSees(c) /\ c \notin spoiled
    BY <1>2 DEF LogInv
<1>6. flushers["stop"].pc = "idle"
    BY <1>3, <1>5 DEF StopSees
<1>7. flushers[t].on = {}
    BY <1>1, <1>3, IdleFlushes, FlushersNamed
<1> DEFINE m == [OpenFile(k, {}) EXCEPT !.list = buffers'[k]]
<1>8. m.on = {k} /\ m.list = buffers'[k] /\ m.pc = "writing" /\ m.written = 0
    BY DEF OpenFile
<1>9. /\ flushers' = flushers \/ flushers'[t] = m
      /\ flushers'["stop"] = flushers["stop"]
      /\ \A g \in Flushers \ {t} : flushers'[g] = flushers[g]
    BY <1>1, <1>2, FlushersNamed DEF FilledBy
<1> HIDE DEF m
<1>10. CASE c # k
  <2>1. /\ collected'[c] = collected[c] /\ buffers'[c] = buffers[c]
        /\ Buffer(c)' = Buffer(c)
      BY <1>10, <1>1, <1>2, <1>4, CollectKeeps
  <2>2. \A g \in Flushers : /\ (c \in flushers'[g].on) <=> (c \in flushers[g].on)
                            /\ c \in flushers[g].on => flushers'[g] = flushers[g]
      BY <1>7, <1>8, <1>9, <1>10
  <2>3. QED
      BY <2>1, <2>2, <1>3, <1>5, <1>6, <1>9, NothingHappens DEF StopSees
<1>11. CASE c = k
  <2>1. FlushingOn(c) = {}
      BY <1>2, <1>11
  <2>2. /\ Ordered(logFiles[c], Buffer(c), collected[c], 0)'
        /\ Len(Buffer(c)') = Len(Buffer(c)) + 1
    <3>1. Ordered(logFiles[c], Buffer(c), collected[c], 0)
        BY <2>1, <1>5 DEF Sound
    <3>2. QED
        BY <3>1, <1>1, <1>2, <1>3, <1>4, <1>11, CollectSound
  <2>3. Len(Buffer(c)') \in Nat /\ Len(Buffer(c)') > 0
    <3>1. Len(Buffer(c)) \in Nat
        BY <1>1, BufferTypes
    <3>2. QED
        BY <3>1, <2>2
  <2>4. Buffer(c)' # <<>>
    <3>1. Len(<<>>) = 0
        BY EmptySeq
    <3>2. QED
        BY <3>1, <2>3
  <2>5. Sound(c)'
    <3>1. CASE flushers' = flushers
      <4>1. FlushingOn(c)' = {}
          BY <3>1, <2>1 DEF FlushingOn, Flushers
      <4>2. QED
          BY <4>1, <2>2 DEF Sound
    <3>2. CASE flushers'[t] = m
      <4>1. FlushingOn(c)' = {t}
          BY <3>2, <2>1, <1>8, <1>9, <1>11, FlushersNamed DEF FlushingOn, Flushers
      <4>2. Flushed(c, t)'
          BY <3>2, <4>1, <2>2, <2>3, <2>4, <1>8, <1>11 DEF Flushed, Ordered
      <4>3. QED
          BY <4>1, <4>2 DEF Sound
    <3>3. QED
        BY <3>1, <3>2, <1>9
  <2>6. QED
      BY <2>5, <1>6, <1>9 DEF StopSees
<1>12. QED
    BY <1>10, <1>11

LEMMA StreamEndsSound == ASSUME LogInv, NEW t \in Tasks, StreamEnds(t) PROVE SoundAfter
<1> SUFFICES ASSUME NEW c \in LogContainers \ spoiled' PROVE Sound(c)' /\ StopSees(c)'
    BY DEF SoundAfter
<1> USE DEF StreamEnds
<1>1. Sound(c) /\ StopSees(c)
    BY DEF LogInv
<1>2. Buffer(c)' = Buffer(c)
    BY DEF Buffer
<1>3. QED
    BY <1>1, <1>2, NothingHappens DEF StopSees

LEMMA WriteSound == ASSUME LogInv, NEW f \in Flushers, WriteEntry(f) PROVE SoundAfter
<1> SUFFICES ASSUME NEW c \in LogContainers \ spoiled' PROVE Sound(c)' /\ StopSees(c)'
    BY DEF SoundAfter
<1> USE DEF WriteEntry
<1>1. LogTypeOK /\ flushers \in [Flushers -> FlushType]
    BY DEF LogInv, LogTypes, LogTypeOK
<1>2. Sound(c) /\ StopSees(c) /\ c \notin spoiled
    BY DEF LogInv
<1>3. Buffer(c)' = Buffer(c)
    BY DEF Buffer
<1> DEFINE m == [flushers[f] EXCEPT !.written = flushers[f].written + 1]
<1>4. /\ m.on = flushers[f].on /\ m.todo = flushers[f].todo /\ m.pc = flushers[f].pc
      /\ m.list = flushers[f].list /\ m.written = flushers[f].written + 1
      /\ flushers[f].written \in Nat
    BY <1>1 DEF FlushType
<1>5. /\ flushers'[f] = m /\ \A g \in Flushers \ {f} : flushers'[g] = flushers[g]
    BY <1>1
<1> HIDE DEF m
<1>6. Sound(c)'
  <2>1. CASE c \notin flushers[f].on
    <3>1. \A g \in Flushers : /\ (c \in flushers'[g].on) <=> (c \in flushers[g].on)
                              /\ c \in flushers[g].on => flushers'[g] = flushers[g]
        BY <2>1, <1>4, <1>5
    <3>2. logFiles'[c] = logFiles[c]
        BY <2>1
    <3>3. QED
        BY <3>1, <3>2, <1>2, <1>3, NothingHappens
  <2>2. CASE c \in flushers[f].on
    <3>1. f \in FlushingOn(c) /\ Flushed(c, f)
        BY <2>2, <1>2 DEF FlushingOn, Sound
    <3>2. flushers[f].list = buffers[c] /\ Buffer(c) # <<>> /\ Buffer(c) = lists[flushers[f].list]
        BY <3>1 DEF Flushed, Buffer
    <3>3. FlushingOn(c)' = {f}
        BY <3>1, <1>4, <1>5 DEF Flushed, FlushingOn, Flushers
    <3>4. flushers[f].written < Len(Buffer(c))
        BY <3>2
    <3>5. logFiles'[c] = Append(logFiles[c], Buffer(c)[flushers[f].written + 1])
        BY <2>2, <3>2, <1>2
    <3>6. Ordered(logFiles'[c], Buffer(c), collected[c], flushers[f].written + 1)
      <4>1. /\ Buffer(c) \in Seq(Nat) /\ logFiles[c] \in Seq(Nat) /\ collected[c] \in Nat
          BY <1>1, BufferTypes
      <4>2. Ordered(logFiles[c], Buffer(c), collected[c], flushers[f].written)
          BY <3>1 DEF Flushed
      <4>3. QED
          BY <4>1, <4>2, <3>4, <3>5, <1>4, WriteOrdered
    <3>7. Flushed(c, f)'
      <4>1. Ordered(logFiles[c], Buffer(c), collected[c], flushers[f].written)'
          BY <3>6, <1>3, <1>4, <1>5 DEF Ordered
      <4>2. flushers'[f].list = buffers'[c] /\ Buffer(c)' # <<>> /\ flushers'[f].pc = "writing"
          BY <3>2, <1>3, <1>4, <1>5
      <4>3. flushers'[f].written <= Len(Buffer(c)')
        <5>1. Len(Buffer(c)) \in Nat
            BY <1>1, BufferTypes
        <5>2. flushers[f].written + 1 <= Len(Buffer(c))
            BY <5>1, <3>4, <1>4
        <5>3. QED
            BY <5>2, <1>3, <1>4, <1>5
      <4>4. QED
          BY <4>1, <4>2, <4>3, <3>3 DEF Flushed
    <3>8. QED
        BY <3>3, <3>7 DEF Sound
  <2>3. QED
      BY <2>1, <2>2
<1>7. StopSees(c)'
    BY <1>2, <1>3, <1>4, <1>5, FlushersNamed DEF StopSees
<1>8. QED
    BY <1>6, <1>7

LEMMA CloseSound == ASSUME LogInv, NEW f \in Flushers, CloseFile(f) PROVE SoundAfter
<1> SUFFICES ASSUME NEW c \in LogContainers \ spoiled' PROVE Sound(c)' /\ StopSees(c)'
    BY DEF SoundAfter
<1> USE DEF CloseFile
<1>1. LogTypeOK /\ flushers \in [Flushers -> FlushType]
    BY DEF LogInv, LogTypes, LogTypeOK
<1>2. Sound(c) /\ StopSees(c) /\ c \notin spoiled
    BY DEF LogInv
<1>3. Buffer(c)' = Buffer(c)
    BY DEF Buffer
<1> DEFINE m == [flushers[f] EXCEPT !.pc = "closing"]
<1>4. /\ m.on = flushers[f].on /\ m.todo = flushers[f].todo /\ m.pc = "closing"
      /\ m.list = flushers[f].list /\ m.written = flushers[f].written
      /\ flushers[f].written \in Nat
    BY <1>1 DEF FlushType
<1>5. /\ flushers'[f] = m /\ \A g \in Flushers \ {f} : flushers'[g] = flushers[g]
    BY <1>1
<1> HIDE DEF m
<1>6. Sound(c)'
  <2>1. CASE c \notin flushers[f].on
    <3>1. \A g \in Flushers : /\ (c \in flushers'[g].on) <=> (c \in flushers[g].on)
                              /\ c \in flushers[g].on => flushers'[g] = flushers[g]
        BY <2>1, <1>4, <1>5
    <3>2. QED
        BY <3>1, <1>2, <1>3, NothingHappens
  <2>2. CASE c \in flushers[f].on
    <3>1. f \in FlushingOn(c) /\ Flushed(c, f)
        BY <2>2, <1>2 DEF FlushingOn, Sound
    <3>2. flushers[f].list = buffers[c] /\ Buffer(c) # <<>> /\ Buffer(c) = lists[flushers[f].list]
        BY <3>1 DEF Flushed, Buffer
    <3>3. FlushingOn(c)' = {f}
        BY <3>1, <1>4, <1>5 DEF Flushed, FlushingOn, Flushers
    <3>4. flushers[f].written = Len(Buffer(c))
      <4>1. Len(Buffer(c)) \in Nat
          BY <1>1, BufferTypes
      <4>2. flushers[f].written >= Len(Buffer(c))
          BY <3>2
      <4>3. QED
          BY <4>1, <4>2, <3>1, <1>4 DEF Flushed
    <3>5. Flushed(c, f)'
      <4>1. Ordered(logFiles[c], Buffer(c), collected[c], flushers[f].written)'
          BY <3>1, <1>3, <1>4, <1>5 DEF Ordered, Flushed
      <4>2. flushers'[f].list = buffers'[c] /\ Buffer(c)' # <<>>
          BY <3>2, <1>3, <1>4, <1>5
      <4>3. flushers'[f].written = Len(Buffer(c)') /\ Len(Buffer(c)') \in Nat
          BY <3>4, <1>3, <1>4, <1>5
      <4>4. flushers'[f].written <= Len(Buffer(c)')
          BY <4>3
      <4>5. QED
          BY <4>1, <4>2, <4>3, <4>4, <3>3 DEF Flushed
    <3>6. QED
        BY <3>3, <3>5 DEF Sound
  <2>3. QED
      BY <2>1, <2>2
<1>7. StopSees(c)'
    BY <1>2, <1>3, <1>4, <1>5, FlushersNamed DEF StopSees
<1>8. QED
    BY <1>6, <1>7

LEMMA ClearSound == ASSUME LogInv, NEW f \in Flushers, ClearBuffer(f) PROVE SoundAfter
<1> SUFFICES ASSUME NEW c \in LogContainers \ spoiled' PROVE Sound(c)' /\ StopSees(c)'
    BY DEF SoundAfter
<1>1. /\ LogTypes /\ LogTypeOK /\ OwnBuffers /\ FlushShape
      /\ flushers \in [Flushers -> FlushType] /\ flushers[f].pc = "closing"
    BY DEF LogInv, LogTypes, LogTypeOK, ClearBuffer
<1>2. PICK flush \in Flush(f, flushers[f].todo) :
         /\ flushers' = [flushers EXCEPT ![f] = flush]
         /\ spoiled' = spoiled \cup {} \cup Overlaps(flush)
    BY DEF ClearBuffer, FlushNext
<1>3. /\ lists' = [l \in ListIds |-> IF \E d \in flushers[f].on : buffers[d] = l THEN <<>>
                                      ELSE lists[l]]
      /\ UNCHANGED <<collecting, buffers, logFiles, collected>>
    BY DEF ClearBuffer
<1>4. Sound(c) /\ StopSees(c) /\ c \notin spoiled /\ c \notin Overlaps(flush)
    BY <1>2 DEF LogInv
<1>5. PICK k \in LogContainers : flushers[f].on = {k}
    BY <1>1 DEF FlushShape, ShapeOf
<1>6. flushers[f].todo \in SUBSET LogContainers
    BY <1>1 DEF FlushType
<1>7. flushers'[f] = flush /\ \A g \in Flushers \ {f} : flushers'[g] = flushers[g]
    BY <1>1, <1>2
<1>8. CASE c # k
  <2>1. Buffer(c)' = Buffer(c)
    <3>1. buffers[c] # 0 => buffers[c] \in ListIds /\ buffers[k] # buffers[c]
        BY <1>1, <1>5, <1>8 DEF OwnBuffers, LogTypeOK
    <3>2. QED
        BY <3>1, <1>3, <1>5 DEF Buffer
  <2>2. Sound(c)'
      BY <2>1, <1>1, <1>2, <1>3, <1>4, <1>5, <1>6, <1>7, <1>8, TurnsTo
  <2>3. CASE f = "stop"
    <3>1. Buffer(c) # <<>> => c \in flushers[f].todo
        BY <2>3, <1>1, <1>4, <1>5, <1>8 DEF StopSees
    <3>2. Buffer(c) # <<>> => c \in flush.todo \cup flush.on
        BY <3>1, <2>3, <1>1, <1>2, <1>6, StopTurns
    <3>3. ~collecting
        BY <2>3, <1>1, <1>4 DEF StopSees
    <3>4. QED
        BY <2>1, <2>2, <2>3, <3>2, <3>3, <1>3, <1>7 DEF StopSees
  <2>4. CASE f # "stop"
      BY <2>1, <2>2, <2>4, <1>3, <1>4, <1>7, FlushersNamed DEF StopSees
  <2>5. QED
      BY <2>3, <2>4
<1>9. CASE c = k
  <2>1. f \in FlushingOn(c) /\ Flushed(c, f)
      BY <1>4, <1>5, <1>9 DEF FlushingOn, Sound
  <2>2. c \notin flush.on
      BY <2>1, <1>4 DEF Overlaps
  <2>3. FlushingOn(c)' = {}
      BY <2>1, <2>2, <1>7 DEF Flushed, FlushingOn, Flushers
  <2>4. Buffer(c)' = <<>>
    <3>1. buffers[c] # 0 => buffers[c] \in ListIds
        BY <1>1 DEF LogTypeOK
    <3>2. QED
        BY <3>1, <1>3, <1>5, <1>9 DEF Buffer
  <2>5. Ordered(logFiles[c], <<>>, collected[c], 0)
    <3>1. Ordered(logFiles[c], Buffer(c), collected[c], Len(Buffer(c)))
        BY <2>1, <1>1 DEF Flushed
    <3>2. QED
        BY <3>1, <1>1, BufferTypes, ClearOrdered
  <2>6. Ordered(logFiles[c], Buffer(c), collected[c], 0)'
      BY <2>4, <2>5, <1>3 DEF Ordered
  <2>7. StopSees(c)'
    <3>1. CASE f = "stop"
        BY <3>1, <2>4, <1>1, <1>3, <1>4 DEF StopSees
    <3>2. CASE f # "stop"
        BY <3>2, <2>4, <1>3, <1>4, <1>7, FlushersNamed DEF StopSees
    <3>3. QED
        BY <3>1, <3>2
  <2>8. QED
      BY <2>3, <2>6, <2>7 DEF Sound
<1>10. QED
    BY <1>8, <1>9

LEMMA FailSound == ASSUME LogInv, NEW f \in Flushers, FlushFails(f) PROVE SoundAfter
<1> SUFFICES ASSUME NEW c \in LogContainers \ spoiled' PROVE Sound(c)' /\ StopSees(c)'
    BY DEF SoundAfter
<1>1. /\ LogTypes /\ LogTypeOK
      /\ flushers \in [Flushers -> FlushType] /\ flushers[f].pc \in {"writing", "closing"}
    BY DEF LogInv, LogTypes, LogTypeOK, FlushFails
<1>2. PICK flush \in Flush(f, flushers[f].todo) :
         /\ flushers' = [flushers EXCEPT ![f] = flush]
         /\ spoiled' = spoiled \cup flushers[f].on \cup Overlaps(flush)
    BY DEF FlushFails, FlushNext
<1>3. UNCHANGED <<collecting, lists, buffers, logFiles, collected>>
    BY DEF FlushFails
<1>4. Sound(c) /\ StopSees(c) /\ c \notin Overlaps(flush) /\ c \notin flushers[f].on
    BY <1>2 DEF LogInv
<1>5. flushers[f].todo \in SUBSET LogContainers
    BY <1>1 DEF FlushType
<1>6. flushers'[f] = flush /\ \A g \in Flushers \ {f} : flushers'[g] = flushers[g]
    BY <1>1, <1>2
<1>7. Buffer(c)' = Buffer(c)
    BY <1>3 DEF Buffer
<1>8. Sound(c)'
    BY <1>1, <1>2, <1>3, <1>4, <1>5, <1>6, <1>7, TurnsTo
<1>9. CASE f = "stop"
  <2>1. Buffer(c) # <<>> => c \in flushers[f].todo
      BY <1>1, <1>4, <1>9 DEF StopSees
  <2>2. Buffer(c) # <<>> => c \in flush.todo \cup flush.on
      BY <2>1, <1>1, <1>2, <1>5, <1>9, StopTurns
  <2>3. ~collecting
      BY <1>1, <1>4, <1>9 DEF StopSees
  <2>4. QED
      BY <2>2, <2>3, <1>3, <1>6, <1>7, <1>8, <1>9 DEF StopSees
<1>10. CASE f # "stop"
    BY <1>3, <1>4, <1>6, <1>7, <1>8, <1>10, FlushersNamed DEF StopSees
<1>11. QED
    BY <1>9, <1>10

LEMMA LogInitially == LogInit => LogInv
<1> SUFFICES ASSUME LogInit PROVE LogInv
    OBVIOUS
<1>1. LogTypes
    BY LogTypesInit
<1>2. ASSUME NEW c \in LogContainers PROVE Sound(c) /\ StopSees(c)
  <2>1. NoFlush.on = {} /\ NoFlush.pc = "idle"
      BY DEF NoFlush
  <2>2. FlushingOn(c) = {} /\ flushers["stop"].pc = "idle"
      BY <2>1, FlushersNamed DEF LogInit, FlushingOn
  <2>3. Buffer(c) = <<>> /\ logFiles[c] = <<>> /\ collected[c] = 0
      BY DEF LogInit, Buffer
  <2>4. Ordered(<<>>, <<>>, 0, 0)
    <3>1. ASSUME NEW e, Len(e) = 0 PROVE Ordered(e, e, 0, 0)
        BY <3>1 DEF Ordered
    <3>2. QED
        BY <3>1, EmptySeq
  <2>5. QED
      BY <2>2, <2>3, <2>4 DEF Sound, StopSees
<1>3. QED
    BY <1>1, <1>2 DEF LogInv

LEMMA LogStep == ASSUME LogInv, [LogNext]_logVars PROVE LogInv'
<1>1. LogTypes'
    BY LogTypesStep DEF LogInv
<1>2. SoundAfter
  <2>1. CASE StartCollecting
      BY <2>1, StartSound
  <2>2. CASE StopCollecting
      BY <2>2, StopSound
  <2>3. CASE StopEnds
      BY <2>3, StopEndsSound
  <2>4. CASE WorkerFlushes
      BY <2>4, WorkerSound
  <2>5. ASSUME NEW c \in LogContainers, AddContainer(c) \/ RemoveContainer(c) PROVE SoundAfter
      BY <2>5, AddSound, RemoveSound
  <2>6. ASSUME NEW t \in Tasks,
               ReadLine(t) \/ StreamEnds(t) \/ TaskStarts(t) \/ TaskCancelled(t)
        PROVE  SoundAfter
      BY <2>6, ReadSound, StreamEndsSound, StartsSound, CancelledSound
  <2>7. ASSUME NEW f \in Flushers, FlushStep(f) PROVE SoundAfter
      BY <2>7, WriteSound, CloseSound, ClearSound, FailSound DEF FlushStep
  <2>8. CASE UNCHANGED logVars
    <3>1. ASSUME NEW c \in LogContainers \ spoiled' PROVE Sound(c)' /\ StopSees(c)'
      <4>1. Sound(c) /\ StopSees(c) /\ Buffer(c)' = Buffer(c)
          BY <2>8 DEF logVars, LogInv, Buffer
      <4>2. Sound(c)'
          BY <4>1, <2>8, NothingHappens DEF logVars
      <4>3. QED
          BY <4>1, <4>2, <2>8 DEF logVars, StopSees
    <3>2. QED
        BY <3>1 DEF SoundAfter
  <2>9. reading \subseteq Tasks
      BY DEF LogInv, LogTypes, LogTypeOK
  <2>10. QED
      BY <2>1, <2>2, <2>3, <2>4, <2>5, <2>6, <2>7, <2>8, <2>9 DEF LogNext
<1>3. QED
    BY <1>1, <1>2 DEF LogInv, SoundAfter

LEMMA SoundIsSaved == LogInv => MonitoredHasTask /\ SavedOnce
<1> SUFFICES ASSUME LogInv PROVE MonitoredHasTask /\ SavedOnce
    OBVIOUS
<1>1. MonitoredHasTask /\ LogTypeOK
    BY DEF LogInv, LogTypes
<1>2. ASSUME NEW c \in LogContainers, c \notin spoiled, FlushingOn(c) = {}
      PROVE  logFiles[c] \o Buffer(c) = [i \in 1 .. collected[c] |-> i]
  <2>1. Ordered(logFiles[c], Buffer(c), collected[c], 0)
      BY <1>2 DEF LogInv, Sound
  <2>2. QED
      BY <2>1, <1>1, BufferTypes, OrderedSaved
<1>3. QED
    BY <1>1, <1>2 DEF SavedOnce

(* The state of the collector has its type.                                *)
THEOREM LogTypeCorrect == LogSpec => []LogTypeOK
<1>1. LogInit => LogTypes
    BY LogTypesInit
<1>2. LogTypes /\ [LogNext]_logVars => LogTypes'
    BY LogTypesStep
<1>3. LogTypes => LogTypeOK
    BY DEF LogTypes
<1>4. QED
    BY <1>1, <1>2, <1>3, PTL DEF LogSpec

(* The log collector keeps a task for each container it monitors, and saves *)
(* each line once and in order, whatever is added, removed, cancelled and   *)
(* stopped meanwhile.                                                       *)
THEOREM LogsCollectedHolds == LogSpec => []LogsCollected
<1>1. LogInit => LogInv
    BY LogInitially
<1>2. LogInv /\ [LogNext]_logVars => LogInv'
    BY LogStep
<1>3. LogInv => LogsCollected
    BY SoundIsSaved DEF LogsCollected
<1>4. QED
    BY <1>1, <1>2, <1>3, PTL DEF LogSpec

(***************************************************************************)
(* The search index over the log files.                                    *)
(***************************************************************************)

(* A task that is at a file.                                               *)
Going(t) == t.pc \in {"rows", "ids", "terms"}

Spoiled == lame \cup skewed

(* The lines of a file are numbered upwards, so that there is one of each  *)
(* number at most.                                                         *)
LinesFit ==
    \A g \in DOMAIN files : \A n \in DOMAIN files[g] : files[g][n] >= n

(* A task knows lines that are there, ids that were given out, and, unless *)
(* a rotation came in between, the file that its path stands for.          *)
TaskFits(t) ==
    /\ t.todo \subseteq Listed
    /\ \A x \in t.found : x[1] < nextId
    /\ t.pc = "clear" => t.todo = {}
    /\ t.pc = "rows" => t.asked = t.from
    /\ t.pc = "ids" => t.asked < t.to
    /\ Going(t) =>
          /\ t.path \in Listed /\ t.file \in DOMAIN files
          /\ t.from < t.to /\ t.to <= t.from + BatchSize /\ t.to <= Len(files[t.file])
          /\ t.asked \in t.from .. t.to
          /\ t.path \notin skewed => t.file = FileAt(t.path)

TasksFit ==
    /\ \A i \in Indexers : TaskFits(indexers[i])
    /\ ~searching => \A i \in Indexers : indexers[i].pc = "idle"
    /\ indexers["worker"].pc # "clear"

(* Only the terms of a line are found under the id of its row.             *)
Means(x, r) == x[1] = r.id => x = <<r.id, r.text>>

RowFits(r) ==
    /\ r.id < nextId /\ r.path \in Listed
    /\ r.path \notin skewed =>
          /\ r.line \in DOMAIN files[FileAt(r.path)] /\ r.text = files[FileAt(r.path)][r.line]
          /\ \A x \in terms : Means(x, r)
          /\ \A i \in Indexers : \A x \in indexers[i].found : Means(x, r)

IndexRowsFit ==
    /\ \A r, q \in rows : r.id = q.id => r = q
    /\ \A r \in rows : RowFits(r)
    /\ \A x \in terms : x[1] < nextId

(* The terms of a row are there, or some task is going to insert them.     *)
WillInsert(t, r) ==
    /\ t.path = r.path
    /\ \/ t.pc = "ids" /\ r.line \in (t.asked + 1) .. t.to
       \/ t.pc \in {"ids", "terms"} /\ <<r.id, r.text>> \in t.found

HasTerms(r) == <<r.id, r.text>> \in terms \/ \E i \in Indexers : WillInsert(indexers[i], r)

Termed == \A r \in rows : r.path \notin Spoiled => HasTerms(r)

(* A line without a row below one that has a row, or among those a task    *)
(* has dealt with: a full indexing is going to come to it.                 *)
Passed(t) == IF t.pc = "rows" THEN t.from ELSE t.to

NotIndexed(p, n) == \A r \in rows : ~(r.path = p /\ r.line = n)
Below(p, n) ==
    \/ \E r \in rows : r.path = p /\ r.line > n
    \/ \E i \in Indexers : Going(indexers[i]) /\ indexers[i].path = p /\ n <= Passed(indexers[i])

WillFill(t, p, n) ==
    \/ t.pc # "idle" /\ p \in t.todo
    \/ /\ Going(t) /\ t.path = p
       /\ \/ t.pc = "rows" /\ n \in (t.from + 1) .. t.to
          \/ n > t.to /\ t.to = t.from + BatchSize

Filled ==
    \A p \in Listed \ Spoiled : \A n \in 1 .. LogLines :
        NotIndexed(p, n) /\ Below(p, n) =>
            \E i \in Indexers \ {"worker"} : WillFill(indexers[i], p, n)

SearchInv == SearchTypeOK /\ LinesFit /\ TasksFit /\ IndexRowsFit /\ Termed /\ Filled

LEMMA SearchNumbers ==
    /\ BatchSize \in Nat /\ BatchSize >= 1 /\ LogLines \in Nat /\ Rotations \in Nat
    /\ SearchEvents \in Nat
    /\ \A i \in Rebuilds : i # "start" /\ i # "worker"
    /\ "start" \in Indexers /\ "worker" \in Indexers /\ Rebuilds \subseteq Indexers
    BY SearchAssumption DEF SearchAssumption, Indexers

LEMMA LeastOf ==
    ASSUME NEW T \in SUBSET Nat, T # {} PROVE \E m \in T : \A x \in T : m <= x
<1> DEFINE Less == OpToRel(<, Nat)
<1>1. Less = {ss \in Nat \X Nat : ss[1] < ss[2]} /\ IsWellFoundedOn(Less, Nat)
    BY NatLessThanWellFounded DEF OpToRel
<1> HIDE DEF Less
<1>2. PICK m \in T : \A x \in T : ~(<<x, m>> \in Less)
    BY <1>1, WFMin
<1>3. ASSUME NEW x \in T PROVE m <= x
  <2>1. x \in Nat /\ m \in Nat
      OBVIOUS
  <2>2. ~(x < m)
      BY <1>1, <1>2, <2>1
  <2> QED
      BY <2>1, <2>2
<1> QED
    BY <1>3

(* Numbers that are bounded have a greatest one.                           *)
LEMMA GreatestOf ==
    ASSUME NEW b \in Nat, NEW T \in SUBSET (0 .. b), T # {}
    PROVE  Max(T) \in T /\ \A x \in T : x <= Max(T)
<1> DEFINE U == {u \in Nat : \A x \in T : x <= u}
<1>1. b \in U /\ U \in SUBSET Nat
    OBVIOUS
<1>2. PICK m \in U : \A u \in U : m <= u
    BY <1>1, LeastOf
<1>3. m \in T
  <2> SUFFICES ASSUME m \notin T PROVE FALSE
      OBVIOUS
  <2>1. \A x \in T : x < m /\ x \in Nat
      BY <1>2
  <2>2. m \in Nat /\ m - 1 \in Nat /\ \A x \in T : x <= m - 1
    <3>1. PICK y \in T : TRUE
        OBVIOUS
    <3>2. m \in Nat /\ y < m /\ y \in Nat
        BY <1>2, <2>1, <3>1
    <3>3. \A x \in T : x <= m - 1
      <4> SUFFICES ASSUME NEW x \in T PROVE x <= m - 1
          OBVIOUS
      <4>1. x < m /\ x \in Nat
          BY <2>1
      <4> QED
          BY <3>2, <4>1
    <3> QED
        BY <3>2, <3>3
  <2>3. m - 1 \in U
      BY <2>2
  <2> QED
      BY <1>2, <2>2, <2>3
<1>4. \E x \in T : \A y \in T : x >= y
  <2>1. \A y \in T : m >= y
      BY <1>2
  <2> QED
      BY <1>3, <2>1
<1>5. Max(T) \in T /\ \A y \in T : Max(T) >= y
    BY <1>4 DEF Max
<1> QED
    BY <1>5

(* The files, and what stands under a path.                                *)
LEMMA FilesAre ==
    ASSUME SearchTypeOK, LinesFit
    PROVE  /\ files \in Seq(Seq(1 .. LogLines)) /\ Len(files) \in Nat /\ Len(files) >= 1
           /\ Len(files) <= Rotations + 1 /\ DOMAIN files = 1 .. Len(files)
           /\ \A g \in DOMAIN files :
                 /\ files[g] \in Seq(1 .. LogLines)
                 /\ Len(files[g]) \in Nat /\ Len(files[g]) <= LogLines
                 /\ DOMAIN files[g] = 1 .. Len(files[g])
                 /\ \A n \in DOMAIN files[g] : files[g][n] \in 1 .. LogLines /\ files[g][n] >= n
           /\ \A p \in Listed : FileAt(p) \in DOMAIN files /\ p \in Nat /\ p <= Rotations
           /\ Listed \subseteq Paths
<1> USE SearchNumbers
<1>1. /\ files \in Seq(Seq(1 .. LogLines)) /\ Len(files) \in Nat /\ Len(files) >= 1
      /\ Len(files) <= Rotations + 1 /\ DOMAIN files = 1 .. Len(files)
    BY LenProperties DEF SearchTypeOK
<1>2. ASSUME NEW g \in DOMAIN files
      PROVE  /\ files[g] \in Seq(1 .. LogLines)
             /\ Len(files[g]) \in Nat /\ Len(files[g]) <= LogLines
             /\ DOMAIN files[g] = 1 .. Len(files[g])
             /\ \A n \in DOMAIN files[g] : files[g][n] \in 1 .. LogLines /\ files[g][n] >= n
  <2>1. files[g] \in Seq(1 .. LogLines)
      BY <1>1, ElementOfSeq
  <2>2. Len(files[g]) \in Nat /\ DOMAIN files[g] = 1 .. Len(files[g])
      BY <2>1, LenProperties
  <2>3. \A n \in DOMAIN files[g] : files[g][n] \in 1 .. LogLines /\ files[g][n] >= n
      BY <2>1, <2>2, ElementOfSeq DEF LinesFit
  <2>4. Len(files[g]) <= LogLines
    <3> SUFFICES ASSUME Len(files[g]) >= 1 PROVE Len(files[g]) <= LogLines
        BY <2>2
    <3>1. Len(files[g]) \in DOMAIN files[g]
        BY <2>2
    <3> DEFINE m == Len(files[g])
               k == files[g][m]
    <3>2. m \in Nat /\ k \in 1 .. LogLines /\ k >= m
        BY <2>2, <2>3, <3>1
    <3> HIDE DEF m, k
    <3>3. m <= LogLines
        BY <3>2
    <3> QED
        BY <3>3 DEF m
  <2> QED
      BY <2>1, <2>2, <2>3, <2>4
<1>3. \A p \in Listed : FileAt(p) \in DOMAIN files /\ p \in Nat /\ p <= Rotations /\ p \in Paths
    BY <1>1 DEF Listed, FileAt, Paths
<1> QED
    BY <1>1, <1>2, <1>3

(* The last line that is indexed is one, or there is none.                 *)
LEMMA LastIndexed ==
    ASSUME SearchTypeOK, NEW p
    PROVE  /\ LastLine(p) \in 0 .. LogLines
           /\ LastLine(p) = 0 \/ \E r \in rows : r.path = p /\ r.line = LastLine(p)
           /\ \A r \in rows : r.path = p => r.line <= LastLine(p)
<1> DEFINE T == {0} \cup {r.line : r \in RowsOfPath(p)}
<1>1. T \in SUBSET (0 .. LogLines) /\ T # {}
    BY SearchNumbers DEF RowsOfPath, SearchTypeOK, IndexRow
<1>2. Max(T) \in T /\ \A x \in T : x <= Max(T)
    BY <1>1, GreatestOf, SearchNumbers
<1>3. LastLine(p) = Max(T)
    BY DEF LastLine
<1> QED
    BY <1>1, <1>2, <1>3 DEF RowsOfPath

(* A gap is among the lines of the file.                                   *)
LEMMA GapInFile ==
    ASSUME SearchInv, NEW p \in Listed, p \notin skewed, NEW n \in 1 .. LogLines, Below(p, n)
    PROVE  n <= Len(files[FileAt(p)])
<1> USE SearchNumbers
<1>1. FileAt(p) \in DOMAIN files /\ Len(files[FileAt(p)]) \in Nat
      /\ DOMAIN files[FileAt(p)] = 1 .. Len(files[FileAt(p)])
    BY FilesAre DEF SearchInv
<1>2. CASE \E r \in rows : r.path = p /\ r.line > n
  <2>1. PICK r \in rows : r.path = p /\ r.line > n
      BY <1>2
  <2>2. r.line \in DOMAIN files[FileAt(p)]
      BY <2>1 DEF SearchInv, IndexRowsFit, RowFits
  <2> QED
      BY <1>1, <2>1, <2>2
<1>3. CASE \E i \in Indexers : Going(indexers[i]) /\ indexers[i].path = p
                               /\ n <= Passed(indexers[i])
  <2>1. PICK i \in Indexers : Going(indexers[i]) /\ indexers[i].path = p
                              /\ n <= Passed(indexers[i])
      BY <1>3
  <2> DEFINE t == indexers[i]
  <2>2. t \in IndexerType /\ TaskFits(t)
      BY DEF SearchInv, SearchTypeOK, TasksFit
  <2>3. t.file = FileAt(p) /\ t.from < t.to /\ t.to <= Len(files[t.file])
      BY <2>1, <2>2 DEF TaskFits
  <2>4. t.from \in Nat /\ t.to \in Nat /\ Passed(t) <= t.to
      BY <2>2, <2>3 DEF IndexerType, Passed
  <2> HIDE DEF t
  <2>5. n <= Passed(t) /\ Passed(t) \in Nat
      BY <2>1, <2>4 DEF Passed, t
  <2> QED
      BY <1>1, <2>3, <2>4, <2>5
<1> QED
    BY <1>2, <1>3 DEF Below

(* What a step of one task has to keep: what it found means the rows it    *)
(* names, the terms it was going to insert, and the gaps it was going to   *)
(* fill.                                                                   *)
StillMeans(u) == \A r \in rows : r.path \notin skewed => \A x \in u.found : Means(x, r)

StillInserts(t, u) ==
    \A r \in rows : r.path \notin lame' \cup skewed /\ WillInsert(t, r) =>
        WillInsert(u, r) \/ <<r.id, r.text>> \in terms'

StillFills(i, u) ==
    \A p \in Listed \ (lame' \cup skewed) : \A n \in 1 .. LogLines : NotIndexed(p, n) =>
        /\ Going(u) /\ u.path = p /\ n <= Passed(u) => Below(p, n)
        /\ i # "worker" /\ Below(p, n) /\ WillFill(indexers[i], p, n) => WillFill(u, p, n)

LEMMA TaskBecomes ==
    ASSUME SearchInv, NEW i \in Indexers, NEW u \in IndexerType, Becomes(i, u),
           UNCHANGED <<files, rows, nextId, skewed>>,
           terms \subseteq terms', terms' \subseteq terms \cup indexers[i].found,
           lame \subseteq lame', lame' \subseteq Paths,
           searching' = TRUE, searchEvents' \in 0 .. SearchEvents,
           TaskFits(u), i = "worker" => u.pc # "clear",
           StillMeans(u), StillInserts(indexers[i], u), StillFills(i, u)
    PROVE  SearchInv'
<1>1. /\ SearchTypeOK /\ LinesFit /\ TasksFit /\ IndexRowsFit /\ Termed /\ Filled
      /\ indexers \in [Indexers -> IndexerType]
    BY DEF SearchInv, SearchTypeOK
<1>2. /\ indexers' = [indexers EXCEPT ![i] = u] /\ indexers' \in [Indexers -> IndexerType]
      /\ indexers'[i] = u /\ \A j \in Indexers \ {i} : indexers'[j] = indexers[j]
    BY <1>1 DEF Becomes
<1>3. \A x \in indexers[i].found : x \in Nat \X (1 .. LogLines)
    BY <1>1 DEF IndexerType
<1>4. SearchTypeOK'
    BY <1>1, <1>2, <1>3 DEF SearchTypeOK, Paths, IndexRow
<1>5. LinesFit'
    BY <1>1 DEF LinesFit
<1>6. TasksFit'
  <2>1. \A t : TaskFits(t)' = TaskFits(t)
      BY DEF TaskFits, FileAt, Listed
  <2>2. "worker" \in Indexers
      BY DEF Indexers
  <2>3. \A j \in Indexers : TaskFits(indexers'[j])
      BY <1>1, <1>2 DEF TasksFit
  <2>4. indexers'["worker"].pc # "clear"
      BY <1>1, <1>2, <2>2 DEF TasksFit
  <2>5. \A j \in Indexers : TaskFits(indexers[j])'
      BY <2>3 DEF TaskFits, FileAt, Listed
  <2> QED
      BY <2>4, <2>5 DEF TasksFit
<1>7. IndexRowsFit'
  <2>1. \A j \in Indexers : \A x \in indexers'[j].found :
            \A r \in rows : r.path \notin skewed => Means(x, r)
      BY <1>1, <1>2 DEF IndexRowsFit, RowFits, StillMeans
  <2>2. \A x \in terms' : \A r \in rows : r.path \notin skewed => Means(x, r)
      BY <1>1 DEF IndexRowsFit, RowFits
  <2>3. \A x \in terms' : x[1] < nextId
      BY <1>1 DEF IndexRowsFit, TasksFit, TaskFits
  <2>4. \A r \in rows : RowFits(r)'
      BY <1>1, <2>1, <2>2 DEF IndexRowsFit, RowFits, Means, Listed, FileAt
  <2> QED
      BY <1>1, <2>3, <2>4 DEF IndexRowsFit
<1>8. Termed'
  <2> SUFFICES ASSUME NEW r \in rows, r.path \notin lame' \cup skewed
               PROVE  HasTerms(r)'
      BY DEF Termed, Spoiled
  <2>1. HasTerms(r)
      BY <1>1 DEF Termed, Spoiled
  <2>2. CASE <<r.id, r.text>> \in terms
      BY <2>2 DEF HasTerms
  <2>3. CASE \E j \in Indexers : WillInsert(indexers[j], r)
    <3>1. PICK j \in Indexers : WillInsert(indexers[j], r)
        BY <2>3
    <3>2. CASE j = i
      <4>1. WillInsert(u, r) \/ <<r.id, r.text>> \in terms'
          BY <3>1, <3>2 DEF StillInserts
      <4>2. WillInsert(u, r) => WillInsert(indexers[i], r)'
          BY <1>2 DEF WillInsert
      <4> QED
          BY <4>1, <4>2 DEF HasTerms, Indexers
    <3>3. CASE j # i
      <4>1. WillInsert(indexers[j], r)'
          BY <1>2, <3>1, <3>3 DEF WillInsert
      <4> QED
          BY <4>1 DEF HasTerms, Indexers
    <3> QED
        BY <3>2, <3>3
  <2> QED
      BY <2>1, <2>2, <2>3 DEF HasTerms
<1>9. Filled'
  <2> SUFFICES ASSUME NEW p \in Listed, p \notin lame' \cup skewed, NEW n \in 1 .. LogLines,
                      NotIndexed(p, n), Below(p, n)'
               PROVE  \E j \in Indexers \ {"worker"} : WillFill(indexers'[j], p, n)
    <3>1. Listed' = Listed
        BY DEF Listed, FileAt
    <3>2. ASSUME NEW q \in Listed', q \notin Spoiled', NEW m \in 1 .. LogLines,
                 NotIndexed(q, m)', Below(q, m)'
          PROVE  \E j \in (Indexers \ {"worker"}) : WillFill(indexers[j], q, m)'
        BY <3>1, <3>2, Zenon DEF Spoiled, NotIndexed, WillFill, Going
    <3> QED
        BY <3>2 DEF Filled, Indexers
  <2>1. Below(p, n)
    <3>1. CASE \E r \in rows : r.path = p /\ r.line > n
        BY <3>1 DEF Below
    <3>2. CASE \E j \in Indexers : Going(indexers'[j]) /\ indexers'[j].path = p
                                   /\ n <= Passed(indexers'[j])
      <4>1. PICK j \in Indexers : Going(indexers'[j]) /\ indexers'[j].path = p
                                  /\ n <= Passed(indexers'[j])
          BY <3>2
      <4>2. CASE j = i
          BY <1>2, <4>1, <4>2 DEF StillFills
      <4>3. CASE j # i
          BY <1>2, <4>1, <4>3 DEF Below
      <4> QED
          BY <4>2, <4>3
    <3> QED
        BY <3>1, <3>2 DEF Below, Going, Passed
  <2>2. PICK j \in Indexers \ {"worker"} : WillFill(indexers[j], p, n)
      BY <1>1, <2>1 DEF Filled, Spoiled
  <2>3. CASE j = i
      BY <1>2, <2>1, <2>2, <2>3 DEF StillFills
  <2>4. CASE j # i
      BY <1>2, <2>2, <2>4
  <2> QED
      BY <2>3, <2>4
<1> QED
    BY <1>4, <1>5, <1>6, <1>7, <1>8, <1>9 DEF SearchInv

(* The task of a step, before it.                                          *)
LEMMA TaskIs ==
    ASSUME SearchInv, NEW i \in Indexers
    PROVE  /\ indexers[i] \in IndexerType /\ TaskFits(indexers[i])
           /\ indexers[i].pc # "idle" => searching = TRUE
           /\ i = "worker" => indexers[i].pc # "clear"
           /\ searching \in BOOLEAN /\ lame \subseteq Paths /\ searchEvents \in 0 .. SearchEvents
           /\ NotIndexing \in IndexerType
<1>1. SearchTypeOK /\ TasksFit
    BY DEF SearchInv
<1>2. NotIndexing \in IndexerType
    BY SearchNumbers DEF NotIndexing, IndexerType, Paths
<1>3. /\ indexers[i] \in IndexerType /\ searching \in BOOLEAN /\ lame \subseteq Paths
      /\ searchEvents \in 0 .. SearchEvents
    BY <1>1 DEF SearchTypeOK
<1> QED
    BY <1>1, <1>2, <1>3 DEF TasksFit

LEMMA TasksBegin ==
    ASSUME SearchInv, NEW i \in Indexers, indexers[i].pc = "idle",
           \/ StartSearch /\ i = "start"
           \/ i \in Rebuilds /\ Rebuild(i)
           \/ WakeIndexer /\ i = "worker"
    PROVE  SearchInv'
<1>1. NotIndexing \in IndexerType /\ Listed \subseteq Paths
    BY TaskIs, FilesAre DEF SearchInv
<1>2. PICK u \in IndexerType :
          /\ Becomes(i, u) /\ u.pc \in {"clear", "files"} /\ u.found = {} /\ u.todo \subseteq Listed
          /\ u.pc = "clear" => u.todo = {} /\ i # "worker"
  <2> DEFINE fresh == [NotIndexing EXCEPT !.pc = "clear"]
  <2>1. fresh \in IndexerType /\ fresh.pc = "clear" /\ fresh.todo = {} /\ fresh.found = {}
      BY <1>1 DEF NotIndexing, IndexerType
  <2> HIDE DEF fresh
  <2>2. CASE WakeIndexer /\ i = "worker"
    <3>1. PICK S \in SUBSET Listed : Becomes(i, [NotIndexing EXCEPT !.pc = "files", !.todo = S])
        BY <2>2 DEF WakeIndexer
    <3> DEFINE u == [NotIndexing EXCEPT !.pc = "files", !.todo = S]
    <3>2. u \in IndexerType /\ u.pc = "files" /\ u.todo = S /\ u.found = {}
        BY <1>1 DEF NotIndexing, IndexerType
    <3>3. Becomes(i, u)
        BY <3>1
    <3> HIDE DEF u
    <3> QED
        BY <3>2, <3>3
  <2>3. CASE StartSearch /\ i = "start"
      BY <2>1, <2>3 DEF StartSearch, fresh
  <2>4. CASE i \in Rebuilds /\ Rebuild(i)
    <3>1. Becomes(i, fresh) /\ i # "worker"
        BY <2>4, SearchNumbers DEF Rebuild, fresh
    <3> QED
        BY <2>1, <3>1
  <2> QED
      BY <2>2, <2>3, <2>4
<1>3. /\ UNCHANGED <<files, rows, terms, nextId, lame, skewed>> /\ searching' = TRUE
      /\ searchEvents' \in 0 .. SearchEvents
  <2>1. searchEvents \in 0 .. SearchEvents /\ SearchEvents \in Nat /\ searching \in BOOLEAN
      BY SearchNumbers, TaskIs
  <2>2. UNCHANGED <<files, rows, terms, nextId, lame, skewed>>
      BY DEF StartSearch, Rebuild, WakeIndexer
  <2>3. searching' = TRUE
      BY <2>1, Zenon DEF StartSearch, Rebuild, WakeIndexer
  <2>4. searchEvents' = searchEvents \/ Counts
      BY DEF StartSearch, Rebuild, WakeIndexer
  <2>5. searchEvents' \in 0 .. SearchEvents
      BY <2>1, <2>4 DEF Counts
  <2> QED
      BY <2>2, <2>3, <2>5
<1>4. TaskFits(u) /\ StillMeans(u)
    BY <1>2 DEF TaskFits, StillMeans, Going
<1>5. StillInserts(indexers[i], u) /\ StillFills(i, u)
    BY <1>2 DEF StillInserts, StillFills, WillInsert, WillFill, Going
<1> QED
    BY <1>2, <1>3, <1>4, <1>5, TaskIs, TaskBecomes

(* The next batch from line n on; there is none when that was the last.    *)
LEMMA BatchTaken ==
    ASSUME SearchInv, NEW t \in IndexerType, t.file \in DOMAIN files, NEW n \in 0 .. LogLines,
           NEW u, u = Take(t, n)
    PROVE  /\ u.pc = "rows" /\ u.from = n /\ u.asked = n /\ u.found = {}
           /\ u.path = t.path /\ u.file = t.file /\ u.todo = t.todo
           /\ u.to \in 0 .. LogLines /\ u.to <= n + BatchSize /\ u.to <= Len(files[t.file])
           /\ u.to = n + BatchSize \/ u.to = Len(files[t.file])
           /\ u \in IndexerType
<1> DEFINE last == Len(files[t.file])
<1>1. last \in 0 .. LogLines
    BY FilesAre, SearchNumbers DEF SearchInv
<1>2. /\ u.pc = "rows" /\ u.from = n /\ u.asked = n /\ u.found = {}
      /\ u.path = t.path /\ u.file = t.file /\ u.todo = t.todo
      /\ u.to = IF n + BatchSize <= last THEN n + BatchSize ELSE last
      /\ u = [pc |-> "rows", todo |-> t.todo, path |-> t.path, file |-> t.file, from |-> n,
              to |-> u.to, asked |-> n, found |-> {}]
  <2>1. u = [t EXCEPT !.pc = "rows", !.from = n, !.asked = n, !.found = {},
                      !.to = IF n + BatchSize <= last THEN n + BatchSize ELSE last]
      BY DEF Take
  <2> HIDE DEF last
  <2> QED
      BY <2>1 DEF IndexerType
<1> HIDE DEF last
<1>3. u.to \in 0 .. LogLines /\ u.to <= n + BatchSize /\ u.to <= last
      /\ (u.to = n + BatchSize \/ u.to = last)
    BY <1>1, <1>2, SearchNumbers
<1>4. u \in IndexerType
    BY <1>2, <1>3 DEF IndexerType
<1> QED
    BY <1>2, <1>3, <1>4 DEF last

(* What a task is when it goes on with a batch, or has none left.          *)
Continues(task, u) ==
    \/ task.from < task.to /\ u = task
    \/ /\ ~(task.from < task.to) /\ u.pc \in {"idle", "files"} /\ u.todo = task.todo
       /\ u.found = {} /\ (u.pc = "idle" => u.todo = {})

LEMMA Proceeds ==
    ASSUME SearchInv, NEW i \in Indexers, NEW task \in IndexerType, Proceed(i, task)
    PROVE  \E u \in IndexerType : Becomes(i, u) /\ Continues(task, u)
<1>1. NotIndexing \in IndexerType
    BY TaskIs
<1>2. CASE task.from < task.to
    BY <1>2 DEF Proceed, Continues
<1>3. CASE ~(task.from < task.to) /\ task.todo = {}
  <2>1. NotIndexing.pc = "idle" /\ NotIndexing.todo = {} /\ NotIndexing.found = {}
      BY DEF NotIndexing
  <2> QED
      BY <1>1, <1>3, <2>1 DEF Proceed, Continues
<1>4. CASE ~(task.from < task.to) /\ task.todo # {}
  <2> DEFINE u == [NotIndexing EXCEPT !.pc = "files", !.todo = task.todo]
  <2>1. u \in IndexerType /\ u.pc = "files" /\ u.todo = task.todo /\ u.found = {}
      BY <1>1 DEF NotIndexing, IndexerType
  <2>2. Becomes(i, u)
      BY <1>4 DEF Proceed
  <2> HIDE DEF u
  <2> QED
      BY <1>4, <2>1, <2>2 DEF Continues
<1> QED
    BY <1>2, <1>3, <1>4

LEMMA OpenKeeps == ASSUME SearchInv, NEW i \in Indexers, OpenLog(i) PROVE SearchInv'
<1> DEFINE t == indexers[i]
<1>1. /\ t \in IndexerType /\ TaskFits(t) /\ t.pc = "files" /\ searching = TRUE
      /\ lame \subseteq Paths /\ searchEvents \in 0 .. SearchEvents /\ NotIndexing \in IndexerType
    BY TaskIs DEF OpenLog
<1>2. UNCHANGED <<files, rows, terms, nextId, searching, lame, skewed, searchEvents>>
    BY DEF OpenLog
<1>3. CASE t.todo = {} /\ Becomes(i, NotIndexing)
  <2>1. NotIndexing.pc = "idle" /\ NotIndexing.todo = {} /\ NotIndexing.found = {}
      BY DEF NotIndexing
  <2>2. TaskFits(NotIndexing) /\ StillMeans(NotIndexing)
      BY <2>1 DEF TaskFits, StillMeans, Going
  <2>3. StillInserts(t, NotIndexing) /\ StillFills(i, NotIndexing)
      BY <1>1, <1>3, <2>1 DEF StillInserts, StillFills, WillInsert, WillFill, Going
  <2> QED
      BY <1>1, <1>2, <1>3, <2>1, <2>2, <2>3, TaskBecomes
<1>4. ASSUME NEW p \in t.todo, NEW n \in 0 .. LogLines,
             n = IF i = "worker" THEN LastLine(p) ELSE 0,
             Proceed(i, Take([t EXCEPT !.path = p, !.file = FileAt(p), !.todo = @ \ {p}], n))
      PROVE  SearchInv'
  <2> DEFINE s == [t EXCEPT !.path = p, !.file = FileAt(p), !.todo = t.todo \ {p}]
             b == Take(s, n)
  <2>1. p \in Listed /\ t.todo \subseteq Listed
      BY <1>1 DEF TaskFits
  <2>2. FileAt(p) \in DOMAIN files /\ FileAt(p) \in 0 .. Rotations + 1 /\ p \in Paths
    <3>1. FileAt(p) \in DOMAIN files /\ p \in Paths
        BY <2>1, FilesAre DEF SearchInv
    <3>2. DOMAIN files = 1 .. Len(files) /\ Len(files) \in Nat /\ Len(files) <= Rotations + 1
        BY FilesAre DEF SearchInv
    <3> QED
        BY <3>1, <3>2, SearchNumbers
  <2>3. /\ s \in IndexerType /\ s.path = p /\ s.file = FileAt(p) /\ s.todo = t.todo \ {p}
      BY <1>1, <2>2 DEF IndexerType
  <2>4. Proceed(i, b) /\ b = Take(s, n)
      BY <1>4
  <2> HIDE DEF s, b
  <2>5. /\ b.pc = "rows" /\ b.from = n /\ b.asked = n /\ b.found = {}
        /\ b.path = p /\ b.file = FileAt(p) /\ b.todo = t.todo \ {p}
        /\ b.to \in 0 .. LogLines /\ b.to <= n + BatchSize /\ b.to <= Len(files[FileAt(p)])
        /\ b.to = n + BatchSize \/ b.to = Len(files[FileAt(p)])
        /\ b \in IndexerType
    <3>1. s \in IndexerType /\ s.file \in DOMAIN files
        BY <2>2, <2>3
    <3>2. /\ b.pc = "rows" /\ b.from = n /\ b.asked = n /\ b.found = {}
          /\ b.path = s.path /\ b.file = s.file /\ b.todo = s.todo
          /\ b.to \in 0 .. LogLines /\ b.to <= n + BatchSize /\ b.to <= Len(files[s.file])
          /\ b.to = n + BatchSize \/ b.to = Len(files[s.file])
          /\ b \in IndexerType
        BY <2>4, <3>1, BatchTaken
    <3> QED
        BY <2>3, <3>2
  <2>6. PICK u \in IndexerType : Becomes(i, u) /\ Continues(b, u)
      BY <2>4, <2>5, Proceeds
  <2>7. u.todo = t.todo \ {p} /\ u.found = {} /\ u.pc # "clear"
      BY <2>5, <2>6 DEF Continues
  <2>8. TaskFits(u)
    <3>1. CASE u = b /\ b.from < b.to
      <4>1. n \in Nat /\ b.to \in Nat /\ n < b.to /\ n \in n .. b.to
          BY <2>5, <3>1
      <4> QED
          BY <2>1, <2>2, <2>5, <3>1, <4>1 DEF TaskFits
    <3>2. CASE u.pc \in {"idle", "files"}
        BY <2>1, <2>7, <3>2 DEF TaskFits, Going
    <3> QED
        BY <2>6, <3>1, <3>2 DEF Continues
  <2>9. StillMeans(u) /\ StillInserts(t, u)
      BY <1>1, <2>7 DEF StillMeans, StillInserts, WillInsert
  <2>10. StillFills(i, u)
    <3> SUFFICES ASSUME NEW q \in Listed, q \notin lame \cup skewed, NEW m \in 1 .. LogLines,
                        NotIndexed(q, m)
                 PROVE  /\ Going(u) /\ u.path = q /\ m <= Passed(u) => Below(q, m)
                        /\ i # "worker" /\ Below(q, m) /\ WillFill(t, q, m) => WillFill(u, q, m)
        BY <1>2 DEF StillFills
    <3>1. ASSUME Going(u), u.path = q, m <= Passed(u) PROVE Below(q, m)
      <4>1. u = b
          BY <2>6, <3>1 DEF Continues, Going
      <4>2. q = p /\ m <= n
          BY <2>5, <3>1, <4>1 DEF Passed
      <4>3. i = "worker" /\ n = LastLine(p)
          BY <1>4, <4>2
      <4>4. PICK r \in rows : r.path = p /\ r.line = n
          BY <4>2, <4>3, LastIndexed DEF SearchInv
      <4>5. r.line > m
          BY <4>2, <4>4 DEF NotIndexed
      <4> QED
          BY <4>2, <4>4, <4>5 DEF Below
    <3>2. ASSUME i # "worker", Below(q, m), WillFill(t, q, m) PROVE WillFill(u, q, m)
      <4>1. q \in t.todo /\ n = 0
          BY <1>1, <1>4, <3>2 DEF WillFill, Going
      <4>2. CASE q # p
        <5>1. q \in u.todo
            BY <2>7, <4>1, <4>2
        <5>2. u.pc # "idle"
            BY <2>5, <2>6, <5>1 DEF Continues
        <5> QED
            BY <5>1, <5>2 DEF WillFill
      <4>3. CASE q = p
        <5>1. m <= Len(files[FileAt(p)]) /\ Len(files[FileAt(p)]) \in Nat
            BY <2>2, <3>2, <4>3, GapInFile, FilesAre DEF SearchInv
        <5>2. b.from < b.to /\ (m \in 1 .. b.to \/ (m > b.to /\ b.to = b.from + BatchSize))
            BY <2>5, <4>1, <5>1, SearchNumbers
        <5>3. u = b
            BY <2>6, <5>2 DEF Continues
        <5> QED
            BY <2>5, <4>1, <4>3, <5>2, <5>3 DEF WillFill, Going
      <4> QED
          BY <4>2, <4>3
    <3> QED
        BY <3>1, <3>2
  <2> QED
      BY <1>1, <1>2, <2>6, <2>7, <2>8, <2>9, <2>10, TaskBecomes
<1>5. \A p : LastLine(p) \in 0 .. LogLines
    BY LastIndexed DEF SearchInv
<1>6. CASE \E p \in t.todo :
              Proceed(i, Take([t EXCEPT !.path = p, !.file = FileAt(p), !.todo = @ \ {p}],
                              IF i = "worker" THEN LastLine(p) ELSE 0))
  <2>1. PICK p \in t.todo :
              Proceed(i, Take([t EXCEPT !.path = p, !.file = FileAt(p), !.todo = @ \ {p}],
                              IF i = "worker" THEN LastLine(p) ELSE 0))
      BY <1>6
  <2>2. (IF i = "worker" THEN LastLine(p) ELSE 0) \in 0 .. LogLines
      BY <1>5, SearchNumbers
  <2> QED
      BY <1>4, <2>1, <2>2
<1> QED
    BY <1>3, <1>6 DEF OpenLog

LEMMA LookUpKeeps == ASSUME SearchInv, NEW i \in Indexers, LookUpId(i) PROVE SearchInv'
<1> DEFINE t == indexers[i]
           n == t.asked + 1
           mine == {r \in rows : r.path = t.path /\ r.line = n}
           named == {<<r.id, files[t.file][n]>> : r \in mine}
           u == [t EXCEPT !.pc = IF n = t.to THEN "terms" ELSE "ids", !.asked = n,
                          !.found = t.found \cup named]
<1>1. /\ t \in IndexerType /\ TaskFits(t) /\ t.pc = "ids" /\ searching = TRUE
      /\ lame \subseteq Paths /\ searchEvents \in 0 .. SearchEvents
    BY TaskIs DEF LookUpId
<1>2. /\ UNCHANGED <<files, rows, terms, nextId, searching, lame, skewed, searchEvents>>
      /\ Becomes(i, u)
    BY DEF LookUpId
<1>3. /\ rows \subseteq IndexRow /\ IndexRowsFit
    BY DEF SearchInv, SearchTypeOK
<1>4. /\ t.path \in Listed /\ t.file \in DOMAIN files /\ t.todo \subseteq Listed
      /\ t.from < t.to /\ t.to <= t.from + BatchSize /\ t.to <= Len(files[t.file])
      /\ t.asked \in t.from .. t.to /\ t.asked < t.to
      /\ t.path \notin skewed => t.file = FileAt(t.path)
      /\ \A x \in t.found : x[1] < nextId
    BY <1>1 DEF TaskFits, Going
<1>5. /\ t.from \in 0 .. LogLines /\ t.to \in 0 .. LogLines /\ t.asked \in 0 .. LogLines
      /\ t.found \subseteq Nat \X (1 .. LogLines)
    BY <1>1 DEF IndexerType
<1>6. n \in 1 .. LogLines /\ n \in t.from .. t.to /\ n \in 1 .. Len(files[t.file])
  <2> DEFINE last == Len(files[t.file])
  <2>1. last \in Nat /\ t.to <= last /\ LogLines \in Nat
      BY <1>4, FilesAre, SearchNumbers DEF SearchInv
  <2> HIDE DEF t, last
  <2>2. n \in 1 .. LogLines /\ n \in t.from .. t.to /\ n \in 1 .. last
      BY <1>4, <1>5, <2>1
  <2> QED
      BY <2>2 DEF last
<1>7. files[t.file][n] \in 1 .. LogLines
    BY <1>4, <1>6, FilesAre DEF SearchInv
<1> HIDE DEF n
<1>8. \A x \in named : x \in Nat \X (1 .. LogLines) /\ x[1] < nextId
    BY <1>3, <1>7 DEF IndexRow, IndexRowsFit, RowFits
<1> HIDE DEF named
<1>9. /\ u \in IndexerType /\ u.pc = (IF n = t.to THEN "terms" ELSE "ids") /\ u.asked = n
      /\ u.found = t.found \cup named /\ u.path = t.path /\ u.file = t.file /\ u.todo = t.todo
      /\ u.from = t.from /\ u.to = t.to
  <2>1. n \in 0 .. LogLines /\ t.found \cup named \subseteq Nat \X (1 .. LogLines)
      BY <1>5, <1>6, <1>8
  <2> QED
      BY <1>1, <2>1 DEF IndexerType
<1> HIDE DEF u, t
<1>10. TaskFits(u)
  <2>1. \A x \in u.found : x[1] < nextId
      BY <1>4, <1>8, <1>9
  <2>2. u.pc = "ids" => u.asked < u.to
      BY <1>5, <1>6, <1>9
  <2> QED
      BY <1>4, <1>6, <1>9, <2>1, <2>2 DEF TaskFits
<1>11. StillMeans(u)
  <2> SUFFICES ASSUME NEW r \in rows, r.path \notin skewed, NEW x \in u.found PROVE Means(x, r)
      BY DEF StillMeans
  <2>1. CASE x \in t.found
      BY <1>3, <2>1 DEF IndexRowsFit, RowFits, t
  <2>2. CASE x \in named
    <3>1. PICK q \in rows : q.path = t.path /\ q.line = n /\ x = <<q.id, files[t.file][n]>>
        BY <2>2 DEF named
    <3>2. ASSUME x[1] = r.id PROVE x = <<r.id, r.text>>
      <4>1. q = r
          BY <1>3, <3>1, <3>2 DEF IndexRowsFit
      <4>2. r.text = files[t.file][n]
          BY <1>3, <1>4, <3>1, <4>1 DEF IndexRowsFit, RowFits
      <4> QED
          BY <3>1, <4>1, <4>2
    <3> QED
        BY <3>2 DEF Means
  <2> QED
      BY <1>9, <2>1, <2>2
<1>12. StillInserts(t, u)
  <2> SUFFICES ASSUME NEW r \in rows, r.path \notin skewed, WillInsert(t, r) PROVE WillInsert(u, r)
      BY <1>2 DEF StillInserts
  <2>1. CASE <<r.id, r.text>> \in t.found
      BY <1>9, <2>1 DEF WillInsert
  <2>2. CASE r.line \in (t.asked + 1) .. t.to /\ r.line # n
    <3>1. r.line \in (n + 1) .. t.to /\ n # t.to
        BY <1>5, <1>6, <2>2 DEF n
    <3> QED
        BY <1>9, <3>1 DEF WillInsert
  <2>3. CASE r.line = n
    <3>1. r.path = t.path
        BY DEF WillInsert
    <3>2. r.text = files[t.file][n]
        BY <1>3, <1>4, <2>3, <3>1 DEF IndexRowsFit, RowFits
    <3>3. <<r.id, r.text>> \in named
        BY <2>3, <3>1, <3>2 DEF named
    <3> QED
        BY <1>9, <3>1, <3>3 DEF WillInsert
  <2> QED
      BY <2>1, <2>2, <2>3 DEF WillInsert
<1>13. StillFills(i, u)
  <2>1. \A q, m : WillFill(t, q, m) => WillFill(u, q, m)
      BY <1>1, <1>9 DEF WillFill, Going
  <2>2. Going(t) /\ Passed(u) = Passed(t)
      BY <1>1, <1>9 DEF Going, Passed
  <2>3. \A q, m : u.path = q /\ m <= Passed(u) => Below(q, m)
      BY <1>9, <2>2 DEF Below, t
  <2> QED
      BY <2>1, <2>3 DEF StillFills, t
<1>14. u.pc # "clear" /\ t = indexers[i]
    BY <1>9 DEF t
<1> QED
    BY <1>1, <1>2, <1>9, <1>10, <1>11, <1>12, <1>13, <1>14, TaskBecomes

LEMMA InsertTermsKeeps == ASSUME SearchInv, NEW i \in Indexers, InsertTerms(i) PROVE SearchInv'
<1> DEFINE t == indexers[i]
           b == IF t.to - t.from < BatchSize THEN [t EXCEPT !.from = t.to] ELSE Take(t, t.to)
<1>1. /\ t \in IndexerType /\ TaskFits(t) /\ t.pc = "terms" /\ searching = TRUE
      /\ lame \subseteq Paths /\ searchEvents \in 0 .. SearchEvents
    BY TaskIs DEF InsertTerms
<1>2. /\ UNCHANGED <<files, rows, nextId, searching, lame, skewed, searchEvents>>
      /\ terms' = terms \cup t.found /\ Proceed(i, b)
    BY DEF InsertTerms
<1>3. /\ t.path \in Listed /\ t.file \in DOMAIN files /\ t.todo \subseteq Listed
      /\ t.from < t.to /\ t.to <= t.from + BatchSize /\ t.to <= Len(files[t.file])
      /\ t.path \notin skewed => t.file = FileAt(t.path)
    BY <1>1 DEF TaskFits, Going
<1>4. t.from \in 0 .. LogLines /\ t.to \in 0 .. LogLines
    BY <1>1 DEF IndexerType
<1>5. /\ b \in IndexerType /\ b.todo = t.todo /\ b.path = t.path /\ b.file = t.file
      /\ b.from = t.to /\ b.to \in 0 .. LogLines
      /\ b.from < b.to => /\ b.pc = "rows" /\ b.asked = b.from /\ b.found = {}
                          /\ b.to <= b.from + BatchSize /\ b.to <= Len(files[b.file])
      /\ t.to = t.from + BatchSize => b.to = b.from + BatchSize \/ b.to = Len(files[b.file])
  <2>1. CASE t.to - t.from < BatchSize
    <3>1. b = [t EXCEPT !.from = t.to]
        BY <2>1
    <3>2. b \in IndexerType /\ b.todo = t.todo /\ b.path = t.path /\ b.file = t.file
          /\ b.from = t.to /\ b.to = t.to
      <4> HIDE DEF b
      <4> QED
          BY <1>1, <1>4, <3>1 DEF IndexerType
    <3> HIDE DEF b
    <3>3. ~(b.from < b.to) /\ t.to # t.from + BatchSize
        BY <1>4, <2>1, <3>2, SearchNumbers
    <3> QED
        BY <1>4, <3>2, <3>3
  <2>2. CASE ~(t.to - t.from < BatchSize)
    <3>1. b = Take(t, t.to)
        BY <2>2
    <3> HIDE DEF b
    <3>2. /\ b.pc = "rows" /\ b.from = t.to /\ b.asked = t.to /\ b.found = {}
          /\ b.path = t.path /\ b.file = t.file /\ b.todo = t.todo
          /\ b.to \in 0 .. LogLines /\ b.to <= t.to + BatchSize /\ b.to <= Len(files[t.file])
          /\ b.to = t.to + BatchSize \/ b.to = Len(files[t.file])
          /\ b \in IndexerType
        BY <1>1, <1>3, <1>4, <3>1, BatchTaken
    <3> QED
        BY <3>2
  <2> QED
      BY <2>1, <2>2
<1> HIDE DEF b
<1>6. PICK u \in IndexerType : Becomes(i, u) /\ Continues(b, u)
    BY <1>2, <1>5, Proceeds
<1>7. u.todo = t.todo /\ u.found = {} /\ u.pc # "clear"
    BY <1>5, <1>6 DEF Continues
<1>8. TaskFits(u)
  <2>1. CASE u = b /\ b.from < b.to
    <3>1. b.from \in b.from .. b.to
        BY <1>4, <1>5, <2>1
    <3> QED
        BY <1>3, <1>5, <2>1, <3>1 DEF TaskFits
  <2>2. CASE u.pc \in {"idle", "files"}
      BY <1>3, <1>7, <2>2 DEF TaskFits, Going
  <2> QED
      BY <1>6, <2>1, <2>2 DEF Continues
<1>9. StillMeans(u) /\ StillInserts(t, u)
    BY <1>1, <1>2, <1>7 DEF StillMeans, StillInserts, WillInsert
<1>10. StillFills(i, u)
  <2> SUFFICES ASSUME NEW q \in Listed, q \notin lame \cup skewed, NEW m \in 1 .. LogLines,
                        NotIndexed(q, m)
               PROVE  /\ Going(u) /\ u.path = q /\ m <= Passed(u) => Below(q, m)
                      /\ i # "worker" /\ Below(q, m) /\ WillFill(t, q, m) => WillFill(u, q, m)
      BY <1>2 DEF StillFills
  <2>1. ASSUME Going(u), u.path = q, m <= Passed(u) PROVE Below(q, m)
    <3>1. u = b /\ b.from < b.to
        BY <1>6, <2>1 DEF Continues, Going
    <3>2. q = t.path /\ m <= Passed(t) /\ Going(t)
        BY <1>1, <1>5, <2>1, <3>1 DEF Passed, Going
    <3> QED
        BY <3>2 DEF Below
  <2>2. ASSUME i # "worker", Below(q, m), WillFill(t, q, m) PROVE WillFill(u, q, m)
    <3>1. CASE q \in t.todo
      <4>1. u.pc # "idle"
          BY <1>5, <1>6, <3>1 DEF Continues
      <4> QED
          BY <1>7, <3>1, <4>1 DEF WillFill
    <3>2. CASE q \notin t.todo
      <4>1. t.path = q /\ m > t.to /\ t.to = t.from + BatchSize
          BY <1>1, <2>2, <3>2 DEF WillFill
      <4>2. m <= Len(files[b.file]) /\ Len(files[b.file]) \in Nat
          BY <1>3, <1>5, <2>2, <4>1, GapInFile, FilesAre DEF SearchInv
      <4>3. b.from < b.to /\ (m \in (b.from + 1) .. b.to \/ (m > b.to /\ b.to = b.from + BatchSize))
        <5>1. b.to = b.from + BatchSize \/ b.to = Len(files[b.file])
            BY <1>5, <4>1
        <5>2. b.from = t.to /\ b.to \in Nat /\ b.from \in Nat
            BY <1>4, <1>5
        <5> QED
            BY <4>1, <4>2, <5>1, <5>2, SearchNumbers
      <4>4. u = b
          BY <1>6, <4>3 DEF Continues
      <4> QED
          BY <1>5, <4>1, <4>3, <4>4 DEF WillFill, Going
    <3> QED
        BY <3>1, <3>2
  <2> QED
      BY <2>1, <2>2
<1> QED
    BY <1>1, <1>2, <1>6, <1>7, <1>8, <1>9, <1>10, TaskBecomes

LEMMA FailureKeeps == ASSUME SearchInv, NEW i \in Indexers, IndexFails(i) PROVE SearchInv'
<1> DEFINE t == indexers[i]
<1>1. /\ t \in IndexerType /\ TaskFits(t) /\ searching \in BOOLEAN
      /\ lame \subseteq Paths /\ searchEvents \in 0 .. SearchEvents /\ NotIndexing \in IndexerType
      /\ SearchEvents \in Nat /\ t.todo \subseteq Listed /\ Listed \subseteq Paths
    BY TaskIs, SearchNumbers, FilesAre DEF SearchInv, TaskFits
<1>2. /\ UNCHANGED <<files, rows, terms, nextId, searching, skewed>> /\ searching = TRUE
      /\ searchEvents' \in 0 .. SearchEvents
  <2>1. t.pc # "idle"
      BY DEF IndexFails
  <2>2. searching = TRUE
      BY <2>1, TaskIs
  <2> QED
      BY <1>1, <2>2 DEF IndexFails, Counts
<1>3. CASE t.pc = "clear" /\ Becomes(i, NotIndexing) /\ UNCHANGED lame
  <2>1. NotIndexing.pc = "idle" /\ NotIndexing.todo = {} /\ NotIndexing.found = {}
      BY DEF NotIndexing
  <2>2. TaskFits(NotIndexing) /\ StillMeans(NotIndexing)
      BY <2>1 DEF TaskFits, StillMeans, Going
  <2>3. StillInserts(t, NotIndexing) /\ StillFills(i, NotIndexing)
      BY <1>1, <1>3, <2>1 DEF StillInserts, StillFills, WillInsert, WillFill, Going, TaskFits
  <2> QED
      BY <1>1, <1>2, <1>3, <2>1, <2>2, <2>3, TaskBecomes
<1>4. ASSUME NEW p \in t.todo, t.pc = "files", Becomes(i, [t EXCEPT !.todo = @ \ {p}]),
             lame' = IF i = "worker" THEN lame ELSE lame \cup {p}
      PROVE  SearchInv'
  <2> DEFINE u == [t EXCEPT !.todo = t.todo \ {p}]
  <2>1. /\ u \in IndexerType /\ u.pc = "files" /\ u.todo = t.todo \ {p} /\ u.found = t.found
        /\ Becomes(i, u)
      BY <1>1, <1>4 DEF IndexerType
  <2> HIDE DEF u
  <2>2. TaskFits(u)
      BY <1>1, <2>1 DEF TaskFits, Going
  <2>3. StillMeans(u)
      BY <2>1 DEF StillMeans, SearchInv, IndexRowsFit, RowFits
  <2>4. StillInserts(t, u) /\ StillFills(i, u)
      BY <1>4, <2>1 DEF StillInserts, StillFills, WillInsert, WillFill, Going
  <2>5. lame \subseteq lame' /\ lame' \subseteq Paths
      BY <1>1, <1>4
  <2> QED
      BY <1>1, <1>2, <2>1, <2>2, <2>3, <2>4, <2>5, TaskBecomes
<1>5. ASSUME t.pc \in {"rows", "ids", "terms"}, Proceed(i, [t EXCEPT !.to = t.from]),
             lame' = lame \cup CutAt(i)
      PROVE  SearchInv'
  <2> DEFINE b == [t EXCEPT !.to = t.from]
  <2>1. b \in IndexerType /\ b.to = b.from /\ b.todo = t.todo /\ b.from \in Nat /\ Proceed(i, b)
      BY <1>1, <1>5 DEF IndexerType
  <2> HIDE DEF b
  <2>2. PICK u \in IndexerType : Becomes(i, u) /\ Continues(b, u)
      BY <2>1, Proceeds
  <2>3. /\ u.pc \in {"idle", "files"} /\ u.todo = t.todo /\ u.found = {}
        /\ u.pc = "idle" => u.todo = {}
      BY <2>1, <2>2 DEF Continues
  <2>4. TaskFits(u) /\ StillMeans(u)
      BY <1>1, <2>3 DEF TaskFits, StillMeans, Going
  <2>5. StillInserts(t, u)
      BY <1>5, <2>3 DEF StillInserts, WillInsert, CutAt
  <2>6. StillFills(i, u)
      BY <1>5, <2>3 DEF StillFills, WillFill, Going, CutAt
  <2>7. lame \subseteq lame' /\ lame' \subseteq Paths
      BY <1>1, <1>5 DEF IndexerType, CutAt
  <2> QED
      BY <1>1, <1>2, <2>2, <2>3, <2>4, <2>5, <2>6, <2>7, TaskBecomes
<1> QED
    BY <1>3, <1>4, <1>5 DEF IndexFails

(* Whoever empties the tables is going to index every file.                *)
LEMMA ClearKeeps == ASSUME SearchInv, NEW i \in Indexers, Clear(i) PROVE SearchInv'
<1> DEFINE u == [NotIndexing EXCEPT !.pc = "files", !.todo = Listed]
<1>1. /\ indexers[i].pc = "clear" /\ i # "worker" /\ searching = TRUE
      /\ lame \subseteq Paths /\ searchEvents \in 0 .. SearchEvents /\ NotIndexing \in IndexerType
      /\ Listed \subseteq Paths
    BY TaskIs, FilesAre DEF Clear, SearchInv
<1>2. /\ rows' = {} /\ terms' = {} /\ Becomes(i, u) /\ lame' = {}
      /\ skewed' = IF Others(i) = {} THEN {} ELSE skewed
      /\ UNCHANGED <<files, nextId, searching, searchEvents>>
    BY DEF Clear
<1>3. u \in IndexerType /\ u.pc = "files" /\ u.todo = Listed /\ u.found = {}
    BY <1>1 DEF NotIndexing, IndexerType
<1> HIDE DEF u
<1>4. /\ SearchTypeOK /\ LinesFit /\ TasksFit /\ IndexRowsFit
      /\ indexers \in [Indexers -> IndexerType]
    BY DEF SearchInv, SearchTypeOK
<1>5. /\ indexers' = [indexers EXCEPT ![i] = u] /\ indexers' \in [Indexers -> IndexerType]
      /\ indexers'[i] = u /\ \A j \in Indexers \ {i} : indexers'[j] = indexers[j]
    BY <1>2, <1>3, <1>4 DEF Becomes
<1>6. skewed' \subseteq skewed /\ Listed' = Listed
    BY <1>2 DEF Listed, FileAt
<1>7. SearchTypeOK' /\ LinesFit'
    BY <1>2, <1>4, <1>5, <1>6 DEF SearchTypeOK, Paths, LinesFit
<1>8. TasksFit'
  <2>1. ASSUME NEW j \in Indexers PROVE TaskFits(indexers[j])'
    <3>1. CASE j = i
        BY <1>2, <1>3, <1>5, <1>6, <3>1 DEF TaskFits, Going
    <3>2. CASE j # i /\ skewed' = skewed
        BY <1>2, <1>4, <1>5, <1>6, <3>2 DEF TaskFits, TasksFit, FileAt
    <3>3. CASE j # i /\ Others(i) = {}
      <4>1. indexers'[j].pc = "idle" /\ TaskFits(indexers[j])
          BY <1>4, <1>5, <3>3 DEF Others, TasksFit
      <4> QED
          BY <1>2, <1>5, <1>6, <3>3, <4>1 DEF TaskFits, Going
    <3> QED
        BY <1>2, <3>1, <3>2, <3>3
  <2>2. indexers'["worker"].pc # "clear"
      BY <1>1, <1>4, <1>5, SearchNumbers DEF TasksFit
  <2> QED
      BY <1>1, <1>2, <2>1, <2>2 DEF TasksFit
<1>9. IndexRowsFit' /\ Termed'
    BY <1>2 DEF IndexRowsFit, Termed
<1>10. Filled'
  <2>1. \A p, n : p \in Listed' => WillFill(indexers[i], p, n)'
      BY <1>3, <1>5, <1>6 DEF WillFill
  <2>2. i \in Indexers \ {"worker"}
      BY <1>1
  <2> QED
      BY <2>1, <2>2 DEF Filled, Indexers
<1> QED
    BY <1>7, <1>8, <1>9, <1>10 DEF SearchInv

LEMMA InsertRowsKeeps == ASSUME SearchInv, NEW i \in Indexers, InsertRows(i) PROVE SearchInv'
<1> DEFINE t == indexers[i]
           u == [t EXCEPT !.pc = "ids"]
           kept == {r \in rows : r.path # t.path \/ r.line \notin Batch(i)}
           Inserted(n) == [path |-> t.path, line |-> n, id |-> nextId + n - t.from - 1,
                           text |-> files[t.file][n]]
           inserted == {Inserted(n) : n \in Batch(i)}
<1>1. /\ t \in IndexerType /\ TaskFits(t) /\ t.pc = "rows" /\ searching = TRUE
    BY TaskIs DEF InsertRows
<1>2. /\ rows' = kept \cup inserted /\ nextId' = nextId + Cardinality(Batch(i))
      /\ Becomes(i, u) /\ UNCHANGED <<files, terms, searching, lame, skewed, searchEvents>>
    BY DEF InsertRows
<1>3. /\ t.path \in Listed /\ t.path \in Paths /\ t.file \in DOMAIN files /\ t.todo \subseteq Listed
      /\ t.from < t.to /\ t.to <= t.from + BatchSize /\ t.to <= Len(files[t.file])
      /\ t.asked = t.from /\ t.asked \in t.from .. t.to
      /\ t.path \notin skewed => t.file = FileAt(t.path)
      /\ \A x \in t.found : x[1] < nextId
    BY <1>1 DEF TaskFits, Going, Listed
<1>4. t.from \in 0 .. LogLines /\ t.to \in 0 .. LogLines /\ LogLines \in Nat
    BY <1>1, SearchNumbers DEF IndexerType
<1>5. /\ SearchTypeOK /\ LinesFit /\ TasksFit /\ IndexRowsFit /\ Termed /\ Filled
      /\ indexers \in [Indexers -> IndexerType] /\ nextId \in Nat /\ nextId >= 1
      /\ rows \subseteq IndexRow /\ terms \subseteq Nat \X (1 .. LogLines)
    BY DEF SearchInv, SearchTypeOK
<1>6. /\ Batch(i) = (t.from + 1) .. t.to /\ Cardinality(Batch(i)) = t.to - t.from
      /\ \A n \in Batch(i) : n \in 1 .. LogLines /\ n > t.from /\ n <= t.to
  <2>1. Batch(i) = (t.from + 1) .. t.to
      BY DEF Batch
  <2> HIDE DEF t
  <2>2. Cardinality((t.from + 1) .. t.to) = t.to - t.from
    <3> DEFINE a == t.from + 1
    <3>1. a \in Int /\ t.to \in Int /\ t.from \in Int /\ a <= t.to /\ a = t.from + 1
        BY <1>3, <1>4
    <3> HIDE DEF a
    <3>2. Cardinality(a .. t.to) = IF a > t.to THEN 0 ELSE t.to - a + 1
        BY <3>1, FS_Interval
    <3> QED
        BY <3>1, <3>2 DEF a
  <2> QED
      BY <1>4, <2>1, <2>2
<1>7. /\ u \in IndexerType /\ u.pc = "ids" /\ u.path = t.path /\ u.file = t.file /\ u.todo = t.todo
      /\ u.from = t.from /\ u.to = t.to /\ u.asked = t.asked /\ u.found = t.found
    BY <1>1 DEF IndexerType
<1>8. /\ indexers' = [indexers EXCEPT ![i] = u] /\ indexers' \in [Indexers -> IndexerType]
      /\ indexers'[i] = u /\ \A j \in Indexers \ {i} : indexers'[j] = indexers[j]
    BY <1>2, <1>5, <1>7 DEF Becomes
<1>9. \A n \in Batch(i) : n \in DOMAIN files[t.file] /\ files[t.file][n] \in 1 .. LogLines
  <2> DEFINE last == Len(files[t.file])
  <2>1. last \in Nat /\ t.to <= last /\ DOMAIN files[t.file] = 1 .. last
      BY <1>3, FilesAre DEF SearchInv
  <2> HIDE DEF last
  <2>2. \A n \in Batch(i) : n \in 1 .. last
      BY <1>4, <1>6, <2>1
  <2> QED
      BY <1>3, <2>1, <2>2, FilesAre DEF SearchInv
<1>10. nextId' = nextId + (t.to - t.from)
    BY <1>2, <1>6
<1> HIDE DEF t, u
<1>11. nextId' \in Nat /\ nextId' >= nextId
    BY <1>3, <1>4, <1>5, <1>10
<1>12. ASSUME NEW n \in Batch(i)
       PROVE  /\ Inserted(n) \in IndexRow /\ Inserted(n).id >= nextId /\ Inserted(n).id < nextId'
              /\ Inserted(n).line = n /\ Inserted(n).path = t.path
              /\ Inserted(n).text = files[t.file][n] /\ Inserted(n).id = nextId + n - t.from - 1
  <2> DEFINE k == nextId + n - t.from - 1
  <2>1. k \in Nat /\ k >= nextId /\ k < nextId'
      BY <1>4, <1>5, <1>6, <1>10
  <2> HIDE DEF k
  <2>2. [path |-> t.path, line |-> n, id |-> k, text |-> files[t.file][n]] \in IndexRow
      BY <1>3, <1>6, <1>9, <2>1 DEF IndexRow
  <2> QED
      BY <2>1, <2>2 DEF k
<1>13. \A n, m \in Batch(i) : Inserted(n).id = Inserted(m).id => n = m
  <2> SUFFICES ASSUME NEW n \in Batch(i), NEW m \in Batch(i),
                      nextId + n - t.from - 1 = nextId + m - t.from - 1
               PROVE  n = m
      BY <1>12
  <2> QED
      BY <1>4, <1>5, <1>6
<1> HIDE DEF Inserted
<1>14. /\ kept \subseteq rows /\ \A r \in rows' : r \in kept \/ \E n \in Batch(i) : r = Inserted(n)
       /\ \A n \in Batch(i) : Inserted(n) \in rows'
       /\ \A r \in rows : r \in rows' \/ (r.path = t.path /\ r.line \in Batch(i))
    BY <1>2
<1> HIDE DEF kept, inserted
<1>15. SearchTypeOK' /\ LinesFit'
  <2>1. rows' \subseteq IndexRow
      BY <1>5, <1>12, <1>14
  <2>2. nextId' \in Nat \ {0}
      BY <1>5, <1>11
  <2> QED
      BY <1>2, <1>5, <1>8, <2>1, <2>2 DEF SearchTypeOK, Paths, LinesFit, IndexRow
<1>16. TasksFit'
  <2>0. Listed' = Listed /\ \A p : FileAt(p)' = FileAt(p)
      BY <1>2 DEF Listed, FileAt
  <2>1. ASSUME NEW j \in Indexers PROVE TaskFits(indexers[j])'
    <3>1. \A x \in indexers'[j].found : x[1] < nextId'
      <4>1. indexers'[j].found = indexers[j].found
          BY <1>7, <1>8 DEF t
      <4>2. \A x \in indexers[j].found : x[1] < nextId /\ x[1] \in Nat
          BY <1>5 DEF TasksFit, TaskFits, IndexerType
      <4> QED
          BY <1>5, <1>11, <4>1, <4>2
    <3>2. CASE j = i
        BY <1>2, <1>3, <1>4, <1>7, <1>8, <2>0, <3>1, <3>2 DEF TaskFits
    <3>3. CASE j # i
        BY <1>2, <1>5, <1>8, <2>0, <3>1, <3>3 DEF TaskFits, TasksFit
    <3> QED
        BY <3>2, <3>3
  <2>2. indexers'["worker"].pc # "clear"
      BY <1>5, <1>7, <1>8, SearchNumbers DEF TasksFit
  <2> QED
      BY <1>1, <1>2, <2>1, <2>2 DEF TasksFit
<1>17. IndexRowsFit'
  <2>1. \A r \in rows : r.id < nextId /\ r.id \in Nat
      BY <1>5 DEF IndexRowsFit, RowFits, IndexRow
  <2>2. \A r, q \in rows' : r.id = q.id => r = q
    <3> SUFFICES ASSUME NEW r \in rows', NEW q \in rows', r.id = q.id PROVE r = q
        OBVIOUS
    <3>1. CASE r \in kept /\ q \in kept
        BY <1>5, <1>14, <3>1 DEF IndexRowsFit
    <3>2. CASE r \notin kept /\ q \notin kept
        BY <1>13, <1>14, <3>2
    <3>3. ASSUME NEW a \in kept, NEW b \in rows', b \notin kept PROVE a.id # b.id
      <4>1. PICK n \in Batch(i) : b = Inserted(n)
          BY <1>14, <3>3
      <4>2. a.id < nextId /\ a.id \in Nat /\ b.id >= nextId /\ b.id \in Nat
          BY <1>12, <1>14, <2>1, <4>1 DEF IndexRow
      <4> QED
          BY <1>5, <4>2
    <3> QED
        BY <3>1, <3>2, <3>3
  <2>3. \A j \in Indexers : indexers'[j].found = indexers[j].found
      BY <1>7, <1>8 DEF t
  <2>4. ASSUME NEW r \in rows' PROVE RowFits(r)'
    <3>1. CASE r \in kept
      <4>1. RowFits(r) /\ r.id < nextId'
          BY <1>5, <1>11, <1>14, <2>1, <3>1 DEF IndexRowsFit
      <4> QED
          BY <1>2, <2>3, <4>1 DEF RowFits, Listed, FileAt, Means
    <3>2. CASE r \notin kept
      <4>1. PICK n \in Batch(i) : r = Inserted(n)
          BY <1>14, <3>2
      <4>2. r.id >= nextId /\ r.id < nextId' /\ r.id \in Nat
          BY <1>12, <4>1 DEF IndexRow
      <4>3. \A x \in terms : x[1] # r.id
        <5>1. \A x \in terms : x[1] < nextId /\ x[1] \in Nat
            BY <1>5 DEF IndexRowsFit
        <5> QED
            BY <1>5, <4>2, <5>1
      <4>4. \A j \in Indexers : \A x \in indexers[j].found : x[1] # r.id
        <5>1. \A j \in Indexers : \A x \in indexers[j].found : x[1] < nextId /\ x[1] \in Nat
            BY <1>5 DEF TasksFit, TaskFits, IndexerType
        <5> QED
            BY <1>5, <4>2, <5>1
      <4>5. r.path = t.path /\ r.line = n /\ r.text = files[t.file][n]
          BY <1>12, <4>1
      <4>6. r.path \notin skewed =>
                r.line \in DOMAIN files[FileAt(r.path)] /\ r.text = files[FileAt(r.path)][r.line]
          BY <1>3, <1>9, <4>5
      <4> QED
          BY <1>2, <1>3, <2>3, <4>2, <4>3, <4>4, <4>5, <4>6 DEF RowFits, Listed, FileAt, Means
    <3> QED
        BY <3>1, <3>2
  <2>5. \A x \in terms' : x[1] < nextId'
    <3>1. \A x \in terms : x[1] < nextId /\ x[1] \in Nat
        BY <1>5 DEF IndexRowsFit
    <3> QED
        BY <1>2, <1>5, <1>11, <3>1
  <2> QED
      BY <2>2, <2>4, <2>5 DEF IndexRowsFit
<1>18. Termed'
  <2> SUFFICES ASSUME NEW r \in rows', r.path \notin Spoiled PROVE HasTerms(r)'
      BY <1>2 DEF Termed, Spoiled
  <2>1. CASE r \in kept
    <3>1. HasTerms(r)
        BY <1>5, <1>14, <2>1 DEF Termed
    <3>2. ~WillInsert(t, r)
        BY <1>1 DEF WillInsert
    <3>3. <<r.id, r.text>> \in terms \/ \E j \in Indexers \ {i} : WillInsert(indexers[j], r)
        BY <3>1, <3>2 DEF HasTerms, t
    <3> QED
        BY <1>2, <1>8, <3>3 DEF HasTerms, WillInsert, Indexers
  <2>2. CASE r \notin kept
    <3>1. PICK n \in Batch(i) : r = Inserted(n)
        BY <1>14, <2>2
    <3>2. r.path = t.path /\ r.line = n /\ n \in (t.asked + 1) .. t.to
        BY <1>3, <1>6, <1>12, <3>1
    <3>3. WillInsert(indexers[i], r)'
        BY <1>7, <1>8, <3>2 DEF WillInsert
    <3> QED
        BY <3>3 DEF HasTerms, Indexers
  <2> QED
      BY <2>1, <2>2
<1>19. Filled'
  <2>0. Listed' = Listed /\ Spoiled' = Spoiled
      BY <1>2 DEF Listed, FileAt, Spoiled
  <2>1. ASSUME NEW p \in Listed, p \notin Spoiled, NEW m \in 1 .. LogLines,
               NotIndexed(p, m)', Below(p, m)'
        PROVE  \E j \in Indexers \ {"worker"} : WillFill(indexers[j], p, m)'
    <3>1. p = t.path => m \notin Batch(i)
        BY <1>12, <1>14, <2>1 DEF NotIndexed
    <3>2. NotIndexed(p, m)
        BY <1>14, <2>1, <3>1 DEF NotIndexed
    <3>3. p = t.path /\ m <= t.to => m <= t.from
        BY <1>4, <1>6, <3>1
    <3>4. p = t.path /\ m <= t.to => Below(p, m)
        BY <1>1, <3>3 DEF Below, Going, Passed, t
    <3>5. Below(p, m)
      <4>1. CASE \E r \in rows' : r.path = p /\ r.line > m
        <5>1. PICK r \in rows' : r.path = p /\ r.line > m
            BY <4>1
        <5>2. CASE r \in kept
            BY <1>14, <5>1, <5>2 DEF Below
        <5>3. CASE r \notin kept
          <6>1. PICK n \in Batch(i) : r = Inserted(n)
              BY <1>14, <5>3
          <6>2. p = t.path /\ n > m
              BY <1>12, <5>1, <6>1
          <6>3. m <= t.to
              BY <1>4, <1>6, <6>2
          <6> QED
              BY <3>4, <6>2, <6>3
        <5> QED
            BY <5>2, <5>3
      <4>2. CASE \E j \in Indexers : Going(indexers'[j]) /\ indexers'[j].path = p
                                     /\ m <= Passed(indexers'[j])
        <5>1. PICK j \in Indexers : Going(indexers'[j]) /\ indexers'[j].path = p
                                    /\ m <= Passed(indexers'[j])
            BY <4>2
        <5>2. CASE j = i
            BY <1>7, <1>8, <3>4, <5>1, <5>2 DEF Passed
        <5>3. CASE j # i
            BY <1>8, <5>1, <5>3 DEF Below
        <5> QED
            BY <5>2, <5>3
      <4> QED
          BY <2>1, <4>1, <4>2 DEF Below, Going, Passed
    <3>6. PICK j \in Indexers \ {"worker"} : WillFill(indexers[j], p, m)
        BY <1>5, <2>1, <3>2, <3>5 DEF Filled
    <3>7. CASE j = i
      <4>1. WillFill(t, p, m)
          BY <3>6, <3>7 DEF t
      <4>2. WillFill(u, p, m)
          BY <1>1, <1>6, <1>7, <3>1, <4>1 DEF WillFill, Going
      <4> QED
          BY <1>8, <3>6, <3>7, <4>2 DEF WillFill, Going
    <3>8. CASE j # i
        BY <1>8, <3>6, <3>8 DEF WillFill, Going
    <3> QED
        BY <3>7, <3>8
  <2> QED
      BY <2>0, <2>1 DEF Filled, Indexers
<1> QED
    BY <1>15, <1>16, <1>17, <1>18, <1>19 DEF SearchInv

LEMMA WrittenBounds ==
    ASSUME SearchTypeOK, LinesFit
    PROVE  /\ LinesWritten \in 0 .. LogLines
           /\ \A g \in DOMAIN files : \A n \in DOMAIN files[g] : files[g][n] <= LinesWritten
<1> DEFINE T == {0} \cup UNION {Range(files[g]) : g \in DOMAIN files}
<1>1. T \in SUBSET (0 .. LogLines) /\ T # {}
    BY FilesAre, SearchNumbers DEF Range
<1>2. Max(T) \in T /\ \A x \in T : x <= Max(T)
    BY <1>1, GreatestOf, SearchNumbers
<1>3. LinesWritten = Max(T)
    BY DEF LinesWritten
<1>4. \A g \in DOMAIN files : \A n \in DOMAIN files[g] : files[g][n] \in T
    BY DEF Range
<1> HIDE DEF T
<1> QED
    BY <1>1, <1>2, <1>3, <1>4

LEMMA AppendKeeps == ASSUME SearchInv, AppendLine PROVE SearchInv'
<1> DEFINE last == Len(files)
           line == LinesWritten + 1
           longer == Append(files[last], line)
<1>1. /\ SearchTypeOK /\ LinesFit /\ TasksFit /\ IndexRowsFit /\ Termed /\ Filled
    BY DEF SearchInv
<1>2. /\ files' = [files EXCEPT ![last] = longer] /\ LinesWritten < LogLines
      /\ UNCHANGED <<rows, terms, nextId, searching, indexers, lame, skewed, searchEvents>>
    BY DEF AppendLine
<1>3. /\ files \in Seq(Seq(1 .. LogLines)) /\ last \in Nat /\ last >= 1
      /\ last <= Rotations + 1 /\ DOMAIN files = 1 .. last /\ last \in DOMAIN files
      /\ \A g \in DOMAIN files :
            /\ files[g] \in Seq(1 .. LogLines)
            /\ Len(files[g]) \in Nat /\ Len(files[g]) <= LogLines
            /\ DOMAIN files[g] = 1 .. Len(files[g])
            /\ \A n \in DOMAIN files[g] : files[g][n] \in 1 .. LogLines /\ files[g][n] >= n
      /\ \A p \in Listed : FileAt(p) \in DOMAIN files /\ p \in Nat /\ p <= Rotations
    BY <1>1, FilesAre
<1>4. LinesWritten \in Nat /\ line \in 1 .. LogLines
      /\ \A g \in DOMAIN files : \A n \in DOMAIN files[g] : files[g][n] <= LinesWritten
    BY <1>1, <1>2, WrittenBounds, SearchNumbers
<1>5. /\ longer \in Seq(1 .. LogLines) /\ Len(longer) = Len(files[last]) + 1
      /\ DOMAIN longer = 1 .. (Len(files[last]) + 1)
      /\ \A n \in DOMAIN files[last] : longer[n] = files[last][n]
      /\ longer[Len(files[last]) + 1] = line
  <2> HIDE DEF line
  <2>1. longer \in Seq(1 .. LogLines)
      BY <1>3, <1>4, AppendProperties
  <2>2. Len(longer) = Len(files[last]) + 1
      BY <1>3, <1>4, AppendProperties
  <2>3. \A n \in 1 .. Len(files[last]) : longer[n] = files[last][n]
      BY <1>3, <1>4, AppendProperties
  <2>4. longer[Len(files[last]) + 1] = line
      BY <1>3, <1>4, AppendProperties
  <2>5. DOMAIN longer = 1 .. Len(longer)
      BY <2>1, LenProperties
  <2> HIDE DEF longer
  <2> QED
      BY <1>3, <2>1, <2>2, <2>3, <2>4, <2>5
<1> HIDE DEF longer
<1>6. /\ files' \in Seq(Seq(1 .. LogLines)) /\ Len(files') = last /\ DOMAIN files' = DOMAIN files
      /\ files'[last] = longer /\ \A g \in DOMAIN files \ {last} : files'[g] = files[g]
  <2>1. files' \in Seq(Seq(1 .. LogLines)) /\ Len(files') = last
      BY <1>2, <1>3, <1>5, ExceptSeq
  <2> QED
      BY <1>2, <1>3, <2>1
<1>7. Listed' = Listed /\ \A p : FileAt(p)' = FileAt(p)
    BY <1>6 DEF Listed, FileAt
<1>8. \A g \in DOMAIN files :
          /\ Len(files[g]) <= Len(files'[g]) /\ Len(files'[g]) \in Nat
          /\ \A n \in DOMAIN files[g] : n \in DOMAIN files'[g] /\ files'[g][n] = files[g][n]
  <2> SUFFICES ASSUME NEW g \in DOMAIN files
               PROVE  /\ Len(files[g]) <= Len(files'[g]) /\ Len(files'[g]) \in Nat
                      /\ \A n \in DOMAIN files[g] :
                            n \in DOMAIN files'[g] /\ files'[g][n] = files[g][n]
      OBVIOUS
  <2>1. CASE g = last
    <3>1. files'[g] = longer
        BY <1>6, <2>1
    <3>2. Len(files[g]) \in Nat /\ Len(longer) = Len(files[g]) + 1
        BY <1>3, <1>5, <2>1
    <3>3. \A n \in DOMAIN files[g] : n \in DOMAIN longer
        BY <1>3, <1>5, <2>1
    <3> HIDE DEF last
    <3>4. \A n \in DOMAIN files[g] : longer[n] = files[g][n]
        BY <1>5, <2>1
    <3> QED
        BY <3>1, <3>2, <3>3, <3>4
  <2>2. CASE g # last
      BY <1>3, <1>6, <2>2
  <2> QED
      BY <2>1, <2>2
<1>9. LinesFit'
  <2> SUFFICES ASSUME NEW g \in DOMAIN files, NEW n \in DOMAIN files'[g] PROVE files'[g][n] >= n
      BY <1>6 DEF LinesFit
  <2>1. CASE n \in DOMAIN files[g]
      BY <1>3, <1>8, <2>1
  <2>2. CASE n \notin DOMAIN files[g]
    <3>1. g = last
        BY <1>6, <2>2
    <3>2. n = Len(files[last]) + 1 /\ files'[g][n] = line
        BY <1>3, <1>5, <1>6, <2>2, <3>1
    <3>3. Len(files[last]) <= LinesWritten
      <4> DEFINE m == Len(files[last])
      <4>1. m \in Nat /\ DOMAIN files[last] = 1 .. m
          BY <1>3
      <4> HIDE DEF m
      <4>2. CASE m = 0
          BY <1>4, <4>2 DEF m
      <4>3. CASE m # 0
        <5>1. m \in DOMAIN files[last]
            BY <4>1, <4>3
        <5>2. /\ files[last][m] >= m /\ files[last][m] <= LinesWritten
              /\ files[last][m] \in 1 .. LogLines
            BY <1>3, <1>4, <5>1
        <5>3. m <= LinesWritten
            BY <1>4, <4>1, <5>2, SearchNumbers
        <5> QED
            BY <5>3 DEF m
      <4> QED
          BY <4>2, <4>3
    <3>4. Len(files[last]) \in Nat
        BY <1>3
    <3> QED
        BY <1>4, <3>2, <3>3, <3>4
  <2> QED
      BY <2>1, <2>2
<1> HIDE DEF last, line
<1>10. SearchTypeOK'
    BY <1>1, <1>2, <1>3, <1>6 DEF SearchTypeOK, Paths, IndexRow, last
<1>11. TasksFit'
  <2>1. ASSUME NEW j \in Indexers PROVE TaskFits(indexers[j])'
    <3> DEFINE t == indexers[j]
    <3>1. TaskFits(t) /\ t \in IndexerType
        BY <1>1 DEF TasksFit, SearchTypeOK
    <3>2. Going(t) => t.to <= Len(files'[t.file])
      <4> SUFFICES ASSUME Going(t) PROVE t.to <= Len(files'[t.file])
          OBVIOUS
      <4>1. t.file \in DOMAIN files /\ t.to <= Len(files[t.file]) /\ t.to \in Nat
          BY <3>1 DEF TaskFits, IndexerType
      <4>2. Len(files[t.file]) \in Nat /\ Len(files[t.file]) <= Len(files'[t.file])
            /\ Len(files'[t.file]) \in Nat
          BY <1>3, <1>8, <4>1
      <4> QED
          BY <4>1, <4>2
    <3> QED
        BY <1>2, <1>6, <1>7, <3>1, <3>2 DEF TaskFits, Going
  <2> QED
      BY <1>1, <1>2, <2>1 DEF TasksFit
<1>12. IndexRowsFit'
  <2>1. ASSUME NEW r \in rows PROVE RowFits(r)'
    <3>1. RowFits(r)
        BY <1>1 DEF IndexRowsFit
    <3> QED
        BY <1>2, <1>3, <1>7, <1>8, <3>1 DEF RowFits, Means
  <2> QED
      BY <1>1, <1>2, <2>1 DEF IndexRowsFit
<1>13. Termed'
    BY <1>1, <1>2 DEF Termed, HasTerms, WillInsert, Spoiled
<1>14. Filled'
  <2>1. \A p, n : (NotIndexed(p, n)' <=> NotIndexed(p, n)) /\ (Below(p, n)' <=> Below(p, n))
      BY <1>2 DEF NotIndexed, Below, Going, Passed
  <2>2. \A j, p, n : WillFill(indexers[j], p, n)' <=> WillFill(indexers[j], p, n)
      BY <1>2 DEF WillFill, Going
  <2>3. Spoiled' = Spoiled
      BY <1>2 DEF Spoiled
  <2> QED
      BY <1>1, <1>7, <2>1, <2>2, <2>3 DEF Filled, Indexers
<1> QED
    BY <1>9, <1>10, <1>11, <1>12, <1>13, <1>14 DEF SearchInv

(* After a rotation every path that stood for a file stands for another.   *)
LEMMA RotateKeeps == ASSUME SearchInv, Rotate PROVE SearchInv'
<1> DEFINE last == Len(files)
<1>1. /\ SearchTypeOK /\ LinesFit /\ TasksFit /\ IndexRowsFit /\ Termed /\ Filled
    BY DEF SearchInv
<1>2. /\ files' = Append(files, <<>>) /\ skewed' = Listed /\ last <= Rotations
      /\ UNCHANGED <<rows, terms, nextId, searching, indexers, lame>> /\ Counts
    BY DEF Rotate
<1>3. /\ files \in Seq(Seq(1 .. LogLines)) /\ last \in Nat /\ last >= 1
      /\ DOMAIN files = 1 .. last /\ Listed \subseteq Paths
      /\ \A g \in DOMAIN files : files[g] \in Seq(1 .. LogLines) /\ Len(files[g]) \in Nat
      /\ Rotations \in Nat /\ SearchEvents \in Nat
    BY <1>1, FilesAre, SearchNumbers
<1>4. /\ files' \in Seq(Seq(1 .. LogLines)) /\ Len(files') = last + 1
      /\ DOMAIN files' = 1 .. (last + 1)
      /\ \A g \in DOMAIN files : g \in DOMAIN files' /\ files'[g] = files[g]
      /\ files'[last + 1] = <<>>
  <2> HIDE DEF last
  <2>1. <<>> \in Seq(1 .. LogLines)
      BY EmptySeq
  <2>2. /\ files' \in Seq(Seq(1 .. LogLines)) /\ Len(files') = last + 1
        /\ files'[last + 1] = <<>> /\ \A g \in 1 .. last : files'[g] = files[g]
      BY <1>2, <1>3, <2>1, AppendProperties DEF last
  <2>3. DOMAIN files' = 1 .. (last + 1)
      BY <2>2, LenProperties
  <2> QED
      BY <1>3, <2>2, <2>3
<1>5. /\ Listed \subseteq Listed' /\ \A p \in Listed' : p \in Paths
      /\ Spoiled' = lame \cup Listed
  <2>1. \A p \in Paths : p \in Nat
      BY DEF Paths
  <2> QED
      BY <1>2, <1>3, <1>4, <2>1 DEF Listed, FileAt, Spoiled
<1>6. LinesFit'
  <2> SUFFICES ASSUME NEW g \in DOMAIN files', NEW n \in DOMAIN files'[g] PROVE files'[g][n] >= n
      BY DEF LinesFit
  <2>1. CASE g \in DOMAIN files
      BY <1>1, <1>4, <2>1 DEF LinesFit
  <2>2. CASE g \notin DOMAIN files
      BY <1>3, <1>4, <2>2
  <2> QED
      BY <2>1, <2>2
<1>7. SearchTypeOK'
  <2>1. Len(files') \in 1 .. Rotations + 1
      BY <1>2, <1>3, <1>4
  <2>2. skewed' \subseteq Paths
      BY <1>2, <1>3
  <2>3. searchEvents' \in 0 .. SearchEvents
      BY <1>1, <1>2, <1>3 DEF Counts, SearchTypeOK
  <2> QED
      BY <1>1, <1>2, <1>4, <2>1, <2>2, <2>3 DEF SearchTypeOK, Paths, IndexRow
<1> HIDE DEF last
<1>8. TasksFit'
  <2>1. ASSUME NEW j \in Indexers PROVE TaskFits(indexers[j])'
    <3>1. TaskFits(indexers[j])
        BY <1>1 DEF TasksFit
    <3> QED
        BY <1>2, <1>4, <1>5, <3>1 DEF TaskFits, Going
  <2> QED
      BY <1>1, <1>2, <2>1 DEF TasksFit
<1>9. IndexRowsFit'
    BY <1>1, <1>2, <1>5 DEF IndexRowsFit, RowFits
<1>10. Termed'
    BY <1>1, <1>2, <1>5 DEF Termed, IndexRowsFit, RowFits
<1>11. Filled'
  <2> SUFFICES ASSUME NEW p \in Listed', p \notin Spoiled', NEW n \in 1 .. LogLines, Below(p, n)'
               PROVE  FALSE
      BY DEF Filled
  <2>1. \A r \in rows : r.path # p
      BY <1>1, <1>5 DEF IndexRowsFit, RowFits
  <2>2. \A j \in Indexers : Going(indexers[j]) => indexers[j].path # p
      BY <1>1, <1>5 DEF TasksFit, TaskFits
  <2> QED
      BY <1>2, <2>1, <2>2 DEF Below, Going
<1> QED
    BY <1>6, <1>7, <1>8, <1>9, <1>10, <1>11 DEF SearchInv

LEMMA ExitKeeps == ASSUME SearchInv, SearchExit PROVE SearchInv'
<1>1. /\ SearchTypeOK /\ LinesFit /\ TasksFit /\ IndexRowsFit /\ Termed /\ Filled
    BY DEF SearchInv
<1>2. /\ searching' = FALSE /\ indexers' = [i \in Indexers |-> NotIndexing] /\ Counts
      /\ lame' = lame \cup (UNION {CutAt(i) : i \in Indexers})
                      \cup (UNION {indexers[i].todo : i \in Indexers \ {"worker"}})
      /\ UNCHANGED <<files, rows, terms, nextId, skewed>>
    BY DEF SearchExit
<1> DEFINE Cut == UNION {CutAt(i) : i \in Indexers}
           Left == UNION {indexers[i].todo : i \in Indexers \ {"worker"}}
<1>3. lame' = (lame \cup Cut) \cup Left
    BY <1>2
<1>11. /\ NotIndexing.pc = "idle" /\ NotIndexing.found = {} /\ NotIndexing.todo = {}
      /\ NotIndexing \in IndexerType
    BY SearchNumbers DEF NotIndexing, IndexerType, Paths
<1>4. \A i \in Indexers : indexers'[i] = NotIndexing
    BY <1>2
<1>5. SearchTypeOK' /\ LinesFit'
  <2>1. searchEvents' \in 0 .. SearchEvents
      BY <1>1, <1>2, SearchNumbers DEF Counts, SearchTypeOK
  <2>2. indexers' \in [Indexers -> IndexerType]
      BY <1>2, <1>11
  <2>3. lame' \subseteq Paths
    <3>1. \A i \in Indexers : \A p \in CutAt(i) \cup indexers[i].todo : p \in Paths
        BY <1>1 DEF SearchTypeOK, IndexerType, CutAt
    <3>2. \A p \in lame : p \in Paths
        BY <1>1 DEF SearchTypeOK
    <3>3. ASSUME NEW p \in Cut PROVE \E i \in Indexers : p \in CutAt(i)
        OBVIOUS
    <3>4. ASSUME NEW p \in Left PROVE \E i \in Indexers : p \in indexers[i].todo
        OBVIOUS
    <3> QED
        BY ONLY <1>3, <3>1, <3>2, <3>3, <3>4
  <2> QED
      BY <1>1, <1>2, <2>1, <2>2, <2>3 DEF SearchTypeOK, LinesFit, IndexRow
<1>6. TasksFit'
  <2>1. ASSUME NEW j \in Indexers PROVE TaskFits(indexers[j])'
      BY <1>11, <1>4 DEF TaskFits, Going
  <2> QED
      BY <1>11, <1>4, <2>1, SearchNumbers DEF TasksFit
<1>7. IndexRowsFit'
  <2>1. ASSUME NEW r \in rows PROVE RowFits(r)'
      BY <1>1, <1>2, <1>11, <1>4 DEF IndexRowsFit, RowFits, Means, Listed, FileAt
  <2> QED
      BY <1>1, <1>2, <2>1 DEF IndexRowsFit
<1>8. /\ Listed' = Listed /\ Spoiled \subseteq Spoiled'
      /\ \A i \in Indexers : CutAt(i) \subseteq Spoiled'
      /\ \A i \in Indexers \ {"worker"} : indexers[i].todo \subseteq Spoiled'
  <2>1. lame' \subseteq Spoiled' /\ Spoiled \subseteq Spoiled' /\ Listed' = Listed
      BY <1>2 DEF Spoiled, Listed, FileAt
  <2>2. \A i \in Indexers : CutAt(i) \subseteq Cut
      OBVIOUS
  <2>3. \A i \in Indexers \ {"worker"} : indexers[i].todo \subseteq Left
      OBVIOUS
  <2>4. Cut \subseteq lame' /\ Left \subseteq lame'
      BY ONLY <1>3
  <2> HIDE DEF Cut, Left
  <2> QED
      BY <2>1, <2>2, <2>3, <2>4
<1>9. Termed'
  <2>1. ASSUME NEW r \in rows, r.path \notin Spoiled' PROVE HasTerms(r)'
    <3>1. HasTerms(r)
        BY <1>1, <1>8, <2>1 DEF Termed
    <3>2. ASSUME NEW i \in Indexers, WillInsert(indexers[i], r) PROVE FALSE
        BY <1>8, <2>1, <3>2 DEF WillInsert, CutAt
    <3> QED
        BY <1>2, <3>1, <3>2 DEF HasTerms
  <2> QED
      BY <1>2, <2>1 DEF Termed
<1>10. Filled'
  <2>1. ASSUME NEW p \in Listed, p \notin Spoiled', NEW n \in 1 .. LogLines,
               NotIndexed(p, n)', Below(p, n)'
        PROVE  FALSE
    <3>1. NotIndexed(p, n) /\ Below(p, n)
        BY <1>2, <1>11, <1>4, <2>1 DEF NotIndexed, Below, Going
    <3>2. PICK i \in Indexers \ {"worker"} : WillFill(indexers[i], p, n)
        BY <1>1, <1>8, <2>1, <3>1 DEF Filled
    <3> QED
        BY <1>8, <2>1, <3>2 DEF WillFill, Going, CutAt
  <2> QED
      BY <1>8, <2>1 DEF Filled
<1> QED
    BY <1>5, <1>6, <1>7, <1>9, <1>10 DEF SearchInv

LEMMA SearchInitially == SearchInit => SearchInv
<1> SUFFICES ASSUME SearchInit PROVE SearchInv
    OBVIOUS
<1>1. /\ files = <<<<>>>> /\ rows = {} /\ terms = {} /\ nextId = 1
      /\ searching = FALSE /\ indexers = [i \in Indexers |-> NotIndexing]
      /\ lame = {} /\ skewed = {} /\ searchEvents = 0
    BY DEF SearchInit
<1>2. /\ NotIndexing.pc = "idle" /\ NotIndexing.found = {} /\ NotIndexing.todo = {}
      /\ NotIndexing \in IndexerType
    BY SearchNumbers DEF NotIndexing, IndexerType, Paths
<1>3. SearchTypeOK
  <2>1. files \in Seq(Seq(1 .. LogLines)) /\ Len(files) = 1
      BY <1>1
  <2>2. Len(files) \in 1 .. Rotations + 1 /\ searchEvents \in 0 .. SearchEvents
      BY <1>1, <2>1, SearchNumbers
  <2>3. indexers \in [Indexers -> IndexerType]
      BY <1>1, <1>2
  <2>4. searching \in BOOLEAN
      BY <1>1, Zenon
  <2>6. nextId \in Nat \ {0}
    <3>1. nextId = 1
        BY <1>1
    <3> QED
        BY <3>1
  <2>5. /\ rows \subseteq IndexRow /\ terms \subseteq Nat \X (1 .. LogLines)
        /\ lame \subseteq Paths /\ skewed \subseteq Paths
      BY <1>1, Zenon
  <2> QED
      BY <2>1, <2>2, <2>3, <2>4, <2>5, <2>6 DEF SearchTypeOK
<1>4. LinesFit
    BY <1>1 DEF LinesFit
<1>5. TasksFit
    BY <1>1, <1>2, SearchNumbers DEF TasksFit, TaskFits, Going
<1>6. IndexRowsFit /\ Termed
    BY <1>1 DEF IndexRowsFit, Termed
<1>7. Filled
    BY <1>1, <1>2 DEF Filled, Below, Going
<1> QED
    BY <1>3, <1>4, <1>5, <1>6, <1>7 DEF SearchInv

LEMMA SearchStep == ASSUME SearchInv, [SearchNext]_indexVars PROVE SearchInv'
<1>1. CASE StartSearch
  <2>1. indexers["start"].pc = "idle" /\ "start" \in Indexers
      BY <1>1, SearchNumbers DEF StartSearch, SearchInv, TasksFit
  <2> QED
      BY <1>1, <2>1, TasksBegin
<1>2. CASE WakeIndexer
  <2>1. indexers["worker"].pc = "idle" /\ "worker" \in Indexers
      BY <1>2, SearchNumbers DEF WakeIndexer
  <2> QED
      BY <1>2, <2>1, TasksBegin
<1>3. ASSUME NEW i \in Rebuilds, Rebuild(i) PROVE SearchInv'
  <2>1. indexers[i].pc = "idle" /\ i \in Indexers
      BY <1>3, SearchNumbers DEF Rebuild
  <2> QED
      BY <1>3, <2>1, TasksBegin
<1>4. ASSUME NEW i \in Indexers, IndexStep(i) PROVE SearchInv'
    BY <1>4, ClearKeeps, OpenKeeps, InsertRowsKeeps, LookUpKeeps, InsertTermsKeeps, FailureKeeps
    DEF IndexStep
<1>5. CASE UNCHANGED indexVars
  <2>1. /\ SearchTypeOK' /\ LinesFit' /\ Spoiled' = Spoiled /\ Listed' = Listed
      BY <1>5 DEF indexVars, SearchInv, SearchTypeOK, LinesFit, Spoiled, Listed, FileAt
  <2>2. TasksFit'
      BY <1>5 DEF indexVars, SearchInv, TasksFit, TaskFits, Going, Listed, FileAt
  <2>3. IndexRowsFit'
      BY <1>5 DEF indexVars, SearchInv, IndexRowsFit, RowFits, Means, Listed, FileAt
  <2>4. Termed'
      BY <1>5, <2>1 DEF indexVars, SearchInv, Termed, HasTerms, WillInsert
  <2>5. Filled'
    <3>1. \A p, n : (NotIndexed(p, n)' <=> NotIndexed(p, n)) /\ (Below(p, n)' <=> Below(p, n))
        BY <1>5 DEF indexVars, NotIndexed, Below, Going, Passed
    <3>2. \A j, p, n : WillFill(indexers[j], p, n)' <=> WillFill(indexers[j], p, n)
        BY <1>5 DEF indexVars, WillFill, Going
    <3> QED
        BY <2>1, <3>1, <3>2 DEF SearchInv, Filled, Indexers
  <2> QED
      BY <2>1, <2>2, <2>3, <2>4, <2>5 DEF SearchInv
<1> QED
    BY <1>1, <1>2, <1>3, <1>4, <1>5, AppendKeeps, RotateKeeps, ExitKeeps DEF SearchNext

(* When nobody is at work there is no gap, and nothing left to insert.     *)
LEMMA WholeWhenIdle == SearchInv => IndexWhole
<1> SUFFICES ASSUME SearchInv, \A i \in Indexers : indexers[i].pc = "idle",
                    NEW p \in Listed \ (lame \cup skewed)
             PROVE  /\ {r.line : r \in RowsOfPath(p)} = 1 .. LastLine(p)
                    /\ \A r \in RowsOfPath(p) :
                          /\ r.line \in DOMAIN files[FileAt(p)]
                          /\ r.text = files[FileAt(p)][r.line]
                          /\ {t \in terms : t[1] = r.id} = {<<r.id, r.text>>}
    BY DEF IndexWhole
<1>1. /\ p \notin Spoiled /\ SearchTypeOK /\ IndexRowsFit /\ Termed /\ Filled
      /\ rows \subseteq IndexRow
    BY DEF SearchInv, SearchTypeOK, Spoiled
<1>2. ASSUME NEW n \in 1 .. LastLine(p) PROVE \E r \in rows : r.path = p /\ r.line = n
  <2> SUFFICES ASSUME NotIndexed(p, n) PROVE FALSE
      BY DEF NotIndexed
  <2>1. /\ LastLine(p) \in 0 .. LogLines
        /\ LastLine(p) = 0 \/ \E r \in rows : r.path = p /\ r.line = LastLine(p)
      BY <1>1, LastIndexed
  <2>2. n \in 1 .. LogLines
      BY <2>1, SearchNumbers
  <2>3. PICK r \in rows : r.path = p /\ r.line = LastLine(p)
      BY <2>1
  <2>4. r.line > n
      BY <2>1, <2>3 DEF NotIndexed
  <2>5. \E i \in Indexers : WillFill(indexers[i], p, n)
      BY <1>1, <2>2, <2>3, <2>4 DEF Filled, Below
  <2> QED
      BY <2>5 DEF WillFill, Going
<1>3. \A r \in rows : r.path = p => r.line \in 1 .. LastLine(p)
    BY <1>1, LastIndexed, SearchNumbers DEF IndexRow
<1>4. {r.line : r \in RowsOfPath(p)} = 1 .. LastLine(p)
    BY <1>2, <1>3 DEF RowsOfPath
<1>5. ASSUME NEW r \in rows, r.path = p
      PROVE  /\ r.line \in DOMAIN files[FileAt(p)] /\ r.text = files[FileAt(p)][r.line]
             /\ {t \in terms : t[1] = r.id} = {<<r.id, r.text>>}
  <2>1. RowFits(r) /\ HasTerms(r) /\ r.path \notin skewed
      BY <1>1, <1>5 DEF IndexRowsFit, Termed
  <2>2. <<r.id, r.text>> \in terms
      BY <2>1 DEF HasTerms, WillInsert
  <2>3. \A t \in terms : t[1] = r.id => t = <<r.id, r.text>>
      BY <2>1 DEF RowFits, Means
  <2> QED
      BY <1>5, <2>1, <2>2, <2>3 DEF RowFits
<1> QED
    BY <1>4, <1>5 DEF RowsOfPath

(* For any number of full indexings, of lines, rotations and failures, and *)
(* any size of a batch: whenever nobody is indexing, the index of a file   *)
(* that no error, no rotation and no end of the process in the middle of   *)
(* it has spoiled since it was last emptied is a beginning of the file,    *)
(* with the terms of each of its lines and no others.                      *)
THEOREM IndexWholeHolds == SearchSpec => []IndexWhole
    BY SearchInitially, SearchStep, WholeWhenIdle, PTL DEF SearchSpec

(* The variables of the search index have their types.                     *)
THEOREM SearchTypeCorrect == SearchSpec => []SearchTypeOK
<1>1. SearchInv => SearchTypeOK
    BY DEF SearchInv
<1> QED
    BY <1>1, SearchInitially, SearchStep, PTL DEF SearchSpec

(***************************************************************************)
(* The index of log entries in memory.                                     *)
(***************************************************************************)

(* Too many later entries for the start to load this one.                  *)
Later(e) == {d \in onDisk : d.at >= e.at}
CrowdedOut(e) == Cardinality(Later(e)) > LoadLimit

(* What a search does not have to find.                                    *)
LeftOut(e) == PastRetention(e) \/ CrowdedOut(e)

EntriesTypes ==
    /\ LogIndexTypeOK /\ IsFiniteSet(onDisk) /\ IsFiniteSet(pendingSaves)
    /\ \A c, d \in searchCache : c = d

(* What is saved or being saved is in memory while the program runs.       *)
InMemory ==
    /\ ~indexUp => inMemory = {} /\ pendingSaves = {} /\ searchCache = {}
    /\ \A e \in pendingSaves : e \in inMemory \/ PastRetention(e)
    /\ indexUp => \A e \in onDisk : e \in inMemory \/ LeftOut(e)

(* What was acknowledged is saved, and is in every answer found since.     *)
Acknowledged ==
    /\ \A a \in acknowledged : a.entry \in onDisk
    /\ \A c \in searchCache : c.at <= now
    /\ \A c \in searchCache : \A a \in acknowledged :
          a.at < c.at => a.entry \in c.found \/ LeftOut(a.entry)

EntriesInv == EntriesTypes /\ InMemory /\ Acknowledged /\ missed = {}

LEMMA EntriesNumbers ==
    /\ SearchTtl \in Nat /\ Retention \in Nat /\ LoadLimit \in Nat /\ IndexHorizon \in Nat
    /\ IndexOffsets \subseteq Int
    /\ \A e \in Logged : e.at \in Instants /\ e.at \in Nat
    /\ Instants \subseteq Nat
    BY IndexAssumption DEF IndexAssumption, Logged, Instants

LEMMA EntriesInitially == LogIndexInit => EntriesInv
<1> SUFFICES ASSUME LogIndexInit PROVE EntriesInv
    OBVIOUS
<1>1. 0 \in Instants /\ 0 \in 0 .. IndexStarts
    BY IndexAssumption DEF Instants, IndexAssumption
<1>2. LogIndexTypeOK
    BY <1>1 DEF LogIndexTypeOK, LogIndexInit
<1>3. EntriesTypes
    BY <1>2, FS_EmptySet DEF EntriesTypes, LogIndexInit
<1> QED
    BY <1>3 DEF EntriesInv, InMemory, Acknowledged, LogIndexInit

(* With more on the disk, what was excused still is.                       *)
LEMMA StillLeftOut ==
    ASSUME EntriesTypes, now' = now \/ now' = now + 1,
           onDisk \subseteq onDisk', IsFiniteSet(onDisk'), NEW e \in Logged, LeftOut(e)
    PROVE  LeftOut(e)'
<1>1. PastRetention(e) => PastRetention(e)'
    BY EntriesNumbers DEF PastRetention, PastBy, EntriesTypes, LogIndexTypeOK
<1>2. CrowdedOut(e) => CrowdedOut(e)'
  <2>1. Later(e) \subseteq Later(e)'
      BY DEF Later
  <2>2. IsFiniteSet(Later(e)') /\ Later(e)' \subseteq onDisk'
      BY FS_Subset DEF Later
  <2>3. /\ Cardinality(Later(e)) \in Nat /\ Cardinality(Later(e)') \in Nat
        /\ Cardinality(Later(e)) <= Cardinality(Later(e)')
      BY <2>1, <2>2, FS_Subset, FS_CardinalityType
  <2> QED
      BY <2>3, EntriesNumbers DEF CrowdedOut
<1> QED
    BY <1>1, <1>2 DEF LeftOut

(* A start loads the newest, and crowds out what it does not load.         *)
LEMMA NewestLoaded ==
    ASSUME EntriesTypes, NEW S \in SUBSET onDisk,
           Cardinality(S) = Min({Cardinality(onDisk), LoadLimit}),
           \A d \in onDisk \ S, e \in S : d.at <= e.at
    PROVE  \A e \in onDisk \ S : CrowdedOut(e)
<1> SUFFICES ASSUME NEW e \in onDisk, e \notin S PROVE CrowdedOut(e)
    OBVIOUS
<1>1. IsFiniteSet(S) /\ Cardinality(S) \in Nat /\ Cardinality(onDisk) \in Nat
    BY FS_Subset, FS_CardinalityType DEF EntriesTypes
<1>2. Cardinality(S) # Cardinality(onDisk)
    BY FS_Subset DEF EntriesTypes
<1>3. Cardinality(S) = LoadLimit
  <2> DEFINE T == {Cardinality(onDisk), LoadLimit}
  <2>1. \E x \in T : \A y \in T : x <= y
      BY <1>1, EntriesNumbers
  <2>2. Min(T) \in T
    <3> HIDE DEF T
    <3> QED
        BY <2>1 DEF Min
  <2> QED
      BY <1>2, <2>2
<1>4. S \cup {e} \subseteq Later(e)
    BY EntriesNumbers DEF Later, EntriesTypes, LogIndexTypeOK
<1>5. Cardinality(S \cup {e}) = LoadLimit + 1
    BY <1>1, <1>3, FS_AddElement
<1>6. IsFiniteSet(Later(e))
    BY FS_Subset DEF Later, EntriesTypes
<1>7. Cardinality(S \cup {e}) <= Cardinality(Later(e)) /\ Cardinality(Later(e)) \in Nat
    BY <1>4, <1>6, FS_Subset, FS_CardinalityType
<1> QED
    BY <1>5, <1>7, EntriesNumbers DEF CrowdedOut

(* Nothing that is due is missing from memory or from a kept answer.       *)
LEMMA DueFound ==
    ASSUME EntriesInv, indexUp
    PROVE  /\ Due \subseteq inMemory
           /\ \A c \in FreshAnswers : Due \subseteq c.found
<1> SUFFICES ASSUME NEW e \in Due
             PROVE  e \in inMemory /\ \A c \in FreshAnswers : e \in c.found
    OBVIOUS
<1>1. PICK a \in acknowledged : a.entry = e /\ now - a.at >= SearchTtl
    BY DEF Due
<1>2. ~LeftOut(e)
  <2>1. Cardinality(Later(e)) <= LoadLimit /\ ~PastRetention(e)
      BY DEF Due, Later
  <2>2. Cardinality(Later(e)) \in Nat
    <3>1. IsFiniteSet(Later(e))
        BY FS_Subset DEF Later, EntriesInv, EntriesTypes
    <3> QED
        BY <3>1, FS_CardinalityType
  <2> QED
      BY <2>1, <2>2, EntriesNumbers DEF LeftOut, CrowdedOut
<1>3. e \in inMemory
    BY <1>1, <1>2 DEF EntriesInv, InMemory, Acknowledged
<1>4. ASSUME NEW c \in FreshAnswers PROVE e \in c.found
  <2>1. a.at \in Nat /\ c.at \in Nat /\ now \in Nat /\ c \in searchCache
      BY EntriesNumbers DEF EntriesInv, EntriesTypes, LogIndexTypeOK, FreshAnswers
  <2>2. a.at < c.at
      BY <1>1, <2>1, EntriesNumbers DEF FreshAnswers
  <2> QED
      BY <1>1, <1>2, <2>1, <2>2 DEF EntriesInv, Acknowledged
<1> QED
    BY <1>3, <1>4

LEMMA EntriesStep == ASSUME EntriesInv, [LogIndexNext]_logIndexVars PROVE EntriesInv'
<1> USE EntriesNumbers
<1>1. EntriesTypes /\ InMemory /\ Acknowledged
    BY DEF EntriesInv
<1>2. /\ inMemory \subseteq Logged /\ onDisk \subseteq Logged /\ pendingSaves \subseteq Logged
      /\ searchCache \subseteq [found : SUBSET Logged, at : Instants]
      /\ indexUp \in BOOLEAN /\ indexStarts \in 0 .. IndexStarts /\ now \in Instants
      /\ acknowledged \subseteq [entry : Logged, at : Instants] /\ missed = {}
      /\ now \in Nat /\ IndexStarts \in Nat
      /\ IsFiniteSet(onDisk) /\ IsFiniteSet(pendingSaves) /\ \A c, d \in searchCache : c = d
    BY IndexAssumption DEF EntriesInv, EntriesTypes, LogIndexTypeOK, IndexAssumption, Instants
<1>3. CASE StartIndex
  <2>1. PICK S \in SUBSET onDisk :
            /\ Cardinality(S) = Min({Cardinality(onDisk), LoadLimit})
            /\ \A d \in onDisk \ S, e \in S : d.at <= e.at
            /\ inMemory' = inMemory \cup S
      BY <1>3 DEF StartIndex
  <2>2. \A e \in onDisk \ S : CrowdedOut(e)
      BY <1>1, <2>1, NewestLoaded
  <2>3. /\ onDisk' = onDisk /\ now' = now /\ pendingSaves' = pendingSaves
        /\ searchCache' = searchCache /\ acknowledged' = acknowledged /\ missed' = missed /\ indexUp' = TRUE
        /\ indexStarts' = indexStarts + 1 /\ indexStarts < IndexStarts
        /\ inMemory = {} /\ pendingSaves = {} /\ searchCache = {}
      BY <1>1, <1>3 DEF StartIndex, InMemory
  <2>4. EntriesTypes'
      BY <1>2, <2>1, <2>3 DEF EntriesTypes, LogIndexTypeOK
  <2>5. \A e \in onDisk : e \in inMemory' \/ LeftOut(e)'
      BY <2>1, <2>2, <2>3 DEF LeftOut, CrowdedOut, Later, PastRetention, PastBy
  <2>6. InMemory'
      BY <2>3, <2>5 DEF InMemory
  <2>7. Acknowledged'
      BY <1>1, <2>3 DEF Acknowledged
  <2> QED
      BY <1>2, <2>3, <2>4, <2>6, <2>7 DEF EntriesInv
<1>4. CASE ExitIndex
  <2>1. PICK S \in SUBSET pendingSaves : onDisk' = onDisk \cup S
      BY <1>4 DEF ExitIndex
  <2>2. IsFiniteSet(onDisk') /\ onDisk \subseteq onDisk' /\ onDisk' \subseteq Logged
      BY <1>2, <2>1, FS_Subset, FS_Union
  <2>3. EntriesTypes'
      BY <1>2, <1>4, <2>2, FS_EmptySet DEF EntriesTypes, LogIndexTypeOK, ExitIndex
  <2>4. InMemory'
      BY <1>4 DEF InMemory, ExitIndex
  <2>5. Acknowledged'
      BY <1>1, <1>4, <2>2 DEF Acknowledged, ExitIndex
  <2> QED
      BY <1>2, <1>4, <2>3, <2>4, <2>5 DEF EntriesInv, ExitIndex
<1>5. CASE \E i \in LogIds : IndexEntry(i)
  <2>1. PICK i \in LogIds : IndexEntry(i)
      BY <1>5
  <2> DEFINE e == [id |-> i, at |-> now]
  <2>2. e \in Logged
      BY <1>2 DEF Logged
  <2>3. IsFiniteSet(pendingSaves') /\ pendingSaves' = pendingSaves \cup {e}
      BY <1>2, <2>1, FS_AddElement DEF IndexEntry
  <2>4. EntriesTypes'
      BY <1>2, <2>1, <2>2, <2>3 DEF EntriesTypes, LogIndexTypeOK, IndexEntry
  <2>5. \A x : LeftOut(x)' = LeftOut(x) /\ PastRetention(x)' = PastRetention(x)
      BY <2>1 DEF LeftOut, CrowdedOut, Later, PastRetention, PastBy, IndexEntry
  <2>6. InMemory'
      BY <1>1, <2>1, <2>3, <2>5 DEF InMemory, IndexEntry
  <2>7. Acknowledged'
      BY <1>1, <2>1, <2>5 DEF Acknowledged, IndexEntry
  <2> QED
      BY <1>2, <2>1, <2>4, <2>6, <2>7 DEF EntriesInv, IndexEntry
<1>6. CASE \E e \in pendingSaves : SaveEntry(e)
  <2>1. PICK e \in pendingSaves : SaveEntry(e)
      BY <1>6
  <2>2. /\ IsFiniteSet(onDisk') /\ IsFiniteSet(pendingSaves') /\ onDisk' = onDisk \cup {e}
        /\ onDisk \subseteq onDisk' /\ e \in Logged /\ pendingSaves' \subseteq pendingSaves
      BY <1>2, <2>1, FS_AddElement, FS_RemoveElement DEF SaveEntry
  <2>3. EntriesTypes'
      BY <1>2, <2>1, <2>2 DEF EntriesTypes, LogIndexTypeOK, SaveEntry
  <2>4. /\ now' = now /\ inMemory' = inMemory /\ indexUp' = indexUp /\ searchCache' = searchCache
        /\ missed' = missed /\ acknowledged' = acknowledged \cup {[entry |-> e, at |-> now]}
      BY <2>1 DEF SaveEntry
  <2>5. \A x \in Logged : LeftOut(x) => LeftOut(x)'
      BY <1>1, <2>2, <2>4, StillLeftOut
  <2>6. \A x : PastRetention(x)' = PastRetention(x)
      BY <2>4 DEF PastRetention, PastBy
  <2>7. InMemory'
    <3>1. indexUp
        BY <1>1, <1>2, <2>1 DEF InMemory
    <3>2. e \in inMemory \/ LeftOut(e)'
        BY <1>1, <2>2, <2>6 DEF InMemory, LeftOut
    <3>3. \A x \in onDisk' : x \in inMemory \/ LeftOut(x)'
        BY <1>1, <1>2, <2>2, <2>5, <3>1, <3>2 DEF InMemory
    <3> QED
        BY <1>1, <2>2, <2>4, <2>6, <3>1, <3>3 DEF InMemory
  <2>8. Acknowledged'
    <3>1. \A a \in acknowledged' : a.entry \in onDisk'
        BY <1>1, <2>2, <2>4 DEF Acknowledged
    <3>2. ASSUME NEW c \in searchCache, NEW a \in acknowledged', a.at < c.at
          PROVE  a.entry \in c.found \/ LeftOut(a.entry)'
      <4>1. c.at <= now /\ c.at \in Nat
          BY <1>1, <1>2 DEF Acknowledged
      <4>2. a \in acknowledged
          BY <1>2, <2>4, <3>2, <4>1
      <4>3. a.entry \in Logged
          BY <1>2, <4>2
      <4> QED
          BY <1>1, <2>5, <3>2, <4>2, <4>3 DEF Acknowledged
    <3>3. \A c \in searchCache : c.at <= now
        BY <1>1 DEF Acknowledged
    <3> QED
        BY <3>1, <3>2, <3>3, <2>4 DEF Acknowledged
  <2> QED
      BY <1>2, <2>3, <2>4, <2>7, <2>8 DEF EntriesInv
<1>7. CASE \E e \in pendingSaves : SaveFails(e)
  <2>1. PICK e \in pendingSaves : SaveFails(e)
      BY <1>7
  <2>2. /\ IsFiniteSet(pendingSaves') /\ pendingSaves' \subseteq pendingSaves
        /\ UNCHANGED <<inMemory, onDisk, searchCache, indexUp, indexStarts, now, acknowledged,
                       missed>>
      BY <1>2, <2>1, FS_RemoveElement DEF SaveFails
  <2>3. \A x : LeftOut(x)' = LeftOut(x) /\ PastRetention(x)' = PastRetention(x)
      BY <2>2 DEF LeftOut, CrowdedOut, Later, PastRetention, PastBy
  <2>4. EntriesTypes'
      BY <1>2, <2>2 DEF EntriesTypes, LogIndexTypeOK
  <2>5. InMemory' /\ Acknowledged'
      BY <1>1, <2>2, <2>3 DEF InMemory, Acknowledged
  <2> QED
      BY <1>2, <2>2, <2>4, <2>5 DEF EntriesInv
<1>8. CASE SearchEntries
  <2>1. /\ UNCHANGED <<inMemory, onDisk, pendingSaves, indexUp, indexStarts, now, acknowledged>>
        /\ indexUp
      BY <1>8 DEF SearchEntries
  <2>2. \A x : LeftOut(x)' = LeftOut(x) /\ PastRetention(x)' = PastRetention(x)
      BY <2>1 DEF LeftOut, CrowdedOut, Later, PastRetention, PastBy
  <2>3. missed' = {}
      BY <1>8, <2>1, DueFound DEF SearchEntries
  <2>4. CASE searchCache' = searchCache
    <3>1. EntriesTypes'
        BY <1>2, <2>1, <2>3, <2>4 DEF EntriesTypes, LogIndexTypeOK
    <3>2. InMemory' /\ Acknowledged'
        BY <1>1, <2>1, <2>2, <2>4 DEF InMemory, Acknowledged
    <3> QED
        BY <2>3, <3>1, <3>2 DEF EntriesInv
  <2>5. CASE searchCache' = {[found |-> inMemory, at |-> now]}
    <3>1. EntriesTypes'
        BY <1>2, <2>1, <2>3, <2>5 DEF EntriesTypes, LogIndexTypeOK
    <3>2. InMemory'
        BY <1>1, <2>1, <2>2 DEF InMemory
    <3>3. \A a \in acknowledged : a.entry \in inMemory \/ LeftOut(a.entry)
        BY <1>1, <2>1 DEF InMemory, Acknowledged
    <3>4. Acknowledged'
        BY <1>1, <1>2, <2>1, <2>2, <2>5, <3>3 DEF Acknowledged
    <3> QED
        BY <2>3, <3>1, <3>2, <3>4 DEF EntriesInv
  <2> QED
      BY <1>8, <2>4, <2>5 DEF SearchEntries
<1>9. CASE CleanAnswers
  <2>1. /\ UNCHANGED <<inMemory, onDisk, pendingSaves, indexUp, indexStarts, now, acknowledged,
                       missed>>
        /\ indexUp /\ searchCache' \subseteq searchCache
      BY <1>9 DEF CleanAnswers
  <2>2. \A x : LeftOut(x)' = LeftOut(x) /\ PastRetention(x)' = PastRetention(x)
      BY <2>1 DEF LeftOut, CrowdedOut, Later, PastRetention, PastBy
  <2>3. EntriesTypes'
      BY <1>2, <2>1 DEF EntriesTypes, LogIndexTypeOK
  <2>4. InMemory' /\ Acknowledged'
      BY <1>1, <2>1, <2>2 DEF InMemory, Acknowledged
  <2> QED
      BY <1>2, <2>1, <2>3, <2>4 DEF EntriesInv
<1>10. CASE ForgetOld
  <2>0. PICK o \in IndexOffsets : inMemory' = {e \in inMemory : ~PastBy(e, o)}
      BY <1>10 DEF ForgetOld
  <2>1. /\ UNCHANGED <<onDisk, pendingSaves, searchCache, indexUp, indexStarts, now, acknowledged,
                       missed>>
        /\ indexUp /\ inMemory' \subseteq inMemory
      BY <1>10, <2>0 DEF ForgetOld
  <2>2. \A x : LeftOut(x)' = LeftOut(x) /\ PastRetention(x)' = PastRetention(x)
      BY <2>1 DEF LeftOut, CrowdedOut, Later, PastRetention, PastBy
  <2>3. EntriesTypes'
      BY <1>2, <2>1 DEF EntriesTypes, LogIndexTypeOK
  <2>4. InMemory'
    <3>1. \A x : x \in inMemory => x \in inMemory' \/ PastRetention(x)
        BY <2>0 DEF PastRetention
    <3>2. \A x : PastRetention(x) => LeftOut(x)
        BY DEF LeftOut
    <3> QED
        BY <1>1, <2>1, <2>2, <3>1, <3>2 DEF InMemory
  <2>5. Acknowledged'
      BY <1>1, <2>1, <2>2 DEF Acknowledged
  <2> QED
      BY <1>2, <2>1, <2>3, <2>4, <2>5 DEF EntriesInv
<1>11. CASE TimePasses
  <2>1. /\ UNCHANGED <<inMemory, onDisk, pendingSaves, searchCache, indexUp, indexStarts,
                       acknowledged, missed>>
        /\ now < IndexHorizon /\ now' = now + 1
      BY <1>11 DEF TimePasses
  <2>2. now' \in Instants
      BY <1>2, <2>1 DEF Instants
  <2>3. EntriesTypes'
      BY <1>2, <2>1, <2>2 DEF EntriesTypes, LogIndexTypeOK
  <2>4. \A x \in Logged : LeftOut(x) => LeftOut(x)'
      BY <1>1, <1>2, <2>1, StillLeftOut
  <2>5. \A x \in Logged : PastRetention(x) => PastRetention(x)'
      BY <1>2, <2>1 DEF PastRetention, PastBy
  <2>6. InMemory'
      BY <1>1, <1>2, <2>1, <2>4, <2>5 DEF InMemory
  <2>7. Acknowledged'
    <3>1. \A c \in searchCache : c.at <= now'
      <4> SUFFICES ASSUME NEW c \in searchCache PROVE c.at <= now'
          OBVIOUS
      <4>1. c.at <= now /\ c.at \in Nat
          BY <1>1, <1>2 DEF Acknowledged
      <4> QED
          BY <1>2, <2>1, <4>1
    <3>2. \A a \in acknowledged : a.entry \in Logged
        BY <1>2
    <3> QED
        BY <1>1, <2>1, <2>4, <3>1, <3>2 DEF Acknowledged
  <2> QED
      BY <1>2, <2>1, <2>3, <2>6, <2>7 DEF EntriesInv
<1>12. CASE UNCHANGED logIndexVars
  <2>1. \A x : LeftOut(x)' = LeftOut(x) /\ PastRetention(x)' = PastRetention(x)
      BY <1>12 DEF LeftOut, CrowdedOut, Later, PastRetention, PastBy, logIndexVars
  <2>2. EntriesTypes'
      BY <1>2, <1>12 DEF EntriesTypes, LogIndexTypeOK, logIndexVars
  <2> QED
      BY <1>1, <1>2, <1>12, <2>1, <2>2 DEF EntriesInv, InMemory, Acknowledged, logIndexVars
<1> QED
    BY <1>3, <1>4, <1>5, <1>6, <1>7, <1>8, <1>9, <1>10, <1>11, <1>12 DEF LogIndexNext

LEMMA EntriesFound == EntriesInv => SearchFinds
<1> SUFFICES ASSUME EntriesInv PROVE Cardinality(searchCache) <= 1
    BY DEF SearchFinds, EntriesInv
<1>1. CASE searchCache = {}
    BY <1>1, FS_EmptySet
<1>2. CASE searchCache # {}
  <2>1. PICK c : searchCache = {c}
      BY <1>2 DEF EntriesInv, EntriesTypes
  <2> QED
      BY <2>1, FS_Singleton
<1> QED
    BY <1>1, <1>2

(* For every retention, life of an answer and size of a load: a search     *)
(* finds what was acknowledged the life of a kept answer ago, whether the  *)
(* program was restarted since or not, up to what the retention and the    *)
(* size of a load leave out; and one answer is kept at most.               *)
THEOREM SearchFindsHolds == LogIndexSpec => []SearchFinds
    BY EntriesFound, EntriesInitially, EntriesStep, PTL DEF LogIndexSpec

(***************************************************************************)
(* The retention of the audit logs.                                        *)
(***************************************************************************)

Writing == \E k \in Cleaners : cleaners[k] = "writing"

(* Before the log is removed there is a whole compressed one, or one that  *)
(* is being written; an incomplete one is being written.                   *)
RetentionInv ==
    /\ RetentionTypeOK /\ LogKept
    /\ (logAge # "ancient" /\ ~lossy) =>
          /\ compressed = "incomplete" => Writing
          /\ \A k \in Cleaners : cleaners[k] = "removing" => compressed = "whole" \/ Writing

LEMMA OneAsleepOnly ==
    /\ OneAsleep \in [Cleaners -> {"none", "asleep"}]
    /\ \A k \in Cleaners : OneAsleep[k] \notin {"writing", "removing"}
    BY DEF OneAsleep

LEMMA RetentionInitially == RetentionInit => RetentionInv
<1> SUFFICES ASSUME RetentionInit PROVE RetentionInv
    OBVIOUS
<1>1. cleaners \in [Cleaners -> {"none", "asleep"}]
    BY OneAsleepOnly DEF RetentionInit
<1>2. plain /\ plain \in BOOLEAN /\ lossy \in BOOLEAN
    BY DEF RetentionInit
<1>3. logAge = "kept" /\ compressed = "absent" /\ cleaners = OneAsleep
    BY DEF RetentionInit
<1>4. retentionFaults \in [failures : 0 .. CompressFailures, exits : 0 .. ServiceExits]
    BY RetentionAssumption DEF RetentionInit, RetentionAssumption
<1>5. RetentionTypeOK
    BY <1>1, <1>2, <1>3, <1>4 DEF RetentionTypeOK
<1> QED
    BY <1>2, <1>3, <1>5, OneAsleepOnly DEF RetentionInv, LogKept

LEMMA RetentionStep == ASSUME RetentionInv, [RetentionNext]_retentionVars PROVE RetentionInv'
<1> USE DEF RetentionInv, RetentionTypeOK, LogKept, Writing, Goto
<1>1. CASE GrowsOld
    BY <1>1 DEF GrowsOld
<1>2. CASE RetentionExit
  <2>1. retentionFaults' \in [failures : 0 .. CompressFailures, exits : 0 .. ServiceExits]
      BY <1>2, RetentionAssumption DEF RetentionExit, RetentionAssumption
  <2>2. lossy' \in BOOLEAN /\ (~lossy' => ~lossy /\ ~Writing)
    <3>1. CASE Writing
        BY <1>2, <3>1 DEF RetentionExit
    <3>2. CASE ~Writing
        BY <1>2, <3>2 DEF RetentionExit
    <3> QED
        BY <3>1, <3>2
  <2> QED
      BY <1>2, <2>1, <2>2, OneAsleepOnly DEF RetentionExit
<1>3. ASSUME NEW k \in Cleaners, BeginCleaner(k) PROVE RetentionInv'
    BY <1>3 DEF BeginCleaner
<1>4. ASSUME NEW k \in Cleaners, CleanerWakes(k) PROVE RetentionInv'
    BY <1>4 DEF CleanerWakes
<1>5. ASSUME NEW k \in Cleaners, ReadLog(k) PROVE RetentionInv'
    BY <1>5 DEF ReadLog
<1>6. ASSUME NEW k \in Cleaners, OpenTarget(k) PROVE RetentionInv'
    BY <1>6 DEF OpenTarget
<1>7. ASSUME NEW k \in Cleaners, WriteTarget(k) PROVE RetentionInv'
    BY <1>7 DEF WriteTarget
<1>8. ASSUME NEW k \in Cleaners, CompressFails(k) PROVE RetentionInv'
  <2>1. retentionFaults' \in [failures : 0 .. CompressFailures, exits : 0 .. ServiceExits]
      BY <1>8, RetentionAssumption DEF CompressFails, RetentionAssumption
  <2> QED
      BY <1>8, <2>1 DEF CompressFails
<1>9. ASSUME NEW k \in Cleaners, RemoveLog(k) PROVE RetentionInv'
    BY <1>9 DEF RemoveLog
<1>10. ASSUME NEW k \in Cleaners, RemoveAncient(k) PROVE RetentionInv'
    BY <1>10 DEF RemoveAncient
<1>11. CASE UNCHANGED retentionVars
    BY <1>11 DEF retentionVars
<1> QED
    BY <1>1, <1>2, <1>3, <1>4, <1>5, <1>6, <1>7, <1>8, <1>9, <1>10, <1>11 DEF RetentionNext, Clean

(***************************************************************************)
(* The audit: what is queued, being saved and saved.                       *)
(***************************************************************************)

Saving == auditor.pc \in {"database", "file"}

AuditTypes ==
    /\ DOMAIN events = 1 .. Len(events) /\ events \in Seq(EventType)
    /\ auditQueue \in Seq(Nat) /\ database \in Seq(Nat) /\ journal \in Seq(Nat)
    /\ auditor.pc \in {"off", "ready", "database", "file"}
    /\ auditor = [pc |-> auditor.pc, event |-> auditor.event]
    /\ Range(auditQueue) \cup Range(database) \cup Range(journal) \subseteq DOMAIN events
    /\ Saving => auditor.event \in DOMAIN events
    /\ auditFaults \in [failures : 0 .. SaveFailures, exits : 0 .. MaxExits]

(* What is saved was logged before what is being saved, and that before    *)
(* what is queued.                                                         *)
InOrder ==
    /\ Increasing(auditQueue) /\ Increasing(database) /\ Increasing(journal)
    /\ \A j \in DOMAIN auditQueue :
          /\ Saving => auditor.event < auditQueue[j]
          /\ \A i \in DOMAIN database : database[i] < auditQueue[j]
          /\ \A i \in DOMAIN journal : journal[i] < auditQueue[j]
    /\ Saving => \A i \in DOMAIN journal : journal[i] < auditor.event
    /\ auditor.pc = "database" => \A i \in DOMAIN database : database[i] < auditor.event

Saved(n) ==
    /\ \/ n \in Range(database) \/ <<"database", n>> \in dropped
       \/ auditor.pc = "database" /\ auditor.event = n
    /\ \/ n \in Range(journal) \/ <<"file", n>> \in dropped
       \/ Saving /\ auditor.event = n

SavingInv ==
    /\ AuditTypes /\ InOrder
    /\ \A n \in DOMAIN events : n \in Range(auditQueue) \/ Saved(n)

LEMMA AppendRange ==
    ASSUME NEW S, NEW q \in Seq(S), NEW x \in S
    PROVE  /\ Append(q, x) \in Seq(S)
           /\ DOMAIN Append(q, x) = 1 .. Len(q) + 1 /\ DOMAIN q = 1 .. Len(q) /\ Len(q) \in Nat
           /\ \A i \in DOMAIN q : Append(q, x)[i] = q[i]
           /\ Append(q, x)[Len(q) + 1] = x
           /\ Range(Append(q, x)) = Range(q) \cup {x}
<1>1. /\ Append(q, x) \in Seq(S) /\ DOMAIN Append(q, x) = 1 .. Len(q) + 1 /\ DOMAIN q = 1 .. Len(q)
      /\ Len(q) \in Nat /\ \A i \in DOMAIN q : Append(q, x)[i] = q[i]
      /\ Append(q, x)[Len(q) + 1] = x
    BY AppendProperties
<1>2. 1 .. Len(q) + 1 = (DOMAIN q) \cup {Len(q) + 1}
    BY <1>1
<1> QED
    BY <1>1, <1>2 DEF Range

LEMMA AppendIncreases ==
    ASSUME NEW q \in Seq(Nat), NEW x \in Nat, Increasing(q), \A i \in DOMAIN q : q[i] < x
    PROVE  Increasing(Append(q, x))
<1> DEFINE p == Append(q, x)
<1>1. /\ DOMAIN p = 1 .. Len(q) + 1 /\ DOMAIN q = 1 .. Len(q) /\ Len(q) \in Nat
      /\ \A i \in DOMAIN q : p[i] = q[i]
      /\ p[Len(q) + 1] = x
    BY AppendRange
<1> HIDE DEF p
<1>2. ASSUME NEW i \in DOMAIN p, NEW j \in DOMAIN p, i < j PROVE p[i] < p[j]
  <2>1. i \in DOMAIN q /\ (j \in DOMAIN q \/ j = Len(q) + 1)
      BY <1>1, <1>2
  <2> QED
      BY <1>1, <1>2, <2>1 DEF Increasing
<1>3. Increasing(p)
    BY <1>2 DEF Increasing
<1> QED
    BY <1>3 DEF p

(* One more at the end.                                                    *)
Longer(p, q, x) ==
    /\ p \in Seq(Nat) /\ Increasing(p) /\ Range(p) = Range(q) \cup {x}
    /\ \A i \in DOMAIN p : p[i] = x \/ (i \in DOMAIN q /\ p[i] = q[i])

LEMMA OneSaved ==
    ASSUME NEW q \in Seq(Nat), NEW x \in Nat, Increasing(q), \A i \in DOMAIN q : q[i] < x
    PROVE  Longer(Append(q, x), q, x)
<1> DEFINE p == Append(q, x)
<1>1. /\ p \in Seq(Nat) /\ DOMAIN p = 1 .. Len(q) + 1 /\ DOMAIN q = 1 .. Len(q) /\ Len(q) \in Nat
      /\ \A i \in DOMAIN q : p[i] = q[i]
      /\ p[Len(q) + 1] = x /\ Range(p) = Range(q) \cup {x}
    BY AppendRange
<1>2. Increasing(p)
    BY AppendIncreases
<1> HIDE DEF p
<1>3. ASSUME NEW i \in DOMAIN p PROVE p[i] = x \/ (i \in DOMAIN q /\ p[i] = q[i])
  <2>1. i \in DOMAIN q \/ i = Len(q) + 1
      BY <1>1
  <2> QED
      BY <1>1, <2>1
<1>4. Longer(p, q, x)
    BY <1>1, <1>2, <1>3 DEF Longer
<1> QED
    BY <1>4 DEF p

LEMMA TailRange ==
    ASSUME NEW S, NEW q \in Seq(S), q # <<>>
    PROVE  /\ Head(q) \in S /\ Head(q) = q[1] /\ 1 \in DOMAIN q /\ Tail(q) \in Seq(S)
           /\ DOMAIN Tail(q) = 1 .. Len(q) - 1
           /\ \A i \in DOMAIN Tail(q) : i + 1 \in DOMAIN q /\ 1 < i + 1 /\ Tail(q)[i] = q[i + 1]
           /\ Range(q) = Range(Tail(q)) \cup {Head(q)}
<1>1. /\ Head(q) \in S /\ Head(q) = q[1] /\ 1 \in DOMAIN q /\ Tail(q) \in Seq(S)
      /\ DOMAIN Tail(q) = 1 .. Len(q) - 1 /\ DOMAIN q = 1 .. Len(q) /\ Len(q) \in Nat
      /\ \A i \in DOMAIN Tail(q) : Tail(q)[i] = q[i + 1]
    BY HeadTailProperties, EmptySeq, LenProperties
<1>2. \A i \in DOMAIN Tail(q) : i + 1 \in DOMAIN q /\ 1 < i + 1
    BY <1>1
<1>3. \A i \in DOMAIN q : i = 1 \/ (i - 1 \in DOMAIN Tail(q) /\ q[i] = Tail(q)[i - 1])
    BY <1>1
<1>4. Range(q) = Range(Tail(q)) \cup {Head(q)}
  <2>1. ASSUME NEW y \in Range(q) PROVE y \in Range(Tail(q)) \cup {Head(q)}
    <3>1. PICK i \in DOMAIN q : y = q[i]
        BY <2>1 DEF Range
    <3> QED
        BY <1>1, <1>3, <3>1 DEF Range
  <2>2. Range(Tail(q)) \cup {Head(q)} \subseteq Range(q)
      BY <1>1, <1>2 DEF Range
  <2> QED
      BY <2>1, <2>2
<1> QED
    BY <1>1, <1>2, <1>4

LEMMA AgesGrow == Oldest \in Nat /\
                  \A age \in 0 .. Oldest : Older(age) \in 0 .. Oldest /\ Older(age) >= age
    BY AuditAssumption DEF AuditAssumption, Oldest, Older

LEMMA PastGrows == Past \in Nat /\
                    \A age \in 0 .. Past : GoesBy(age) \in 0 .. Past /\ GoesBy(age) >= age
    BY AuditAssumption DEF AuditAssumption, Past, GoesBy

(* Time passes for the events, and changes nothing else about them.        *)
LEMMA TickEvents ==
    ASSUME AuditTypes, AuditTick
    PROVE  /\ events' \in Seq(EventType) /\ Len(events') = Len(events) 
           /\ DOMAIN events' = 1 .. Len(events)
           /\ \A n \in DOMAIN events : /\ events'[n] = [events[n] EXCEPT !.age = Older(events[n].age)]
                                      /\ events[n] \in EventType /\ events'[n] \in EventType
<1>1. Len(events) \in Nat /\ \A n \in DOMAIN events : events[n] \in EventType
    BY LenProperties, ElementOfSeq DEF AuditTypes
<1>2. \A n \in DOMAIN events : [events[n] EXCEPT !.age = Older(events[n].age)] \in EventType
    BY <1>1, AgesGrow DEF EventType
<1>3. events' \in [1 .. Len(events) -> EventType]
    BY <1>2 DEF AuditTick, AuditTypes
<1>4. \A n \in DOMAIN events : events'[n] = [events[n] EXCEPT !.age = Older(events[n].age)]
    BY DEF AuditTick
<1> QED
    BY <1>1, <1>2, <1>3, <1>4, MappingIsSeq DEF AuditTypes

LEMMA OneFaultMore ==
    ASSUME AuditTypes
    PROVE  /\ Fails => auditFaults' \in [failures : 0 .. SaveFailures, exits : 0 .. MaxExits]
           /\ (auditFaults.exits < MaxExits /\ auditFaults' = [auditFaults EXCEPT !.exits = @ + 1])
                => auditFaults' \in [failures : 0 .. SaveFailures, exits : 0 .. MaxExits]
<1>1. /\ auditFaults.failures \in 0 .. SaveFailures /\ auditFaults.exits \in 0 .. MaxExits
      /\ SaveFailures \in Nat /\ MaxExits \in Nat
      /\ auditFaults \in [failures : 0 .. SaveFailures, exits : 0 .. MaxExits]
    BY AuditAssumption DEF AuditTypes, AuditAssumption
<1>2. ASSUME Fails PROVE auditFaults' \in [failures : 0 .. SaveFailures, exits : 0 .. MaxExits]
  <2>1. auditFaults.failures + 1 \in 0 .. SaveFailures
      BY <1>1, <1>2 DEF Fails
  <2> QED
      BY <1>1, <1>2, <2>1 DEF Fails
<1>3. ASSUME auditFaults.exits < MaxExits, auditFaults' = [auditFaults EXCEPT !.exits = @ + 1]
      PROVE  auditFaults' \in [failures : 0 .. SaveFailures, exits : 0 .. MaxExits]
  <2>1. auditFaults.exits + 1 \in 0 .. MaxExits
      BY <1>1, <1>3
  <2> QED
      BY <1>1, <1>3, <2>1
<1> QED
    BY <1>2, <1>3

LEMMA SavingInitially == AuditInit => SavingInv
    BY EmptySeq, AuditAssumption
    DEF AuditInit, SavingInv, AuditTypes, InOrder, Increasing, Saving, Ready, Range, AuditAssumption

(* An interruption loses at most what was being saved, which is noted.     *)
LEMMA InterruptedKeeps ==
    ASSUME SavingInv, Interrupted
    PROVE  /\ database' \in Seq(Nat) /\ journal' \in Seq(Nat)
           /\ Increasing(database') /\ Increasing(journal')
           /\ Range(database') \subseteq DOMAIN events /\ Range(journal') \subseteq DOMAIN events
           /\ \A j \in DOMAIN auditQueue :
                 /\ \A i \in DOMAIN database' : database'[i] < auditQueue[j]
                 /\ \A i \in DOMAIN journal' : journal'[i] < auditQueue[j]
           /\ \A n \in DOMAIN events : Saved(n) =>
                 /\ n \in Range(database') \/ <<"database", n>> \in dropped \cup Undone
                 /\ n \in Range(journal') \/ <<"file", n>> \in dropped \cup Undone
<1> USE DEF SavingInv, AuditTypes
<1> DEFINE n == auditor.event
<1>1. \A k \in DOMAIN events : k \in Nat
    BY LenProperties
<1>2. /\ auditor.pc = "database" => <<"database", n>> \in Undone /\ <<"file", n>> \in Undone
      /\ auditor.pc = "file" => <<"file", n>> \in Undone
    BY DEF Undone
<1>3. /\ Saving => n \in DOMAIN events /\ \A j \in DOMAIN auditQueue : n < auditQueue[j]
      /\ Saving <=> auditor.pc = "database" \/ auditor.pc = "file"
      /\ auditor.pc = "database" => \A i \in DOMAIN database : database[i] < n
      /\ auditor.pc = "file" => \A i \in DOMAIN journal : journal[i] < n
    BY DEF InOrder, Saving
<1>4. CASE UNCHANGED <<database, journal>>
    BY <1>2, <1>3, <1>4 DEF InOrder, Saved
<1>5. CASE auditor.pc = "database" /\ database' = Append(database, n) /\ UNCHANGED journal
  <2>1. n \in DOMAIN events /\ n \in Nat
      BY <1>1, <1>3, <1>5
  <2> HIDE DEF n
  <2>2. /\ database' \in Seq(Nat) /\ Range(database') = Range(database) \cup {n} 
        /\ Increasing(database')
        /\ \A i \in DOMAIN database' : database'[i] = n \/ (i \in DOMAIN database /\ database'[i] = database[i])
    <3>1. /\ database \in Seq(Nat) /\ Increasing(database) /\ database' = Append(database, n)
          /\ n \in Nat /\ \A i \in DOMAIN database : database[i] < n
        BY <1>3, <1>5, <2>1 DEF InOrder, n
    <3>2. Longer(database', database, n)
        BY ONLY <3>1, OneSaved
    <3> QED
        BY <3>2 DEF Longer
  <2> QED
      BY <1>2, <1>3, <1>5, <2>1, <2>2 DEF InOrder, Saved, n
<1>6. CASE auditor.pc = "file" /\ journal' = Append(journal, n) /\ UNCHANGED database
  <2>1. n \in DOMAIN events /\ n \in Nat
      BY <1>1, <1>3, <1>6
  <2> HIDE DEF n
  <2>2. /\ journal' \in Seq(Nat) /\ Range(journal') = Range(journal) \cup {n} 
        /\ Increasing(journal')
        /\ \A i \in DOMAIN journal' : journal'[i] = n \/ (i \in DOMAIN journal /\ journal'[i] = journal[i])
    <3>1. /\ journal \in Seq(Nat) /\ Increasing(journal) /\ journal' = Append(journal, n)
          /\ n \in Nat /\ \A i \in DOMAIN journal : journal[i] < n
        BY <1>3, <1>6, <2>1 DEF InOrder, n
    <3>2. Longer(journal', journal, n)
        BY ONLY <3>1, OneSaved
    <3> QED
        BY <3>2 DEF Longer
  <2> QED
      BY <1>2, <1>3, <1>6, <2>1, <2>2 DEF InOrder, Saved, n
<1> QED
    BY <1>4, <1>5, <1>6 DEF Interrupted

LEMMA SavingStep == ASSUME SavingInv, [AuditNext]_auditVars PROVE SavingInv'
<1> USE DEF SavingInv, AuditTypes
<1>0. /\ Len(events) \in Nat
      /\ \A i \in DOMAIN auditQueue : auditQueue[i] \in DOMAIN events
      /\ \A i \in DOMAIN database : database[i] \in DOMAIN events
      /\ \A i \in DOMAIN journal : journal[i] \in DOMAIN events
    BY LenProperties DEF Range
<1>1. ASSUME NEW s \in Sources, NEW kind \in Kinds, LogEvent(s, kind) PROVE SavingInv'
  <2> DEFINE n == Len(events) + 1
             e == [source |-> s, kind |-> kind, age |-> 0, life |-> auditFaults.exits]
  <2>1. /\ events' = Append(events, e) /\ auditQueue' = Append(auditQueue, n)
        /\ UNCHANGED <<auditor, database, journal, dropped, auditFaults>>
      BY <1>1 DEF LogEvent
  <2>2. e \in EventType
      BY AuditAssumption DEF EventType, Oldest, AuditAssumption
  <2>3. /\ events' \in Seq(EventType) /\ DOMAIN events' = 1 .. n /\ Len(events') = n
        /\ DOMAIN events' = DOMAIN events \cup {n}
    <3> HIDE DEF e
    <3>1. events' \in Seq(EventType) /\ DOMAIN events' = 1 .. Len(events) + 1
        BY <2>1, <2>2, AppendRange
    <3>2. Len(events') = Len(events) + 1
        BY <2>1, <2>2, AppendProperties
    <3> QED
        BY <1>0, <3>1, <3>2
  <2> HIDE DEF e
  <2>4. /\ auditQueue' \in Seq(Nat) /\ Range(auditQueue') = Range(auditQueue) \cup {n}
        /\ Increasing(auditQueue')
        /\ \A j \in DOMAIN auditQueue' : auditQueue'[j] = n \/ (j \in DOMAIN auditQueue /\ auditQueue'[j] = auditQueue[j])
    <3>1. n \in Nat /\ \A i \in DOMAIN auditQueue : auditQueue[i] < n
        BY <1>0
    <3> HIDE DEF n
    <3>2. /\ auditQueue \in Seq(Nat) /\ Increasing(auditQueue) /\ auditQueue' = Append(auditQueue, n)
          /\ n \in Nat /\ \A i \in DOMAIN auditQueue : auditQueue[i] < n
        BY <2>1, <3>1 DEF InOrder
    <3>3. Longer(auditQueue', auditQueue, n)
        BY ONLY <3>2, OneSaved
    <3> QED
        BY <3>3 DEF Longer
  <2>5. AuditTypes'
      BY <2>1, <2>3, <2>4 DEF Saving
  <2>6. InOrder'
    <3>1. UNCHANGED <<auditor, database, journal>> /\ (Saving' <=> Saving)
        BY <2>1 DEF Saving
    <3>2. /\ Saving => auditor.event < n
          /\ \A i \in DOMAIN database : database[i] < n
          /\ \A i \in DOMAIN journal : journal[i] < n
        BY <1>0
    <3> HIDE DEF n
    <3> QED
        BY <2>4, <3>1, <3>2 DEF InOrder
  <2>7. \A k \in DOMAIN events' : k \in Range(auditQueue') \/ Saved(k)'
      BY <2>1, <2>3, <2>4 DEF Saved, Saving
  <2> QED
      BY <2>5, <2>6, <2>7
<1>2. CASE AuditTick
    BY <1>2, TickEvents DEF AuditTick, saving, InOrder, Saving, Saved
<1>3. CASE TakeEvent
  <2> DEFINE n == Head(auditQueue)
  <2>1. /\ ~Saving /\ auditor' = [pc |-> "database", event |-> n] /\ auditQueue' = Tail(auditQueue)
        /\ auditQueue # <<>> /\ UNCHANGED <<events, database, journal, dropped, auditFaults>>
      BY <1>3 DEF TakeEvent, Saving, detection
  <2>2. /\ n \in Nat /\ n = auditQueue[1] /\ 1 \in DOMAIN auditQueue /\ auditQueue' \in Seq(Nat)
        /\ \A i \in DOMAIN auditQueue' : /\ i + 1 \in DOMAIN auditQueue /\ 1 < i + 1
                                          /\ auditQueue'[i] = auditQueue[i + 1] /\ i \in Nat
        /\ Range(auditQueue) = Range(auditQueue') \cup {n}
      BY <2>1, TailRange
  <2> HIDE DEF n
  <2>3. Saving' /\ auditor'.pc = "database" /\ auditor'.event = n
      BY <2>1 DEF Saving
  <2>4. AuditTypes'
      BY <2>1, <2>2, <2>3
  <2>5. \A j \in DOMAIN auditQueue' : n < auditQueue'[j]
      BY <2>2 DEF InOrder, Increasing
  <2>6. Increasing(auditQueue')
    <3>1. \A i, j \in DOMAIN auditQueue' : i < j => i + 1 < j + 1
        BY <2>2
    <3> QED
        BY <2>2, <3>1 DEF InOrder, Increasing
  <2>7. InOrder'
      BY <2>1, <2>2, <2>3, <2>5, <2>6 DEF InOrder
  <2>8. \A k \in DOMAIN events' : k \in Range(auditQueue') \/ Saved(k)'
      BY <2>1, <2>2, <2>3 DEF Saved, Saving
  <2> QED
      BY <2>4, <2>7, <2>8
<1>4. CASE SaveToDatabase
  <2> DEFINE n == auditor.event
  <2>1. /\ Saving /\ n \in DOMAIN events /\ n \in Nat /\ auditor' = [pc |-> "file", event |-> n]
        /\ UNCHANGED <<events, auditQueue, journal>> /\ auditor.pc = "database"
    <3>1. auditor.pc = "database" /\ auditor' = [auditor EXCEPT !.pc = "file"]
        BY <1>4 DEF SaveToDatabase
    <3>2. Saving /\ n \in DOMAIN events
        BY <3>1 DEF Saving
    <3>3. auditor' = [pc |-> "file", event |-> n]
        BY <3>1
    <3>4. n \in Nat
        BY <1>0, <3>2
    <3>5. UNCHANGED <<events, auditQueue, journal>>
        BY <1>4 DEF SaveToDatabase, detection
    <3> QED
        BY <3>1, <3>2, <3>3, <3>4, <3>5
  <2>2. \/ database' = Append(database, n) /\ UNCHANGED <<dropped, auditFaults>>
        \/ Fails /\ dropped' = dropped \cup {<<"database", n>>} /\ UNCHANGED database
      BY <1>4 DEF SaveToDatabase
  <2> HIDE DEF n
  <2>3. /\ database' \in Seq(Nat) /\ Range(database) \subseteq Range(database')
        /\ Range(database') \subseteq Range(database) \cup {n} /\ Increasing(database')
        /\ n \in Range(database') \/ <<"database", n>> \in dropped'
        /\ \A i \in DOMAIN database' : database'[i] = n \/ (i \in DOMAIN database /\ database'[i] = database[i])
    <3>1. CASE database' = Append(database, n)
      <4>1. /\ database \in Seq(Nat) /\ Increasing(database) /\ database' = Append(database, n)
            /\ n \in Nat /\ \A i \in DOMAIN database : database[i] < n
          BY <2>1, <3>1 DEF InOrder, n
      <4>2. Longer(database', database, n)
          BY ONLY <4>1, OneSaved
      <4> QED
          BY <4>2 DEF Longer
    <3>2. CASE UNCHANGED database /\ dropped' = dropped \cup {<<"database", n>>}
        BY <3>2 DEF InOrder
    <3> QED
        BY <2>2, <3>1, <3>2
  <2>4. dropped \subseteq dropped' /\ auditFaults' \in [failures : 0 .. SaveFailures, exits : 0 .. MaxExits]
      BY <2>2, OneFaultMore
  <2>5. Saving' /\ auditor'.pc = "file" /\ auditor'.event = n
      BY <2>1 DEF Saving
  <2>6. AuditTypes'
      BY <2>1, <2>3, <2>4, <2>5
  <2>7. \A j \in DOMAIN auditQueue : n < auditQueue[j]
      BY <2>1 DEF InOrder, n
  <2>8. InOrder'
      BY <2>1, <2>3, <2>5, <2>7 DEF InOrder, n
  <2>9. \A k \in DOMAIN events' : k \in Range(auditQueue') \/ Saved(k)'
      BY <2>1, <2>3, <2>4, <2>5 DEF Saved, n
  <2> QED
      BY <2>6, <2>8, <2>9
<1>5. CASE SaveToLog
  <2> DEFINE n == auditor.event
  <2>1. /\ Saving /\ n \in DOMAIN events /\ n \in Nat /\ auditor' = Ready
        /\ UNCHANGED <<events, auditQueue, database>> /\ auditor.pc = "file"
      BY <1>5 DEF SaveToLog, Saving, detection
  <2>2. \/ journal' = Append(journal, n) /\ UNCHANGED <<dropped, auditFaults>>
        \/ Fails /\ dropped' = dropped \cup {<<"file", n>>} /\ UNCHANGED journal
      BY <1>5 DEF SaveToLog
  <2> HIDE DEF n
  <2>3. /\ journal' \in Seq(Nat) /\ Range(journal) \subseteq Range(journal')
        /\ Range(journal') \subseteq Range(journal) \cup {n} /\ Increasing(journal')
        /\ n \in Range(journal') \/ <<"file", n>> \in dropped'
        /\ \A i \in DOMAIN journal' : journal'[i] = n \/ (i \in DOMAIN journal /\ journal'[i] = journal[i])
    <3>1. CASE journal' = Append(journal, n)
      <4>1. /\ journal \in Seq(Nat) /\ Increasing(journal) /\ journal' = Append(journal, n)
            /\ n \in Nat /\ \A i \in DOMAIN journal : journal[i] < n
          BY <2>1, <3>1 DEF InOrder, n
      <4>2. Longer(journal', journal, n)
          BY ONLY <4>1, OneSaved
      <4> QED
          BY <4>2 DEF Longer
    <3>2. CASE UNCHANGED journal /\ dropped' = dropped \cup {<<"file", n>>}
        BY <3>2 DEF InOrder
    <3> QED
        BY <2>2, <3>1, <3>2
  <2>4. dropped \subseteq dropped' /\ auditFaults' \in [failures : 0 .. SaveFailures, exits : 0 .. MaxExits]
      BY <2>2, OneFaultMore
  <2>5. ~Saving' /\ auditor'.pc = "ready" /\ auditor' = [pc |-> "ready", event |-> 0]
      BY <2>1 DEF Saving, Ready
  <2>6. AuditTypes'
      BY <2>1, <2>3, <2>4, <2>5
  <2>7. \A j \in DOMAIN auditQueue : n < auditQueue[j]
      BY <2>1 DEF InOrder, n
  <2>8. InOrder'
      BY <2>1, <2>3, <2>5, <2>7 DEF InOrder, n
  <2>9. \A k \in DOMAIN events' : k \in Range(auditQueue') \/ Saved(k)'
      BY <2>1, <2>3, <2>4, <2>5 DEF Saved, n
  <2> QED
      BY <2>6, <2>8, <2>9
<1>6. CASE StartAudit
    BY <1>6 DEF StartAudit, detection, InOrder, Saving, Saved, Ready
<1>7. CASE StopAudit
  <2>1. /\ Interrupted /\ dropped' = dropped \cup Undone /\ auditor' = [pc |-> "off", event |-> 0]
        /\ UNCHANGED <<events, auditQueue, auditFaults>>
      BY <1>7 DEF StopAudit, detection, Off
  <2>2. ~Saving' /\ auditor'.pc = "off"
      BY <2>1 DEF Saving
  <2> QED
      BY <2>1, <2>2, InterruptedKeeps DEF InOrder, Saved
<1>8. CASE AuditExit
  <2>1. /\ Interrupted /\ auditor' = [pc |-> "ready", event |-> 0] /\ auditQueue' = <<>>
        /\ dropped' = (dropped \cup Undone) \cup ({"database", "file"} \X Range(auditQueue))
        /\ UNCHANGED events
      BY <1>8 DEF AuditExit, Ready, Range
  <2>2. ~Saving' /\ auditor'.pc = "ready"
      BY <2>1 DEF Saving
  <2>3. auditFaults' \in [failures : 0 .. SaveFailures, exits : 0 .. MaxExits]
      BY <1>8, OneFaultMore DEF AuditExit
  <2>4. auditQueue' \in Seq(Nat) /\ DOMAIN auditQueue' = {} /\ Range(auditQueue') = {}
      BY <2>1, EmptySeq DEF Range
  <2>5. AuditTypes' /\ InOrder'
      BY <2>1, <2>2, <2>3, <2>4, InterruptedKeeps DEF InOrder, Increasing
  <2>6. \A k \in DOMAIN events' : Saved(k)'
      BY <2>1, <2>2, InterruptedKeeps DEF Saved
  <2> QED
      BY <2>5, <2>6
<1>9. CASE UNCHANGED auditVars
    BY <1>9 DEF auditVars, detection, saving, InOrder, Saving, Saved
<1>10. ASSUME NEW s \in Sources, CountRequest(s) PROVE SavingInv'
    BY <1>10 DEF CountRequest, saving, InOrder, Saving, Saved
<1> QED
    BY <1>1, <1>2, <1>3, <1>4, <1>5, <1>6, <1>7, <1>8, <1>9, <1>10 DEF AuditNext, Process

(***************************************************************************)
(* Bursts of requests.                                                     *)
(***************************************************************************)

(* The requests of a source that were counted, those of them that no       *)
(* report was made of, and the young ones among these.                     *)
Requests(s)   == {n \in DOMAIN tally : tally[n].source = s}
Unreported(s) == {n \in Requests(s) : tally[n].verdict # "burst"}
Young(S)      == {n \in S : tally[n].age <= Minute}
Since(S, w)   == {n \in S : n >= w}
Before(S, w)  == {n \in S : n < w}

(* w is where the current window of s began: what came before is at least  *)
(* as old, and few requests of either window went unreported.              *)
WindowFrom(s, w) ==
    /\ \A n \in Before(Requests(s), w) : tally[n].age >= usage[s].reset
    /\ Cardinality(Young(Before(Unreported(s), w))) <= MaxRequests
    /\ Cardinality(Since(Unreported(s), w)) <= MaxRequests
    /\ Cardinality(Since(Unreported(s), w)) <= usage[s].requests

UsageType == [requests : Nat, reset : 0 .. Past, known : BOOLEAN]

BurstInv ==
    /\ querying \in [Sources -> Nat] /\ usage \in [Sources -> UsageType]
    /\ tally \in Seq(CountedType)
    /\ \A s \in Sources : IF usage[s].known THEN \E w \in DOMAIN tally : WindowFrom(s, w)
                                            ELSE Requests(s) = {}

LEMMA SmallerSet ==
    ASSUME NEW S, IsFiniteSet(S), NEW T, T \subseteq S
    PROVE  /\ IsFiniteSet(T) /\ Cardinality(T) \in Nat /\ Cardinality(S) \in Nat
           /\ Cardinality(T) <= Cardinality(S)
    BY FS_Subset, FS_CardinalityType

LEMMA BurstInitially == AuditInit => BurstInv
    BY EmptySeq, PastGrows DEF AuditInit, BurstInv, NoUsage, Requests, UsageType

LEMMA RequestsFinite ==
    ASSUME tally \in Seq(CountedType), NEW s, NEW w
    PROVE  /\ Young(Before(Unreported(s), w)) \subseteq DOMAIN tally /\ Since(Unreported(s), w) \subseteq DOMAIN tally
           /\ IsFiniteSet(DOMAIN tally)
<1>1. Len(tally) \in Nat /\ DOMAIN tally = 1 .. Len(tally)
    BY LenProperties
<1>2. IsFiniteSet(1 .. Len(tally))
    BY <1>1, FS_Interval
<1> QED
    BY <1>1, <1>2 DEF Young, Before, Since, Unreported, Requests

LEMMA BurstSame == ASSUME BurstInv, UNCHANGED <<querying, tally, usage>> PROVE BurstInv'
<1>1. \A s : Requests(s)' = Requests(s) /\ Unreported(s)' = Unreported(s)
    BY DEF Requests, Unreported
<1>2. \A s, w : WindowFrom(s, w)' = WindowFrom(s, w)
    BY <1>1 DEF WindowFrom, Young, Before, Since
<1> QED
    BY <1>1, <1>2 DEF BurstInv

LEMMA BurstStep == ASSUME BurstInv, [AuditNext]_auditVars PROVE BurstInv'
<1> USE DEF BurstInv
<1>0. /\ Len(tally) \in Nat /\ IsFiniteSet(DOMAIN tally)
      /\ \A n \in DOMAIN tally : n \in 1 .. Len(tally) /\ tally[n] \in CountedType
  <2>1. Len(tally) \in Nat /\ \A n \in DOMAIN tally : n \in 1 .. Len(tally) /\ tally[n] \in CountedType
      BY LenProperties, ElementOfSeq
  <2> QED
      BY <2>1, RequestsFinite
<1>1. ASSUME NEW s \in Sources, CountRequest(s) PROVE BurstInv'
  <2>0. PICK n : n = Len(tally) + 1
      OBVIOUS
  <2> DEFINE e == [source |-> s, age |-> 0, verdict |-> Verdict(s)]
             u == Usage(s)
  <2>1. /\ tally' = Append(tally, e) /\ usage' = [usage EXCEPT ![s] = u]
        /\ querying[s] > 0 /\ querying' = [querying EXCEPT ![s] = querying[s] - 1]
      BY <1>1 DEF CountRequest
  <2>2. /\ e \in CountedType /\ e.source = s /\ e.age = 0
        /\ e.verdict = IF u.requests > MaxRequests THEN "burst" ELSE "usual"
      BY PastGrows DEF CountedType, Verdict
  <2> HIDE DEF e
  <2>3. /\ DOMAIN tally' = DOMAIN tally \cup {n} /\ n \notin DOMAIN tally /\ n \in Nat
        /\ \A k \in DOMAIN tally : tally'[k] = tally[k] /\ k < n
        /\ tally'[n] = e /\ tally' \in Seq(CountedType)
    <3>1. /\ DOMAIN tally' = 1 .. Len(tally) + 1 /\ \A k \in DOMAIN tally : tally'[k] = tally[k]
          /\ tally'[Len(tally) + 1] = e /\ tally' \in Seq(CountedType)
        BY <2>1, <2>2, AppendRange
    <3> QED
        BY <1>0, <2>0, <3>1
  <2>4. /\ u \in UsageType
        /\ \/ usage[s].known /\ u = [usage[s] EXCEPT !.requests = @ + 1]
           \/ ~(usage[s].known /\ usage[s].reset <= Minute) /\ u = [requests |-> 1, reset |-> 0, known |-> TRUE]
    <3>1. usage[s] \in UsageType
        OBVIOUS
    <3>2. CASE usage[s].known /\ usage[s].reset <= Minute
      <4>1. u = [usage[s] EXCEPT !.requests = @ + 1]
          BY <3>2 DEF Usage
      <4> HIDE DEF u
      <4>2. usage[s].requests + 1 \in Nat
          BY <3>1 DEF UsageType
      <4>3. [usage[s] EXCEPT !.requests = @ + 1] \in UsageType
          BY <3>1, <4>2, Zenon DEF UsageType
      <4> QED
          BY <3>2, <4>1, <4>3
    <3>3. CASE ~(usage[s].known /\ usage[s].reset <= Minute)
        BY <3>3, PastGrows DEF Usage, UsageType
    <3> QED
        BY <3>2, <3>3
  <2> HIDE DEF u
  <2>5. querying' \in [Sources -> Nat]
    <3>1. querying[s] - 1 \in Nat
        BY <2>1
    <3> QED
        BY <2>1, <3>1
  <2>8. ASSUME NEW r \in Sources, r # s
        PROVE  /\ Requests(r)' = Requests(r) /\ Unreported(r)' = Unreported(r) /\ usage'[r] = usage[r]
      BY <2>1, <2>2, <2>3, <2>8 DEF Requests, Unreported
  <2>9. ASSUME NEW r \in Sources, r # s, NEW w \in DOMAIN tally, WindowFrom(r, w)
        PROVE  WindowFrom(r, w)'
    <3>1. /\ Before(Requests(r), w)' = Before(Requests(r), w)
          /\ Young(Before(Unreported(r), w))' = Young(Before(Unreported(r), w))
          /\ Since(Unreported(r), w)' = Since(Unreported(r), w)
          /\ \A k \in Before(Requests(r), w) : tally'[k] = tally[k]
        BY <2>3, <2>8, <2>9 DEF Before, Young, Since, Unreported, Requests
    <3> QED
        BY <2>8, <2>9, <3>1 DEF WindowFrom
  <2>10. usage'[s].known /\ \E w \in DOMAIN tally' : WindowFrom(s, w)'
    <3>1. /\ usage'[s] = u /\ u.requests \in Nat /\ MaxRequests \in Nat \ {0} /\ Minute \in Nat
          /\ usage[s].requests \in Nat /\ usage[s].reset \in 0 .. Past
        BY <2>1, <2>4, AuditAssumption DEF AuditAssumption, UsageType
    <3>2. /\ Requests(s)' = Requests(s) \cup {n} /\ Requests(s) \subseteq DOMAIN tally
          /\ Unreported(s) \subseteq Requests(s)
          /\ Unreported(s)' = IF u.requests > MaxRequests THEN Unreported(s) ELSE Unreported(s) \cup {n}
        BY <2>2, <2>3 DEF Requests, Unreported
    <3>3. CASE usage[s].known /\ u = [usage[s] EXCEPT !.requests = @ + 1]
      <4>1. PICK w \in DOMAIN tally : WindowFrom(s, w)
          BY <3>3
      <4>2. u.known = usage[s].known /\ u.reset = usage[s].reset /\ u.requests = usage[s].requests + 1
          BY <3>3 DEF UsageType
      <4>3. /\ Before(Requests(s), w)' = Before(Requests(s), w)
            /\ Before(Unreported(s), w)' = Before(Unreported(s), w)
            /\ Since(Unreported(s), w)' = IF u.requests > MaxRequests THEN Since(Unreported(s), w)
                                          ELSE Since(Unreported(s), w) \cup {n}
        <5>1. w < n /\ w \in Nat /\ n \in Nat
            BY <1>0, <2>3
        <5> QED
            BY <3>2, <5>1 DEF Before, Since
      <4>4. /\ Young(Before(Unreported(s), w))' = Young(Before(Unreported(s), w))
            /\ \A k \in Before(Requests(s), w)' : tally'[k].age >= usage'[s].reset
        <5>1. Before(Requests(s), w) \subseteq DOMAIN tally /\ Before(Unreported(s), w) \subseteq DOMAIN tally
            BY <3>2 DEF Before
        <5> QED
            BY <2>3, <3>1, <4>1, <4>2, <4>3, <5>1 DEF Young, WindowFrom
      <4>5. /\ IsFiniteSet(Since(Unreported(s), w)) /\ n \notin Since(Unreported(s), w)
            /\ Cardinality(Since(Unreported(s), w)) \in Nat
          BY RequestsFinite, FS_Subset, FS_CardinalityType, <2>3
      <4>6. /\ Cardinality(Since(Unreported(s), w)') <= MaxRequests
            /\ Cardinality(Since(Unreported(s), w)') <= u.requests
        <5>1. CASE u.requests > MaxRequests
            BY <3>1, <4>1, <4>2, <4>3, <4>5, <5>1 DEF WindowFrom
        <5>2. CASE ~(u.requests > MaxRequests)
          <6>1. Cardinality(Since(Unreported(s), w)') = Cardinality(Since(Unreported(s), w)) + 1
              BY <4>3, <4>5, <5>2, FS_AddElement
          <6> QED
              BY <3>1, <4>1, <4>2, <4>5, <5>2, <6>1 DEF WindowFrom
        <5> QED
            BY <5>1, <5>2
      <4> QED
          BY <2>3, <3>1, <3>3, <4>1, <4>2, <4>4, <4>6 DEF WindowFrom
    <3>4. CASE /\ ~(usage[s].known /\ usage[s].reset <= Minute)
               /\ u = [requests |-> 1, reset |-> 0, known |-> TRUE]
      <4>1. u.requests = 1 /\ u.reset = 0 /\ u.known
          BY <3>4
      <4>2. Before(Requests(s), n)' = Requests(s) /\ Before(Unreported(s), n)' = Unreported(s)
          BY <2>3, <3>2 DEF Before
      <4>3. Since(Unreported(s), n)' \subseteq {n}
          BY <2>3, <3>2 DEF Since
      <4>4. /\ Cardinality(Since(Unreported(s), n)') <= MaxRequests
            /\ Cardinality(Since(Unreported(s), n)') <= u.requests
        <5>1. IsFiniteSet({n}) /\ Cardinality({n}) = 1
            BY FS_Singleton
        <5>2. /\ Cardinality(Since(Unreported(s), n)') \in Nat
              /\ Cardinality(Since(Unreported(s), n)') <= 1
            BY <4>3, <5>1, SmallerSet
        <5> QED
            BY <3>1, <4>1, <5>2
      <4>5. \A k \in Before(Requests(s), n)' : tally'[k].age >= usage'[s].reset
        <5>1. \A k \in Requests(s) : tally'[k] = tally[k] /\ tally[k].age \in 0 .. Past
            BY <1>0, <2>3, <3>2 DEF CountedType
        <5>2. ASSUME NEW k \in Requests(s) PROVE tally'[k].age >= 0
          <6>1. tally[k].age >= 0 /\ Past \in Nat
              BY <5>1, PastGrows
          <6>2. tally'[k] = tally[k]
              BY <5>1
          <6> QED
              BY <6>1, <6>2
        <5>3. usage'[s].reset = 0
            BY <3>1, <4>1
        <5> QED
            BY <4>2, <5>2, <5>3
      <4>6. Cardinality(Young(Before(Unreported(s), n))') <= MaxRequests
        <5>1. Young(Before(Unreported(s), n))' = Young(Unreported(s))
            BY <2>3, <3>2, <4>2 DEF Young
        <5>2. CASE usage[s].known
          <6>1. PICK w \in DOMAIN tally : WindowFrom(s, w)
              BY <5>2
          <6>2. ASSUME NEW k \in Young(Unreported(s)) PROVE k >= w
            <7>1. /\ k \in Requests(s) /\ k \in DOMAIN tally /\ tally[k].age <= Minute
                  /\ tally[k].age \in 0 .. Past
                BY <1>0, <3>2, <6>2 DEF Young, CountedType
            <7>2. ~(k < w)
                BY <3>1, <3>4, <5>2, <6>1, <7>1 DEF WindowFrom, Before
            <7> QED
                BY <1>0, <6>1, <7>1, <7>2
          <6>3. Young(Unreported(s)) \subseteq Since(Unreported(s), w)
              BY <6>2 DEF Young, Since
          <6>4. IsFiniteSet(Since(Unreported(s), w)) /\ Cardinality(Since(Unreported(s), w)) <= MaxRequests
              BY <6>1, RequestsFinite, FS_Subset DEF WindowFrom
          <6>5. /\ Cardinality(Young(Unreported(s))) <= Cardinality(Since(Unreported(s), w))
                /\ Cardinality(Young(Unreported(s))) \in Nat /\ Cardinality(Since(Unreported(s), w)) \in Nat
              BY <6>3, <6>4, SmallerSet
          <6> QED
              BY <3>1, <5>1, <6>4, <6>5
        <5>3. CASE ~usage[s].known
          <6>1. Young(Unreported(s)) = {}
              BY <3>2, <5>3 DEF Young
          <6> QED
              BY <3>1, <5>1, <6>1, FS_EmptySet
        <5> QED
            BY <5>2, <5>3
      <4> QED
          BY <2>3, <3>1, <4>1, <4>4, <4>5, <4>6 DEF WindowFrom
    <3> QED
        BY <2>4, <3>3, <3>4
  <2>11. usage' \in [Sources -> UsageType]
      BY <2>1, <2>4
  <2>12. ASSUME NEW r \in Sources 
         PROVE  IF usage'[r].known THEN \E w \in DOMAIN tally' : WindowFrom(r, w)' ELSE Requests(r)' = {}
      BY <2>3, <2>8, <2>9, <2>10
  <2> QED
      BY <2>3, <2>5, <2>11, <2>12
<1>2. CASE AuditTick
  <2>1. /\ DOMAIN tally' = DOMAIN tally /\ querying' = querying /\ tally' \in Seq(CountedType)
        /\ \A n \in DOMAIN tally : 
             /\ tally'[n].source = tally[n].source /\ tally'[n].verdict = tally[n].verdict
             /\ tally'[n].age = GoesBy(tally[n].age)
             /\ tally[n].age \in 0 .. Past
    <3>1. /\ DOMAIN tally' = DOMAIN tally /\ querying' = querying
          /\ \A n \in DOMAIN tally : tally'[n] = [tally[n] EXCEPT !.age = GoesBy(tally[n].age)]
        BY <1>2 DEF AuditTick
    <3>2. DOMAIN tally = 1 .. Len(tally)
        BY LenProperties
    <3>3. \A n \in DOMAIN tally : [tally[n] EXCEPT !.age = GoesBy(tally[n].age)] \in CountedType
        BY <1>0, PastGrows DEF CountedType
    <3>4. tally' \in [1 .. Len(tally) -> CountedType]
        BY <1>2, <3>2, <3>3 DEF AuditTick
    <3>5. tally' \in Seq(CountedType)
        BY <1>0, <3>4, MappingIsSeq
    <3>6. \A n \in DOMAIN tally : 
             /\ tally'[n].source = tally[n].source /\ tally'[n].verdict = tally[n].verdict
             /\ tally'[n].age = GoesBy(tally[n].age)
             /\ tally[n].age \in 0 .. Past
        BY <1>0, <3>1 DEF CountedType
    <3> QED
        BY <3>1, <3>5, <3>6
  <2>2. \A s \in Sources : Requests(s)' = Requests(s) /\ Unreported(s)' = Unreported(s)
      BY <2>1 DEF Requests, Unreported
  <2>3. \A s \in Sources : /\ usage'[s].known = usage[s].known /\ usage'[s].requests = usage[s].requests
                           /\ usage'[s].reset = GoesBy(usage[s].reset)
      BY <1>2 DEF AuditTick, UsageType
  <2>4. usage' \in [Sources -> UsageType]
    <3>1. \A s \in Sources : [usage[s] EXCEPT !.reset = GoesBy(usage[s].reset)] \in 
                                UsageType
        BY PastGrows DEF UsageType
    <3> QED
        BY <1>2, <3>1 DEF AuditTick
  <2>5. ASSUME NEW s \in Sources, NEW w \in DOMAIN tally, WindowFrom(s, w) PROVE WindowFrom(s, w)'
    <3>0. /\ Past \in Nat /\ Minute \in Nat
          /\ \A n \in DOMAIN tally : tally'[n].age >= tally[n].age /\ tally'[n].age \in 0 .. Past
      <4>1. \A n \in DOMAIN tally : GoesBy(tally[n].age) >= tally[n].age /\ GoesBy(tally[n].age) \in 0 .. Past
          BY <2>1, PastGrows
      <4> QED
          BY <2>1, <4>1, PastGrows, AuditAssumption DEF AuditAssumption
    <3>1. Young(Before(Unreported(s), w))' \subseteq Young(Before(Unreported(s), w))
      <4>1. ASSUME NEW n \in Before(Unreported(s), w), tally'[n].age <= Minute 
            PROVE  tally[n].age <= Minute
        <5>1. n \in DOMAIN tally
            BY DEF Before, Unreported, Requests
        <5> QED
            BY <2>1, <3>0, <4>1, <5>1
      <4> QED
          BY <2>2, <4>1 DEF Young, Before
    <3>2. IsFiniteSet(Young(Before(Unreported(s), w)))
        BY RequestsFinite, FS_Subset
    <3>3. Cardinality(Young(Before(Unreported(s), w)))' <= MaxRequests
      <4>1. /\ Cardinality(Young(Before(Unreported(s), w))') <= Cardinality(Young(Before(Unreported(s), w)))
            /\ Cardinality(Young(Before(Unreported(s), w))') \in Nat
            /\ Cardinality(Young(Before(Unreported(s), w))) \in Nat
          BY <3>1, <3>2, SmallerSet
      <4>2. Cardinality(Young(Before(Unreported(s), w))) <= MaxRequests /\ MaxRequests \in Nat
          BY <2>5, AuditAssumption DEF WindowFrom, AuditAssumption
      <4> QED
          BY <4>1, <4>2
    <3>4. \A n \in Before(Requests(s), w) : GoesBy(tally[n].age) >= GoesBy(usage[s].reset)
      <4>1. ASSUME NEW n \in Before(Requests(s), w) PROVE GoesBy(tally[n].age) >= GoesBy(usage[s].reset)
        <5>1. tally[n].age >= usage[s].reset /\ n \in DOMAIN tally
            BY <2>5 DEF WindowFrom, Before, Requests
        <5>2. tally[n].age \in 0 .. Past /\ usage[s].reset \in 0 .. Past
            BY <2>1, <5>1 DEF UsageType
        <5> QED
            BY <3>0, <5>1, <5>2 DEF GoesBy
      <4> QED
          BY <4>1
    <3>5. \A n \in Before(Requests(s), w)' : tally'[n].age >= usage'[s].reset
      <4>1. Before(Requests(s), w)' = Before(Requests(s), w) /\ Before(Requests(s), w) \subseteq DOMAIN tally
          BY <2>2 DEF Before, Requests
      <4> QED
          BY <2>1, <2>3, <3>4, <4>1
    <3>6. Since(Unreported(s), w)' = Since(Unreported(s), w)
        BY <2>2 DEF Since
    <3> QED
        BY <2>3, <2>5, <3>3, <3>5, <3>6 DEF WindowFrom
  <2> QED
      BY <2>1, <2>2, <2>3, <2>4, <2>5
<1>3. CASE Process \/ StartAudit \/ StopAudit
    BY <1>3, BurstSame
    DEF Process, TakeEvent, SaveToDatabase, SaveToLog, StartAudit, StopAudit, detection
<1>4. CASE AuditExit
  <2>1. /\ \A s \in Sources : usage'[s] = NoUsage /\ querying'[s] = 0
        /\ usage' \in [Sources -> UsageType] /\ querying' \in [Sources -> Nat] /\ tally' = <<>>
      BY <1>4, PastGrows DEF AuditExit, Forgotten, NoUsage, UsageType
  <2>2. /\ \A s \in Sources : Requests(s)' = {} /\ ~usage'[s].known
        /\ tally' \in Seq(CountedType)
      BY <2>1, EmptySeq DEF Requests, NoUsage
  <2> QED
      BY <2>1, <2>2
<1>5. CASE UNCHANGED auditVars
    BY <1>5, BurstSame DEF auditVars, detection, saving
<1>6. ASSUME NEW s \in Sources, NEW kind \in Kinds, LogEvent(s, kind) PROVE BurstInv'
  <2>1. UNCHANGED <<tally, usage>>
      BY <1>6 DEF LogEvent
  <2>2. querying' \in [Sources -> Nat]
      BY <1>6 DEF LogEvent
  <2>3. \A r : Requests(r)' = Requests(r) /\ Unreported(r)' = Unreported(r)
      BY <2>1 DEF Requests, Unreported
  <2>4. \A r, w : WindowFrom(r, w)' = WindowFrom(r, w)
      BY <2>1, <2>3 DEF WindowFrom, Young, Before, Since
  <2> QED
      BY <2>1, <2>2, <2>3, <2>4
<1> QED
    BY <1>1, <1>2, <1>3, <1>4, <1>5, <1>6 DEF AuditNext

LEMMA BurstsAreReported == BurstInv => BurstReported
<1> SUFFICES ASSUME BurstInv, NEW s \in Sources,
                    Cardinality({i \in DOMAIN tally : tally[i].source = s /\ tally[i].age <= Minute})
                      > 2 * MaxRequests,
                    \A n \in DOMAIN tally : 
                       tally[n].source = s /\ tally[n].age <= Minute => tally[n].verdict # "burst"
             PROVE  FALSE
    BY DEF BurstReported
<1> DEFINE burst == {i \in DOMAIN tally : tally[i].source = s /\ tally[i].age <= Minute}
<1>1. MaxRequests \in Nat /\ Minute \in Nat
    BY AuditAssumption DEF AuditAssumption
<1>2. /\ burst \subseteq Unreported(s) /\ burst \subseteq Requests(s)
      /\ \A n \in burst : tally[n].age <= Minute /\ n \in DOMAIN tally
    BY DEF Unreported, Requests
<1>3. CASE ~usage[s].known
  <2>1. burst = {}
      BY <1>2, <1>3 DEF BurstInv
  <2> QED
      BY <1>1, <2>1, FS_EmptySet
<1>4. CASE usage[s].known
  <2>1. PICK w \in DOMAIN tally : WindowFrom(s, w)
      BY <1>4 DEF BurstInv
  <2> DEFINE old == Young(Before(Unreported(s), w))
             new == Since(Unreported(s), w)
  <2>2. /\ IsFiniteSet(old) /\ IsFiniteSet(new)
        /\ Cardinality(old) \in Nat /\ Cardinality(new) \in Nat
        /\ Cardinality(old) <= MaxRequests /\ Cardinality(new) <= MaxRequests
      BY <2>1, RequestsFinite, FS_Subset, FS_CardinalityType DEF WindowFrom, BurstInv
  <2>3. burst \subseteq old \cup new
    <3>1. DOMAIN tally \subseteq Int
        BY LenProperties DEF BurstInv
    <3>2. \A n \in burst : n < w \/ n >= w
        BY <1>2, <2>1, <3>1
    <3> QED
        BY <1>2, <3>2 DEF Young, Before, Since
  <2> HIDE DEF old, new, burst
  <2>4. /\ IsFiniteSet(old \cup new)
        /\ Cardinality(old \cup new) = Cardinality(old) + Cardinality(new) - Cardinality(old \cap new)
      BY <2>2, FS_Union
  <2>5. Cardinality(old \cap new) \in Nat /\ Cardinality(burst) \in Nat
        /\ Cardinality(burst) <= Cardinality(old \cup new)
      BY <2>2, <2>3, <2>4, SmallerSet
  <2>6. Cardinality(burst) > 2 * MaxRequests
      BY DEF burst
  <2> QED
      BY <1>1, <2>2, <2>4, <2>5, <2>6
<1> QED
    BY <1>3, <1>4

(***************************************************************************)
(* Failed logins.                                                          *)
(***************************************************************************)

(* The attempts that are remembered are events that are as old, and none   *)
(* of the last hour is missing.                                            *)
Remembered(s) ==
    /\ \A a \in attempts[s] :
          /\ a.event \in DOMAIN events /\ a.age = events[a.event].age
          /\ events[a.event].source = s /\ "failure" \in events[a.event].kind
          /\ events[a.event].life = auditFaults.exits
    /\ \A n \in RecentFailures(s, Hour) : \E a \in attempts[s] : a.event = n

AttemptsInv ==
    /\ attempts \in [Sources -> SUBSET [event : Nat, age : 0 .. Oldest]]
    /\ \A n \in DOMAIN events : events[n].life <= auditFaults.exits
    /\ reported \subseteq DOMAIN events
    /\ \A s \in Sources : Remembered(s)

LEMMA AttemptsInitially == AuditInit => AttemptsInv
    BY AuditAssumption DEF AuditInit, AttemptsInv, Remembered, RecentFailures, AuditAssumption

(* The attempts younger than an hour are the failed logins of that time.   *)
LEMMA YoungAttempts ==
    ASSUME AuditTypes, AttemptsInv, NEW s \in Sources
    PROVE  LET young == {a \in attempts[s] : a.age < Hour}
           IN  /\ IsFiniteSet(young)
               /\ Cardinality(young) = Cardinality(RecentFailures(s, Hour))
<1> DEFINE young == {a \in attempts[s] : a.age < Hour}
           recent == RecentFailures(s, Hour)
           f == [a \in young |-> a.event]
<1>1. IsFiniteSet(recent)
  <2>1. Len(events) \in Nat /\ DOMAIN events = 1 .. Len(events)
      BY LenProperties DEF AuditTypes
  <2>2. recent \subseteq 1 .. Len(events)
      BY <2>1 DEF RecentFailures
  <2>3. IsFiniteSet(1 .. Len(events))
      BY <2>1, FS_Interval
  <2> QED
      BY <2>2, <2>3, FS_Subset
<1>2. \A a \in young : a.event \in recent
    BY DEF AttemptsInv, Remembered, RecentFailures
<1>3. \A n \in recent : \E a \in young : a.event = n
    BY DEF AttemptsInv, Remembered, RecentFailures
<1>4. \A a, b \in young : a.event = b.event => a = b
  <2> SUFFICES ASSUME NEW a \in young, NEW b \in young, a.event = b.event PROVE a = b
      OBVIOUS
  <2>1. /\ a \in [event : Nat, age : 0 .. Oldest] /\ b \in [event : Nat, age : 0 .. Oldest]
        /\ a.age = events[a.event].age /\ b.age = events[b.event].age
      BY DEF AttemptsInv, Remembered
  <2> QED
      BY <2>1
<1> HIDE DEF young, recent
<1>5. f \in Bijection(young, recent)
  <2>1. /\ f \in [young -> recent] /\ \A a, b \in young : f[a] = f[b] => a = b
        /\ \A n \in recent : \E a \in young : f[a] = n
      BY <1>2, <1>3, <1>4
  <2> HIDE DEF f
  <2> QED
      BY <2>1 DEF Bijection, Injection, Surjection, IsInjective
<1>6. f \in Injection(young, recent) /\ f \in Surjection(young, recent)
    BY <1>5 DEF Bijection
<1>7. IsFiniteSet(young)
    BY <1>1, <1>6, FS_Injection
<1>8. Cardinality(young) = Cardinality(recent)
  <2>1. ExistsBijection(young, recent)
      BY <1>5 DEF ExistsBijection
  <2> QED
      BY <1>7, <2>1, FS_Bijection
<1> QED
    BY <1>7, <1>8 DEF young, recent

(* Logging an event of a source.                                           *)
LEMMA LoggedAttempts ==
    ASSUME AuditTypes, AttemptsInv, NEW s \in Sources, NEW kind \in Kinds, LogEvent(s, kind)
    PROVE  /\ AttemptsInv'
           /\ \A n \in DOMAIN events' \ DOMAIN events :
                 (n \in reported') <=>
                     /\ "failure" \in events'[n].kind
                     /\ Cardinality(RecentFailures(events'[n].source, Hour)) + 1 >= MaxFailed
<1>1. PICK n : n = Len(events) + 1
    OBVIOUS
<1> DEFINE e == [source |-> s, kind |-> kind, age |-> 0, life |-> auditFaults.exits]
           young == {a \in attempts[s] : a.age < Hour}
<1>2. /\ events' = Append(events, e) /\ UNCHANGED auditFaults
      /\ attempts' = [attempts EXCEPT ![s] = Attempts(s, kind, n)]
      /\ reported' = IF IsBruteForce(s, kind, n) THEN reported \cup {n} ELSE reported
    BY <1>1 DEF LogEvent
<1>3. /\ e \in EventType /\ e.source = s /\ e.kind = kind /\ e.age = 0 /\ e.life = auditFaults.exits
      /\ Hour \in Nat \ {0} /\ 0 \in 0 .. Oldest /\ auditFaults.exits \in Nat
    BY AuditAssumption DEF EventType, Oldest, AuditAssumption, AuditTypes
<1> HIDE DEF e
<1>4. Len(events) \in Nat /\ DOMAIN events = 1 .. Len(events)
    BY LenProperties DEF AuditTypes
<1>5. /\ DOMAIN events' = DOMAIN events \cup {n} /\ n \notin DOMAIN events /\ n \in Nat
      /\ \A k \in DOMAIN events : events'[k] = events[k]
      /\ events'[n] = e
  <2>1. /\ DOMAIN events' = 1 .. Len(events) + 1 /\ \A k \in DOMAIN events : events'[k] = events[k]
        /\ events'[Len(events) + 1] = e
      BY <1>2, <1>3, AppendRange DEF AuditTypes
  <2> QED
      BY <1>1, <1>4, <2>1
<1>6. This(n).event = n /\ This(n).age = 0 /\ This(n) \in [event : Nat, age : 0 .. Oldest]
    BY <1>3, <1>5 DEF This
<1>7. Attempts(s, kind, n) = IF "failure" \in kind THEN young \cup {This(n)} ELSE attempts[s]
    BY <1>3, <1>6 DEF Attempts
<1>8. attempts' \in [Sources -> SUBSET [event : Nat, age : 0 .. Oldest]]
    BY <1>2, <1>6, <1>7 DEF AttemptsInv
<1>9. ASSUME NEW r \in Sources PROVE Remembered(r)'
  <2>1. CASE r = s /\ "failure" \in kind
    <3>1. attempts'[r] = young \cup {This(n)}
        BY <1>2, <1>7, <2>1 DEF AttemptsInv
    <3>2. ASSUME NEW a \in attempts'[r]
          PROVE  /\ a.event \in DOMAIN events' /\ a.age = events'[a.event].age
                 /\ events'[a.event].source = r /\ "failure" \in events'[a.event].kind
                 /\ events'[a.event].life = auditFaults'.exits
      <4>1. CASE a \in young
          BY <4>1, <1>2, <1>5, <2>1 DEF AttemptsInv, Remembered
      <4>2. CASE a = This(n)
          BY <4>2, <1>2, <1>3, <1>5, <1>6, <2>1
      <4> QED
          BY <3>1, <4>1, <4>2
    <3>3. ASSUME NEW k \in RecentFailures(r, Hour)' PROVE \E a \in attempts'[r] : a.event = k
      <4>1. CASE k = n
          BY <4>1, <3>1, <1>6
      <4>2. CASE k # n
        <5>1. k \in RecentFailures(r, Hour) /\ events[k].age < Hour
            BY <1>2, <1>5, <3>3, <4>2 DEF RecentFailures
        <5>2. PICK a \in attempts[r] : a.event = k
            BY <5>1 DEF AttemptsInv, Remembered
        <5>3. a.age = events[k].age
            BY <5>2 DEF AttemptsInv, Remembered
        <5> QED
            BY <2>1, <3>1, <5>1, <5>2, <5>3
      <4> QED
          BY <4>1, <4>2
    <3> QED
        BY <3>2, <3>3 DEF Remembered
  <2>2. CASE ~(r = s /\ "failure" \in kind)
    <3>1. attempts'[r] = attempts[r]
        BY <1>2, <1>7, <2>2 DEF AttemptsInv
    <3>2. RecentFailures(r, Hour)' = RecentFailures(r, Hour)
        BY <1>2, <1>3, <1>5, <2>2 DEF RecentFailures
    <3> QED
        BY <1>2, <1>5, <3>1, <3>2 DEF AttemptsInv, Remembered
  <2> QED
      BY <2>1, <2>2
<1>10. AttemptsInv'
  <2>1. \A k \in DOMAIN events' : events'[k].life <= auditFaults'.exits
      BY <1>2, <1>3, <1>5 DEF AttemptsInv
  <2>2. reported' \subseteq DOMAIN events'
      BY <1>2, <1>5 DEF AttemptsInv
  <2> QED
      BY <1>8, <1>9, <2>1, <2>2 DEF AttemptsInv
<1>11. (n \in reported') <=>
          /\ "failure" \in kind /\ Cardinality(RecentFailures(s, Hour)) + 1 >= MaxFailed
  <2>1. n \notin reported
      BY <1>5 DEF AttemptsInv
  <2>2. (n \in reported') <=> IsBruteForce(s, kind, n)
      BY <1>2, <2>1
  <2>3. ASSUME "failure" \in kind
        PROVE  Cardinality(Attempts(s, kind, n)) = Cardinality(RecentFailures(s, Hour)) + 1
    <3>1. IsFiniteSet(young) /\ Cardinality(young) = Cardinality(RecentFailures(s, Hour))
        BY YoungAttempts
    <3>2. This(n) \notin young
        BY <1>5, <1>6 DEF AttemptsInv, Remembered
    <3> HIDE DEF young
    <3> QED
        BY <1>7, <2>3, <3>1, <3>2, FS_AddElement
  <2> QED
      BY <2>2, <2>3 DEF IsBruteForce
<1> QED
    BY <1>3, <1>5, <1>10, <1>11

LEMMA AttemptsSame ==
    ASSUME AttemptsInv, UNCHANGED <<events, reported, attempts>>, auditFaults'.exits = auditFaults.exits
    PROVE  AttemptsInv'
<1>1. \A s : RecentFailures(s, Hour)' = RecentFailures(s, Hour)
    BY DEF RecentFailures
<1> QED
    BY <1>1 DEF AttemptsInv, Remembered

LEMMA AttemptsStep == ASSUME AuditTypes, AttemptsInv, [AuditNext]_auditVars PROVE AttemptsInv'
<1>1. ASSUME NEW s \in Sources, NEW kind \in Kinds, LogEvent(s, kind) PROVE AttemptsInv'
    BY <1>1, LoggedAttempts
<1>2. CASE AuditTick
  <2>1. /\ DOMAIN events' = DOMAIN events
        /\ \A n \in DOMAIN events :
              /\ events[n].age \in 0 .. Oldest /\ events'[n].age = Older(events[n].age)
              /\ events'[n].source = events[n].source /\ events'[n].kind = events[n].kind
              /\ events'[n].life = events[n].life
    <3>1. /\ DOMAIN events' = DOMAIN events
          /\ \A n \in DOMAIN events : /\ events'[n] = [events[n] EXCEPT !.age = Older(events[n].age)]
                                     /\ events[n] \in EventType
        BY <1>2, TickEvents DEF AuditTypes
    <3> QED
        BY <3>1 DEF EventType
  <2>2. /\ \A s \in Sources : attempts'[s] = {[a EXCEPT !.age = Older(a.age)] : a \in attempts[s]}
        /\ DOMAIN attempts' = Sources /\ attempts' = [s \in Sources |-> attempts'[s]]
        /\ UNCHANGED <<reported, auditFaults>>
      BY <1>2 DEF AuditTick, saving
  <2>3. \A s \in Sources : \A a \in attempts[s] :
           /\ a \in [event : Nat, age : 0 .. Oldest]
           /\ [a EXCEPT !.age = Older(a.age)] \in [event : Nat, age : 0 .. Oldest]
           /\ [a EXCEPT !.age = Older(a.age)].event = a.event
           /\ [a EXCEPT !.age = Older(a.age)].age = Older(a.age)
    <3> SUFFICES ASSUME NEW s \in Sources, NEW a \in attempts[s]
                 PROVE  /\ a \in [event : Nat, age : 0 .. Oldest]
                        /\ [a EXCEPT !.age = Older(a.age)] \in [event : Nat, age : 0 .. Oldest]
                        /\ [a EXCEPT !.age = Older(a.age)].event = a.event
                        /\ [a EXCEPT !.age = Older(a.age)].age = Older(a.age)
        OBVIOUS
    <3>1. a \in [event : Nat, age : 0 .. Oldest]
        BY DEF AttemptsInv
    <3>2. Older(a.age) \in 0 .. Oldest
        BY <3>1, AgesGrow
    <3> QED
        BY <3>1, <3>2
  <2>4. attempts' \in [Sources -> SUBSET [event : Nat, age : 0 .. Oldest]]
      BY <2>2, <2>3
  <2>5. ASSUME NEW s \in Sources PROVE Remembered(s)'
    <3>1. ASSUME NEW b \in attempts'[s]
          PROVE  /\ b.event \in DOMAIN events' /\ b.age = events'[b.event].age
                 /\ events'[b.event].source = s /\ "failure" \in events'[b.event].kind
                 /\ events'[b.event].life = auditFaults'.exits
      <4>1. PICK a \in attempts[s] : b = [a EXCEPT !.age = Older(a.age)]
          BY <2>2, <3>1
      <4>2. b.event = a.event /\ b.age = Older(a.age)
          BY <2>3, <4>1
      <4>3. /\ a.event \in DOMAIN events /\ a.age = events[a.event].age
            /\ events[a.event].source = s /\ "failure" \in events[a.event].kind
            /\ events[a.event].life = auditFaults.exits
          BY DEF AttemptsInv, Remembered
      <4> QED
          BY <2>1, <2>2, <4>2, <4>3
    <3>2. ASSUME NEW n \in RecentFailures(s, Hour)' PROVE \E b \in attempts'[s] : b.event = n
      <4>1. n \in RecentFailures(s, Hour)
        <5>1. n \in DOMAIN events /\ events'[n].age < Hour /\ events'[n].age >= events[n].age
              /\ events[n].age \in Int /\ events'[n].age \in Int
            BY <2>1, <3>2, AgesGrow DEF RecentFailures
        <5>2. events[n].age < Hour
            BY <5>1, AuditAssumption DEF AuditAssumption
        <5> QED
            BY <2>1, <2>2, <3>2, <5>1, <5>2 DEF RecentFailures
      <4>2. PICK a \in attempts[s] : a.event = n
          BY <4>1 DEF AttemptsInv, Remembered
      <4>3. [a EXCEPT !.age = Older(a.age)] \in attempts'[s]
          BY <2>2, <4>2
      <4> QED
          BY <2>3, <4>2, <4>3
    <3> QED
        BY <3>1, <3>2 DEF Remembered
  <2>6. \A n \in DOMAIN events' : events'[n].life <= auditFaults'.exits
      BY <2>1, <2>2 DEF AttemptsInv
  <2>7. reported' \subseteq DOMAIN events'
      BY <2>1, <2>2 DEF AttemptsInv
  <2> QED
      BY <2>4, <2>5, <2>6, <2>7 DEF AttemptsInv
<1>3. ASSUME Process \/ StartAudit \/ StopAudit PROVE AttemptsInv'
  <2>1. UNCHANGED detection /\ auditFaults'.exits = auditFaults.exits
    <3>1. auditFaults \in [failures : 0 .. SaveFailures, exits : 0 .. MaxExits]
        BY DEF AuditTypes
    <3> QED
        BY <1>3, <3>1 DEF Process, TakeEvent, SaveToDatabase, SaveToLog, Fails, StartAudit, StopAudit
  <2> QED
      BY <2>1, AttemptsSame DEF detection
<1>4. CASE AuditExit
  <2>1. /\ attempts' = [s \in Sources |-> {}] /\ UNCHANGED <<events, reported>>
        /\ auditFaults'.exits = auditFaults.exits + 1 /\ auditFaults.exits \in Nat
      BY <1>4, AuditAssumption DEF AuditExit, Forgotten, AuditTypes, AuditAssumption
  <2>2. \A n \in DOMAIN events : events[n].life \in Nat /\ events[n].life <= auditFaults.exits
    <3>1. \A n \in DOMAIN events : events[n] \in EventType
        BY ElementOfSeq, LenProperties DEF AuditTypes
    <3> QED
        BY <3>1, AuditAssumption DEF EventType, AttemptsInv, AuditAssumption
  <2>3. \A s \in Sources : RecentFailures(s, Hour)' = {}
      BY <2>1, <2>2 DEF RecentFailures
  <2>4. \A n \in DOMAIN events' : events'[n].life <= auditFaults'.exits
      BY <2>1, <2>2
  <2> QED
      BY <2>1, <2>3, <2>4 DEF AttemptsInv, Remembered
<1>5. CASE UNCHANGED auditVars
    BY <1>5, AttemptsSame DEF auditVars, detection, saving
<1>6. ASSUME NEW s \in Sources, CountRequest(s) PROVE AttemptsInv'
    BY <1>6, AttemptsSame DEF CountRequest, saving
<1> QED
    BY <1>1, <1>2, <1>3, <1>4, <1>5, <1>6 DEF AuditNext

(* A failed login is reported exactly when it is at least the MaxFailed-th *)
(* of its address within the hour (_detect_brute_force): whatever came     *)
(* before, and whatever a restart has forgotten.                           *)
THEOREM BruteForceReportedHolds == AuditSpec => BruteForceReported
<1>1. AuditInit => SavingInv /\ AttemptsInv
    BY SavingInitially, AttemptsInitially
<1>2. SavingInv /\ AttemptsInv /\ [AuditNext]_auditVars => SavingInv' /\ AttemptsInv'
    BY SavingStep, AttemptsStep DEF SavingInv
<1>3. ASSUME SavingInv, AttemptsInv, [AuditNext]_auditVars
      PROVE  [\A n \in DOMAIN events' \ DOMAIN events :
                 (n \in reported') <=>
                     /\ "failure" \in events'[n].kind
                     /\ Cardinality(RecentFailures(events'[n].source, Hour)) + 1 >= MaxFailed]_auditVars
  <2>1. ASSUME NEW s \in Sources, NEW kind \in Kinds, LogEvent(s, kind)
        PROVE  \A n \in DOMAIN events' \ DOMAIN events :
                 (n \in reported') <=>
                     /\ "failure" \in events'[n].kind
                     /\ Cardinality(RecentFailures(events'[n].source, Hour)) + 1 >= MaxFailed
      BY <1>3, <2>1, LoggedAttempts DEF SavingInv
  <2>2. ASSUME \/ \E s \in Sources : CountRequest(s)
               \/ AuditTick \/ Process \/ StartAudit \/ StopAudit \/ AuditExit
        PROVE  DOMAIN events' = DOMAIN events
      BY <2>2 DEF CountRequest, AuditTick, Process, TakeEvent, SaveToDatabase, SaveToLog, StartAudit, StopAudit,
                  AuditExit, detection
  <2> QED
      BY <1>3, <2>1, <2>2 DEF AuditNext
<1> QED
    BY <1>1, <1>2, <1>3, PTL DEF AuditSpec, BruteForceReported

(***************************************************************************)
(* The types of the audit: what is reported, being saved and dropped are   *)
(* events, and there are at most MaxEvents of them.                        *)
(***************************************************************************)

EventIds == 1 .. MaxEvents

AuditBounds ==
    /\ Len(events) <= MaxEvents
    /\ reported \subseteq EventIds
    /\ auditor.event \in 0 .. MaxEvents
    /\ dropped \subseteq {"database", "file"} \X EventIds

LEMMA EventsAreIds ==
    ASSUME AuditTypes, AuditBounds
    PROVE  /\ Len(events) \in Nat /\ MaxEvents \in Nat /\ DOMAIN events \subseteq EventIds
           /\ EventIds \subseteq 0 .. MaxEvents /\ 0 \in 0 .. MaxEvents
<1>1. Len(events) \in Nat /\ DOMAIN events = 1 .. Len(events) /\ Len(events) <= MaxEvents
    BY LenProperties DEF AuditTypes, AuditBounds
<1>2. MaxEvents \in Nat
    BY AuditAssumption DEF AuditAssumption
<1> QED
    BY <1>1, <1>2 DEF EventIds

LEMMA BoundsInitially == AuditInit => AuditBounds
    BY AuditAssumption, EmptySeq DEF AuditInit, AuditBounds, Ready, AuditAssumption

LEMMA BoundsStep == ASSUME AuditTypes, AuditBounds, [AuditNext]_auditVars PROVE AuditBounds'
<1>0. /\ Len(events) \in Nat /\ MaxEvents \in Nat /\ DOMAIN events \subseteq EventIds
      /\ EventIds \subseteq 0 .. MaxEvents /\ 0 \in 0 .. MaxEvents
    BY EventsAreIds
<1>1. ASSUME NEW s \in Sources, NEW kind \in Kinds, LogEvent(s, kind) PROVE AuditBounds'
  <2> DEFINE n == Len(events) + 1
             e == [source |-> s, kind |-> kind, age |-> 0, life |-> auditFaults.exits]
  <2>1. /\ n \in EventIds /\ events' = Append(events, e) /\ UNCHANGED <<auditor, dropped>>
        /\ reported' \subseteq reported \cup {n}
      BY <1>0, <1>1 DEF LogEvent, EventIds
  <2>3. Len(events') = n
    <3>1. e \in EventType
        BY <1>1, AuditAssumption DEF EventType, Oldest, AuditTypes, AuditAssumption
    <3> HIDE DEF e
    <3> QED
        BY <2>1, <3>1, AppendProperties DEF AuditTypes
  <2>4. n <= MaxEvents
      BY <1>0, <2>1 DEF EventIds
  <2> HIDE DEF n, e
  <2> QED
      BY <2>1, <2>3, <2>4 DEF AuditBounds
<1>2. CASE AuditTick
    BY <1>2, TickEvents DEF AuditTick, saving, AuditBounds
<1>3. CASE TakeEvent
  <2>1. /\ auditor'.event = Head(auditQueue) /\ auditQueue # <<>>
        /\ UNCHANGED <<events, reported, dropped>>
      BY <1>3 DEF TakeEvent, detection
  <2>2. Head(auditQueue) \in DOMAIN events
      BY <2>1, TailRange DEF AuditTypes
  <2> QED
      BY <1>0, <2>1, <2>2 DEF AuditBounds
<1>4. CASE SaveToDatabase \/ SaveToLog
  <2>1. /\ auditor.event \in DOMAIN events /\ UNCHANGED <<events, reported>>
        /\ auditor'.event \in {0, auditor.event}
        /\ dropped' \subseteq dropped \cup {<<"database", auditor.event>>, <<"file", auditor.event>>}
      BY <1>4 DEF SaveToDatabase, SaveToLog, Ready, AuditTypes, Saving, detection
  <2>2. {<<"database", auditor.event>>, <<"file", auditor.event>>} \subseteq {"database", "file"} \X EventIds
      BY <1>0, <2>1
  <2> QED
      BY <1>0, <2>1, <2>2 DEF AuditBounds
<1>5. Undone \subseteq {"database", "file"} \X EventIds
  <2>1. ASSUME NEW x \in Undone PROVE x \in {"database", "file"} \X EventIds
    <3>1. PICK where \in {"database", "file"} : x = <<where, auditor.event>> /\ Saving
        BY <2>1 DEF Undone, Saving
    <3>2. auditor.event \in EventIds
        BY <1>0, <3>1 DEF AuditTypes
    <3> QED
        BY <3>1, <3>2
  <2> QED
      BY <2>1
<1>6. CASE StartAudit \/ StopAudit
  <2>1. UNCHANGED <<events, reported>> /\ auditor'.event = 0
      BY <1>6 DEF StartAudit, StopAudit, Ready, Off, detection
  <2>2. dropped' = dropped \cup Undone \/ UNCHANGED dropped
      BY <1>6 DEF StartAudit, StopAudit
  <2> QED
      BY <1>0, <1>5, <2>1, <2>2 DEF AuditBounds
<1>7. CASE AuditExit
  <2>1. /\ UNCHANGED <<events, reported>> /\ auditor'.event = 0
        /\ dropped' = (dropped \cup Undone) \cup ({"database", "file"} \X Range(auditQueue))
      BY <1>7 DEF AuditExit, Ready, Range
  <2>2. Range(auditQueue) \subseteq EventIds
      BY <1>0 DEF AuditTypes
  <2>3. {"database", "file"} \X Range(auditQueue) \subseteq {"database", "file"} \X EventIds
      BY <2>2
  <2> QED
      BY <1>0, <1>5, <2>1, <2>3 DEF AuditBounds
<1>8. CASE UNCHANGED auditVars
    BY <1>8 DEF auditVars, detection, saving, AuditBounds
<1>9. ASSUME NEW s \in Sources, CountRequest(s) PROVE AuditBounds'
    BY <1>9 DEF CountRequest, saving, AuditBounds
<1> QED
    BY <1>1, <1>2, <1>3, <1>4, <1>6, <1>7, <1>8, <1>9 DEF AuditNext, Process

LEMMA SequenceOver ==
    ASSUME NEW S, NEW q \in Seq(Nat), Range(q) \subseteq S
    PROVE  q \in Seq(S)
<1>1. Len(q) \in Nat /\ DOMAIN q = 1 .. Len(q) /\ q \in [1 .. Len(q) -> Nat]
    BY LenProperties
<1>2. q \in [1 .. Len(q) -> S]
    BY <1>1 DEF Range
<1> QED
    BY <1>1, <1>2, MappingIsSeq

LEMMA AuditTyped == ASSUME AuditTypes, AuditBounds, BurstInv, AttemptsInv PROVE AuditTypeOK
<1>1. DOMAIN events \subseteq EventIds
    BY EventsAreIds
<1>2. auditQueue \in Seq(EventIds) /\ database \in Seq(EventIds) /\ journal \in Seq(EventIds)
    BY <1>1, SequenceOver DEF AuditTypes
<1>3. attempts \in [Sources -> SUBSET AttemptType]
  <2>1. ASSUME NEW s \in Sources, NEW a \in attempts[s] PROVE a \in AttemptType
    <3>1. a \in [event : Nat, age : 0 .. Oldest] /\ a.event \in DOMAIN events
        BY DEF AttemptsInv, Remembered
    <3> QED
        BY <1>1, <3>1 DEF AttemptType, EventIds
  <2> QED
      BY <2>1 DEF AttemptsInv
<1>4. auditor \in [pc : {"off", "ready", "database", "file"}, event : 0 .. MaxEvents]
    BY DEF AuditTypes, AuditBounds
<1> QED
    BY <1>2, <1>3, <1>4 DEF AuditTypeOK, AuditTypes, AuditBounds, BurstInv, UsageType, EventIds

(* The variables of the audit keep their types, and what is reported, kept *)
(* or dropped is one of the events that were logged                        *)
(* (security_audit_service.py).                                            *)
THEOREM AuditTypeCorrect == AuditSpec => []AuditTypeOK
<1> DEFINE Inv == SavingInv /\ BurstInv /\ AttemptsInv /\ AuditBounds
<1>1. AuditInit => Inv
    BY SavingInitially, BurstInitially, AttemptsInitially, BoundsInitially
<1>2. Inv /\ [AuditNext]_auditVars => Inv'
    BY SavingStep, BurstStep, AttemptsStep, BoundsStep DEF SavingInv
<1>3. Inv => AuditTypeOK
    BY AuditTyped DEF SavingInv
<1> QED
    BY <1>1, <1>2, <1>3, PTL DEF AuditSpec
================================================================================
