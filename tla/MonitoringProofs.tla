-------------------------- MODULE MonitoringProofs --------------------------
(***************************************************************************)
(* Proofs about what watches the containers and the program itself.        *)
(*                                                                         *)
(* The health monitor counts failures as its results show them.  The hub,  *)
(* for any clients, any broadcasts and any limit, counts its clients and   *)
(* bounds them, sends nobody a broadcast twice, and a broadcast nobody     *)
(* joined reaches the subscribers it owes.  What the files of the days     *)
(* hold is found again, by the history of the metrics and by the analysis. *)
(***************************************************************************)
EXTENDS MetricsHub, HealthMonitor, MetricsHistory, Analytics, FiniteSetTheorems,
        SequenceTheorems, WellFoundedInduction, TLAPS

(***************************************************************************)
(* The health monitor.                                                     *)
(***************************************************************************)

(* The places of the results since the last good one, and of the failures. *)
Back(s) == {n \in DOMAIN s : \A k \in n .. Len(s) : ~Good(s[k])}
Bad(s)  == {n \in Back(s) : s[n] = "unhealthy"}

(* The count n fits the results s: beyond the history it may be larger.    *)
Fits(n, s) ==
    LET bad == Cardinality(Bad(s))
        min == IF bad < MaxFailures THEN bad ELSE MaxFailures
    IN  IF Cardinality(Back(s)) < History THEN n = min ELSE n >= min

HealthInv ==
    /\ HealthTypeOK
    /\ \A c \in Checks : /\ Len(results[c]) <= History
                         /\ c \in registered => failureCounts[c] # -1
                         /\ failureCounts[c] # -1 => Fits(failureCounts[c], results[c])

LEMMA HealthNumbers ==
    /\ History \in Nat /\ History >= 1 /\ MaxFailures \in Nat /\ MaxFailures >= 1
    /\ CheckTasks \in Nat /\ HealthEvents \in Nat
    BY HealthAssumption DEF HealthAssumption

(* Numbers moved down by d are as many.                                    *)
LEMMA Shifted ==
    ASSUME NEW n \in Nat, NEW S \in SUBSET (1 .. n), NEW d \in 0 .. 1
    PROVE  LET T == {i - d : i \in S}
           IN  /\ IsFiniteSet(S) /\ Cardinality(S) \in Nat /\ IsFiniteSet(T)
               /\ Cardinality(T) = Cardinality(S)
<1> DEFINE T == {i - d : i \in S}
           f == [i \in S |-> i - d]
<1>1. IsFiniteSet(S) /\ Cardinality(S) \in Nat
  <2>1. IsFiniteSet(1 .. n)
      BY FS_Interval
  <2> QED
      BY <2>1, FS_Subset, FS_CardinalityType
<1>2. /\ f \in [S -> T] /\ \A i, j \in S : f[i] = f[j] => i = j
      /\ \A t \in T : \E i \in S : f[i] = t
    OBVIOUS
<1>3. ExistsBijection(S, T)
  <2> HIDE DEF f, T
  <2>1. f \in Bijection(S, T)
      BY <1>2 DEF Bijection, Injection, Surjection, IsInjective
  <2> QED
      BY <2>1 DEF ExistsBijection
<1> HIDE DEF T
<1>4. IsFiniteSet(T) /\ Cardinality(T) = Cardinality(S)
    BY <1>1, <1>3, FS_Bijection
<1> QED
    BY <1>1, <1>4 DEF T

(* What is stored is what there was, without the first if there is no room, *)
(* and the new one.                                                         *)
LEMMA StoredOne ==
    ASSUME NEW s \in Seq(Statuses), Len(s) <= History, NEW r \in Statuses
    PROVE  LET d == IF Len(s) < History THEN 0 ELSE 1
               m == Len(s) + 1 - d
               t == Stored(s, <<r>>)
           IN  /\ t \in Seq(Statuses) /\ Len(t) = m /\ m \in 1 .. History /\ t[m] = r
               /\ \A i \in 1 .. m - 1 : t[i] = s[i + d]
<1> DEFINE d == IF Len(s) < History THEN 0 ELSE 1
           m == Len(s) + 1 - d
           all == s \o <<r>>
           t == Stored(s, <<r>>)
<1>1. Len(s) \in Nat
    BY LenProperties
<1>2. <<r>> \in Seq(Statuses) /\ Len(<<r>>) = 1 /\ <<r>>[1] = r
    OBVIOUS
<1>3. /\ all \in Seq(Statuses) /\ Len(all) = Len(s) + 1
      /\ \A i \in 1 .. Len(s) + 1 : all[i] = IF i <= Len(s) THEN s[i] ELSE r
  <2>1. /\ all \in Seq(Statuses) /\ Len(all) = Len(s) + Len(<<r>>)
        /\ \A i \in 1 .. Len(s) + Len(<<r>>) : all[i] = IF i <= Len(s) THEN s[i] ELSE <<r>>[i - Len(s)]
      BY <1>2, ConcatProperties
  <2> QED
      BY <1>1, <1>2, <2>1
<1> HIDE DEF all
<1>4. CASE Len(s) < History
  <2>1. t = all
      BY <1>1, <1>3, <1>4, HealthNumbers DEF Stored, all
  <2> QED
      BY <1>1, <1>3, <1>4, <2>1, HealthNumbers
<1>5. CASE ~(Len(s) < History)
  <2>1. Len(s) = History
      BY <1>1, <1>5, HealthNumbers
  <2>2. t = SubSeq(all, 2, Len(s) + 1)
    <3>1. t = SubSeq(all, Len(all) - History + 1, Len(all))
        BY <1>3, <2>1, HealthNumbers DEF Stored, all
    <3>2. Len(all) = Len(s) + 1 /\ Len(all) - History + 1 = 2
        BY <1>1, <1>3, <2>1, HealthNumbers
    <3> QED
        BY <3>1, <3>2
  <2>3. \A i \in 2 .. Len(s) + 1 : all[i] \in Statuses
    <3>1. \A i \in 1 .. Len(all) : all[i] \in Statuses
        BY <1>3, ElementOfSeq
    <3> QED
        BY <1>1, <1>3, <3>1
  <2>4. /\ t \in Seq(Statuses) /\ Len(t) = Len(s)
        /\ \A i \in 1 .. Len(s) : t[i] = all[i + 1]
    <3>1. 2 \in Int /\ Len(s) + 1 \in Int
        BY <1>1
    <3>2. /\ SubSeq(all, 2, Len(s) + 1) \in Seq(Statuses)
          /\ Len(SubSeq(all, 2, Len(s) + 1)) = IF 2 <= Len(s) + 1 THEN Len(s) + 1 - 2 + 1 ELSE 0
          /\ \A i \in 1 .. Len(s) + 1 - 2 + 1 : SubSeq(all, 2, Len(s) + 1)[i] = all[2 + i - 1]
        BY <2>3, <3>1, SubSeqProperties
    <3> DEFINE u == SubSeq(all, 2, Len(s) + 1)
    <3>3. u \in Seq(Statuses) /\ Len(u) = Len(s)
        BY <1>1, <2>1, <3>2, HealthNumbers
    <3>4. ASSUME NEW i \in 1 .. Len(s) PROVE u[i] = all[i + 1]
      <4>1. i \in 1 .. Len(s) + 1 - 2 + 1 /\ 2 + i - 1 = i + 1
          BY <1>1
      <4>2. u[i] = all[2 + i - 1]
          BY <3>2, <4>1
      <4> QED
          BY <4>1, <4>2
    <3> QED
        BY <2>2, <3>3, <3>4
  <2> HIDE DEF t
  <2> QED
      BY <1>1, <1>3, <1>5, <2>1, <2>4, HealthNumbers DEF t
<1> QED
    BY <1>4, <1>5

(* A result that is not good lengthens the streak by one, or moves it by   *)
(* one when it is the whole history; a good one ends it.                   *)
LEMMA StreakStored ==
    ASSUME NEW s \in Seq(Statuses), Len(s) <= History, NEW r \in Statuses
    PROVE  LET t   == Stored(s, <<r>>)
               one == IF r = "unhealthy" THEN 1 ELSE 0
           IN  /\ Cardinality(Back(s)) \in Nat /\ Cardinality(Bad(s)) \in Nat
               /\ Cardinality(Back(t)) \in Nat /\ Cardinality(Bad(t)) \in Nat
               /\ Good(r) => Cardinality(Back(t)) = 0 /\ Cardinality(Bad(t)) = 0
               /\ ~Good(r) /\ Cardinality(Back(s)) < History
                    => /\ Cardinality(Back(t)) = Cardinality(Back(s)) + 1
                       /\ Cardinality(Bad(t)) = Cardinality(Bad(s)) + one
               /\ ~Good(r) /\ Cardinality(Back(s)) >= History
                    => /\ Cardinality(Back(t)) >= History
                       /\ Cardinality(Bad(t)) <= Cardinality(Bad(s)) + one
<1> DEFINE d == IF Len(s) < History THEN 0 ELSE 1
           m == Len(s) + 1 - d
           t == Stored(s, <<r>>)
           one == IF r = "unhealthy" THEN 1 ELSE 0
           B == {i \in Back(s) : i > d}
           F == {i \in Bad(s) : i > d}
           Bt == {i - d : i \in B}
           Ft == {i - d : i \in F}
<1>14. Len(s) \in Nat /\ DOMAIN s = 1 .. Len(s) /\ (d = 1 => Len(s) = History)
  <2>1. Len(s) \in Nat /\ DOMAIN s = 1 .. Len(s)
      BY LenProperties
  <2>2. Len(s) < History \/ Len(s) = History
    <3>1. \A a, b \in Nat : a <= b => a < b \/ a = b
        OBVIOUS
    <3>2. History \in Nat /\ Len(s) \in Nat /\ Len(s) <= History
        BY <2>1, HealthNumbers
    <3> QED
        BY <3>1, <3>2, Zenon
  <2>3. CASE Len(s) < History
    <3>1. d = 0
        BY <2>3
    <3> QED
        BY <2>1, <3>1
  <2> QED
      BY <2>1, <2>2, <2>3
<1>15. /\ IsFiniteSet(1 .. Len(s)) /\ Cardinality(1 .. Len(s)) = Len(s)
       /\ Len(s) >= 1 => Cardinality(2 .. Len(s)) = Len(s) - 1
  <2>1. /\ IsFiniteSet(1 .. Len(s))
        /\ Cardinality(1 .. Len(s)) = IF 1 > Len(s) THEN 0 ELSE Len(s) - 1 + 1
      BY <1>14, FS_Interval
  <2>2. Cardinality(2 .. Len(s)) = IF 2 > Len(s) THEN 0 ELSE Len(s) - 2 + 1
      BY <1>14, FS_Interval
  <2> QED
      BY <1>14, <2>1, <2>2
<1>1. /\ t \in Seq(Statuses) /\ Len(t) = m /\ m \in 1 .. History /\ t[m] = r
      /\ \A i \in 1 .. m - 1 : t[i] = s[i + d]
    BY StoredOne
<1>2. /\ Len(s) \in Nat /\ DOMAIN s = 1 .. Len(s) /\ d \in 0 .. 1 /\ m \in Nat /\ m >= 1
      /\ Len(s) = m - 1 + d /\ DOMAIN t = 1 .. m
  <2>1. Len(s) \in Nat /\ DOMAIN s = 1 .. Len(s) /\ d \in 0 .. 1
      BY LenProperties
  <2>2. DOMAIN t = 1 .. Len(t)
      BY <1>1, LenProperties
  <2> HIDE DEF t
  <2> QED
      BY <1>1, <2>1, <2>2
<1> HIDE DEF t
<1>3. Good(r) => Back(t) = {} /\ Bad(t) = {}
    BY <1>1, <1>2 DEF Back, Bad
<1>4. /\ Back(s) \in SUBSET (1 .. Len(s)) /\ Bad(s) \in SUBSET (1 .. Len(s))
      /\ Back(t) \in SUBSET (1 .. m) /\ Bad(t) \in SUBSET (1 .. m)
    BY <1>2 DEF Back, Bad
<1>5. /\ IsFiniteSet(Back(s)) /\ Cardinality(Back(s)) \in Nat
      /\ IsFiniteSet(Bad(s)) /\ Cardinality(Bad(s)) \in Nat
      /\ Cardinality(Back(t)) \in Nat /\ Cardinality(Bad(t)) \in Nat
  <2>1. 0 \in 0 .. 1
      OBVIOUS
  <2> HIDE DEF m, d
  <2> QED
      BY <1>2, <1>4, <2>1, Shifted
<1>6. /\ IsFiniteSet(Bt) /\ Cardinality(Bt) = Cardinality(B) /\ B \in SUBSET (1 .. Len(s))
      /\ IsFiniteSet(Ft) /\ Cardinality(Ft) = Cardinality(F) /\ F \in SUBSET (1 .. Len(s))
  <2>1. B \in SUBSET (1 .. Len(s)) /\ F \in SUBSET (1 .. Len(s))
      BY <1>4
  <2> HIDE DEF B, F, d
  <2> QED
      BY <1>2, <2>1, Shifted
<1>7. ASSUME ~Good(r) PROVE Back(t) = Bt \cup {m}
  <2>1. ASSUME NEW n \in Back(t), n # m PROVE n \in Bt
    <3>1. n \in 1 .. m - 1 /\ \A k \in n .. m : ~Good(t[k])
        BY <1>1, <1>2, <2>1 DEF Back
    <3>2. n + d \in 1 .. Len(s) /\ n + d > d
        BY <1>2, <3>1
    <3>3. ASSUME NEW k \in n + d .. Len(s) PROVE ~Good(s[k])
      <4>1. k - d \in n .. m /\ k - d \in 1 .. m - 1 /\ (k - d) + d = k
          BY <1>2, <3>1
      <4> HIDE DEF m, d
      <4>2. t[k - d] = s[(k - d) + d]
          BY <1>1, <4>1
      <4> QED
          BY <3>1, <4>1, <4>2
    <3>4. n + d \in B
        BY <1>2, <3>2, <3>3 DEF Back
    <3>5. (n + d) - d = n
        BY <1>2, <3>1
    <3> QED
        BY <3>4, <3>5
  <2>2. m \in Back(t)
      BY <1>1, <1>2, <1>7 DEF Back
  <2>3. ASSUME NEW i \in B PROVE i - d \in Back(t)
    <3>1. i \in 1 .. Len(s) /\ i > d /\ \A k \in i .. Len(s) : ~Good(s[k])
        BY <1>2 DEF Back
    <3>2. i - d \in 1 .. m - 1
        BY <1>2, <3>1
    <3>3. ASSUME NEW k \in i - d .. m PROVE ~Good(t[k])
      <4>1. CASE k = m
          BY <1>1, <1>7, <4>1
      <4>2. CASE k # m
        <5>1. k \in 1 .. m - 1 /\ k + d \in i .. Len(s)
            BY <1>2, <3>1, <3>2, <4>2
        <5> HIDE DEF m, d
        <5> QED
            BY <1>1, <3>1, <5>1
      <4> QED
          BY <4>1, <4>2
    <3> QED
        BY <1>1, <1>2, <3>2, <3>3 DEF Back
  <2> QED
      BY <2>1, <2>2, <2>3
<1>8. ASSUME ~Good(r) PROVE Bad(t) = IF r = "unhealthy" THEN Ft \cup {m} ELSE Ft
  <2>1. ASSUME NEW i \in B PROVE i - d \in 1 .. m - 1 /\ t[i - d] = s[i]
    <3>1. i - d \in 1 .. m - 1 /\ (i - d) + d = i
        BY <1>2, <1>6
    <3> HIDE DEF m, d, B
    <3> QED
        BY <1>1, <3>1
  <2>2. F = {i \in B : s[i] = "unhealthy"}
      BY DEF Bad
  <2>3. \A n \in Bt : t[n] = "unhealthy" <=> n \in Ft
    <3> SUFFICES ASSUME NEW n \in Bt PROVE t[n] = "unhealthy" <=> n \in Ft
        OBVIOUS
    <3>1. PICK i \in B : n = i - d
        OBVIOUS
    <3>2. t[n] = s[i]
        BY <2>1, <3>1
    <3>3. ASSUME NEW j \in F, n = j - d PROVE j = i
        BY <1>2, <1>6, <3>1, <3>3
    <3> HIDE DEF B, F, d
    <3> QED
        BY <2>2, <3>1, <3>2, <3>3
  <2>4. Ft \subseteq Bt
      BY <2>2
  <2> HIDE DEF Bt, Ft, B, F, m
  <2> QED
      BY <1>1, <1>7, <1>8, <2>3, <2>4 DEF Bad
<1>9. m \notin Bt /\ m \notin Ft
    BY <1>2, <1>6
<1>10. ASSUME ~Good(r)
       PROVE  /\ Cardinality(Back(t)) = Cardinality(B) + 1
              /\ Cardinality(Bad(t)) = Cardinality(F) + one
  <2>1. Cardinality(Back(t)) = Cardinality(Bt) + 1
    <3> HIDE DEF Bt, m
    <3> QED
        BY <1>6, <1>7, <1>9, <1>10, FS_AddElement
  <2>2. Cardinality(Bad(t)) = Cardinality(Ft) + one
    <3>1. Cardinality(Ft) \in Nat
        BY <1>6, FS_CardinalityType
    <3> HIDE DEF Ft, m
    <3> QED
        BY <1>6, <1>8, <1>9, <1>10, <3>1, FS_AddElement
  <2> QED
      BY <1>6, <2>1, <2>2
<1>11. ASSUME Cardinality(Back(s)) < History PROVE B = Back(s) /\ F = Bad(s)
  <2>1. CASE d = 0
      BY <1>4, <2>1
  <2>2. CASE d = 1
    <3>1. Len(s) = History
        BY <1>14, <2>2
    <3>2. ASSUME 1 \in Back(s) PROVE FALSE
      <4>1. Back(s) = 1 .. Len(s)
          BY <1>2, <3>2 DEF Back
      <4>2. Cardinality(Back(s)) = Len(s)
          BY <1>15, <4>1
      <4> QED
          BY <1>5, <1>11, <3>1, <4>2, HealthNumbers
    <3> QED
        BY <1>4, <2>2, <3>2 DEF Bad
  <2> QED
      BY <1>2, <2>1, <2>2
<1>12. ASSUME ~Good(r), Cardinality(Back(s)) >= History
       PROVE  Cardinality(Back(t)) >= History /\ Cardinality(Bad(t)) <= Cardinality(Bad(s)) + one
  <2>1. Back(s) = 1 .. Len(s) /\ Len(s) = History /\ d = 1 /\ m = Len(s)
    <3>1. IsFiniteSet(1 .. Len(s)) /\ Cardinality(1 .. Len(s)) = Len(s)
        BY <1>15
    <3>2. Cardinality(Back(s)) <= Len(s) /\ (Cardinality(Back(s)) = Len(s) => Back(s) = 1 .. Len(s))
        BY <1>4, <3>1, FS_Subset
    <3>3. Len(s) = History
      <4>1. \A a, b, c \in Nat : c <= a /\ a <= b /\ c >= b => a = b
          OBVIOUS
      <4>2. History \in Nat /\ Len(s) \in Nat /\ Len(s) <= History
          BY <1>14, HealthNumbers
      <4> QED
          BY <1>5, <1>12, <3>2, <4>1, <4>2, Zenon
    <3>4. Back(s) = 1 .. Len(s)
        BY <1>5, <1>12, <1>14, <3>2, <3>3, HealthNumbers
    <3>5. d = 1
        BY <3>3, HealthNumbers
    <3> QED
        BY <1>14, <3>3, <3>4, <3>5
  <2>2. B = 2 .. Len(s)
      BY <1>2, <2>1
  <2>3. Cardinality(B) + 1 = History
    <3>1. Len(s) >= 1
        BY <2>1, HealthNumbers
    <3>2. Cardinality(B) = Len(s) - 1
        BY <1>15, <2>2, <3>1
    <3>3. \A a \in Nat : (a - 1) + 1 = a
        OBVIOUS
    <3> HIDE DEF B
    <3> QED
        BY <1>14, <2>1, <3>2, <3>3, Zenon
  <2>4. Cardinality(F) <= Cardinality(Bad(s)) /\ Cardinality(F) \in Nat
    <3>1. F \subseteq Bad(s)
        OBVIOUS
    <3> HIDE DEF F
    <3> QED
        BY <1>5, <3>1, FS_Subset, FS_CardinalityType
  <2> QED
      BY <1>5, <1>10, <1>12, <2>3, <2>4, HealthNumbers
<1>13. Good(r) => Cardinality(Back(t)) = 0 /\ Cardinality(Bad(t)) = 0
    BY <1>3, FS_EmptySet
<1> HIDE DEF one
<1> QED
    BY <1>5, <1>10, <1>11, <1>12, <1>13 DEF t, one

(* Two results at once, of a check whose count is gone, are kept alike.    *)
LEMMA StoredIsHistory ==
    ASSUME NEW s \in Seq(Statuses), NEW new \in Seq(Statuses)
    PROVE  Stored(s, new) \in Seq(Statuses) /\ Len(Stored(s, new)) <= History
<1> DEFINE all == s \o new
<1>1. all \in Seq(Statuses) /\ Len(all) \in Nat
    BY ConcatProperties, LenProperties
<1>2. Stored(s, new) = IF Len(all) > History THEN SubSeq(all, Len(all) - History + 1, Len(all))
                                             ELSE all
    BY DEF Stored
<1> HIDE DEF all
<1>3. PICK n \in Nat : n = Len(all)
    BY <1>1
<1>4. CASE n > History
  <2>1. n - History + 1 \in Int /\ n \in Int /\ n - History + 1 >= 1 /\ n - History + 1 <= n
        /\ n - (n - History + 1) + 1 = History
      BY <1>4, HealthNumbers
  <2>2. \A i \in n - History + 1 .. n : all[i] \in Statuses
    <3> SUFFICES ASSUME NEW i \in n - History + 1 .. n PROVE all[i] \in Statuses
        OBVIOUS
    <3>1. i \in 1 .. Len(all)
        BY <1>3, <2>1
    <3> QED
        BY <1>1, <3>1, ElementOfSeq
  <2>3. /\ SubSeq(all, n - History + 1, n) \in Seq(Statuses)
        /\ Len(SubSeq(all, n - History + 1, n)) =
              IF n - History + 1 <= n THEN n - (n - History + 1) + 1 ELSE 0
      BY <2>1, <2>2, SubSeqProperties
  <2>4. Len(SubSeq(all, n - History + 1, n)) = History
      BY <2>1, <2>3
  <2>5. Stored(s, new) = SubSeq(all, n - History + 1, n)
      BY <1>2, <1>3, <1>4
  <2> QED
      BY <2>3, <2>4, <2>5, HealthNumbers
<1>5. CASE ~(n > History)
    BY <1>1, <1>2, <1>3, <1>5, HealthNumbers
<1> QED
    BY <1>4, <1>5

(* The count stays right when a result is stored.                          *)
LEMMA GoodFits ==
    ASSUME NEW s \in Seq(Statuses), Len(s) <= History, NEW r \in Statuses, Good(r)
    PROVE  Fits(0, Stored(s, <<r>>))
<1>1. /\ Cardinality(Back(Stored(s, <<r>>))) = 0 /\ Cardinality(Bad(Stored(s, <<r>>))) = 0
    BY StreakStored
<1> QED
    BY <1>1, HealthNumbers DEF Fits

LEMMA FitsStored ==
    ASSUME NEW s \in Seq(Statuses), Len(s) <= History, NEW n \in 0 .. MaxFailures, Fits(n, s)
    PROVE  /\ Fits(n, Stored(s, <<"error">>))
           /\ Fits(OneMore(n), Stored(s, <<"unhealthy">>))
<1>2. ASSUME NEW r \in {"error", "unhealthy"}, NEW one \in {0, 1},
             one = IF r = "unhealthy" THEN 1 ELSE 0,
             NEW m, m = IF r = "unhealthy" THEN OneMore(n) ELSE n
      PROVE  Fits(m, Stored(s, <<r>>))
  <2> DEFINE t == Stored(s, <<r>>)
  <2>1. /\ Cardinality(Back(s)) \in Nat /\ Cardinality(Bad(s)) \in Nat
        /\ Cardinality(Back(t)) \in Nat /\ Cardinality(Bad(t)) \in Nat
        /\ Cardinality(Back(s)) < History
              => /\ Cardinality(Back(t)) = Cardinality(Back(s)) + 1
                 /\ Cardinality(Bad(t)) = Cardinality(Bad(s)) + one
        /\ Cardinality(Back(s)) >= History
              => /\ Cardinality(Back(t)) >= History
                 /\ Cardinality(Bad(t)) <= Cardinality(Bad(s)) + one
    <3>1. r \in Statuses /\ ~Good(r)
        BY <1>2 DEF Statuses, Good
    <3> QED
        BY <1>2, <3>1, StreakStored
  <2> HIDE DEF t
  <2>2. m = IF one = 1 /\ n < MaxFailures THEN n + 1 ELSE n
      BY <1>2 DEF OneMore
  <2>3. Fits(m, t)
      BY <1>2, <2>1, <2>2, HealthNumbers DEF Fits
  <2> QED
      BY <2>3 DEF t
<1>3. Fits(n, Stored(s, <<"error">>))
    BY <1>2
<1>4. Fits(OneMore(n), Stored(s, <<"unhealthy">>))
    BY <1>2
<1> QED
    BY <1>3, <1>4

CheckTaskType == [check : Checks, pc : {"asleep", "checking", "done"}]

LEMMA HealthInitially == HealthInit => HealthInv
<1> SUFFICES ASSUME HealthInit PROVE HealthInv
    OBVIOUS
<1>1. <<>> \in Seq(Statuses) /\ Len(<<>>) = 0 /\ Back(<<>>) = {} /\ Bad(<<>>) = {}
    BY DEF Back, Bad
<1>2. Fits(0, <<>>)
    BY <1>1, FS_EmptySet, HealthNumbers DEF Fits
<1>3. HealthTypeOK
  <2>1. checkTasks = <<>> /\ Len(checkTasks) = 0 /\ checkTasks \in Seq(CheckTaskType)
        /\ TaskIds = {} /\ Live = {}
      BY DEF HealthInit, TaskIds, Live
  <2>2. /\ results \in [Checks -> Seq(Statuses)] /\ failureCounts \in [Checks -> -1 .. MaxFailures]
        /\ stoppers \in [Stoppers -> SUBSET TaskIds] /\ healthEvents \in 0 .. HealthEvents
      BY <1>1, <2>1, HealthNumbers DEF HealthInit
  <2>3. /\ registered \subseteq Checks /\ tracked \subseteq TaskIds
        /\ cancelled \subseteq Live
      BY DEF HealthInit
  <2>4. monitoring \in BOOLEAN
      BY DEF HealthInit
  <2>5. Len(checkTasks) <= CheckTasks
      BY <2>1, HealthNumbers
  <2> QED
      BY <2>1, <2>2, <2>3, <2>4, <2>5 DEF HealthTypeOK, CheckTaskType
<1> QED
    BY <1>1, <1>2, <1>3, HealthNumbers DEF HealthInit, HealthInv

(* A task moves; the others, and what it checks, stay.                     *)
LEMMA TaskMoves ==
    ASSUME checkTasks \in Seq(CheckTaskType), NEW t \in TaskIds,
           NEW pc \in {"asleep", "checking", "done"}, Moves(t, pc)
    PROVE  /\ checkTasks' \in Seq(CheckTaskType) /\ Len(checkTasks') = Len(checkTasks)
           /\ TaskIds' = TaskIds /\ checkTasks'[t].pc = pc
           /\ \A u \in TaskIds \ {t} : checkTasks'[u] = checkTasks[u]
<1>1. DOMAIN checkTasks = 1 .. Len(checkTasks) /\ t \in 1 .. Len(checkTasks)
    BY LenProperties DEF TaskIds
<1> DEFINE e == [checkTasks[t] EXCEPT !.pc = pc]
<1>2. e \in CheckTaskType /\ e.pc = pc
  <2>1. checkTasks[t] \in CheckTaskType
      BY <1>1, ElementOfSeq
  <2> QED
      BY <2>1 DEF CheckTaskType
<1>3. checkTasks' = [checkTasks EXCEPT ![t] = e]
    BY DEF Moves
<1> HIDE DEF e
<1>4. /\ [checkTasks EXCEPT ![t] = e] \in Seq(CheckTaskType)
      /\ Len([checkTasks EXCEPT ![t] = e]) = Len(checkTasks)
      /\ \A j \in 1 .. Len(checkTasks) :
            [checkTasks EXCEPT ![t] = e][j] = IF j = t THEN e ELSE checkTasks[j]
    BY <1>1, <1>2, ExceptSeq
<1>5. TaskIds' = 1 .. Len(checkTasks')
    BY <1>3, <1>4, LenProperties DEF TaskIds
<1> QED
    BY <1>1, <1>2, <1>3, <1>4, <1>5 DEF TaskIds

(* The tasks that start() makes, one for each check at most.               *)
LEMMA NewTasks ==
    ASSUME NEW R \in SUBSET Checks
    PROVE  LET T == {[check |-> c, pc |-> "asleep"] : c \in R}
           IN  /\ SetToSeq(T) \in Seq(CheckTaskType) /\ Len(SetToSeq(T)) <= Cardinality(R)
               /\ Cardinality(R) \in Nat
<1> DEFINE T == {[check |-> c, pc |-> "asleep"] : c \in R}
           f == [c \in R |-> [check |-> c, pc |-> "asleep"]]
<1>1. IsFiniteSet(R) /\ Cardinality(R) \in Nat
    BY HealthAssumption, FS_Subset, FS_CardinalityType DEF HealthAssumption
<1>2. f \in [R -> T] /\ \A t \in T : \E c \in R : f[c] = t
    OBVIOUS
<1>3. T \in SUBSET CheckTaskType
    BY DEF CheckTaskType
<1> HIDE DEF T, f
<1>4. f \in Surjection(R, T)
    BY <1>2 DEF Surjection
<1>5. IsFiniteSet(T) /\ Cardinality(T) <= Cardinality(R)
    BY <1>1, <1>4, FS_Surjection
<1>6. Cardinality(T) \in Nat /\ ExistsBijection(1 .. Cardinality(T), T)
    BY <1>5, FS_CardinalityType
<1>7. \E g \in [1 .. Cardinality(T) -> T] : IsInjective(g)
    BY <1>6 DEF ExistsBijection, Bijection, Injection
<1>8. SetToSeq(T) \in [1 .. Cardinality(T) -> T]
    BY <1>7 DEF SetToSeq
<1>9. SetToSeq(T) \in Seq(CheckTaskType) /\ Len(SetToSeq(T)) = Cardinality(T)
    BY <1>3, <1>6, <1>8
<1> QED
    BY <1>1, <1>5, <1>9 DEF T

LEMMA StartKeepsHealth == ASSUME HealthInv, StartMonitor PROVE HealthInv'
<1> DEFINE new == SetToSeq({[check |-> c, pc |-> "asleep"] : c \in registered})
<1>1. new \in Seq(CheckTaskType) /\ Len(new) <= Cardinality(registered) /\ Cardinality(registered) \in Nat
    BY NewTasks DEF HealthInv, HealthTypeOK
<1>2. checkTasks \in Seq(CheckTaskType) /\ checkTasks' = checkTasks \o new
      /\ Len(checkTasks) + Cardinality(registered) <= CheckTasks
    BY DEF HealthInv, HealthTypeOK, StartMonitor, CheckTaskType
<1> HIDE DEF new
<1>3. /\ checkTasks' \in Seq(CheckTaskType) /\ Len(checkTasks') = Len(checkTasks) + Len(new)
      /\ \A i \in 1 .. Len(checkTasks) : checkTasks'[i] = checkTasks[i]
      /\ Len(checkTasks) \in Nat /\ Len(new) \in Nat
  <2>1. /\ checkTasks' \in Seq(CheckTaskType) /\ Len(checkTasks') = Len(checkTasks) + Len(new)
        /\ \A i \in 1 .. Len(checkTasks) + Len(new) :
               checkTasks'[i] = IF i <= Len(checkTasks) THEN checkTasks[i] ELSE new[i - Len(checkTasks)]
        /\ Len(checkTasks) \in Nat /\ Len(new) \in Nat
      BY <1>1, <1>2, ConcatProperties, LenProperties
  <2> QED
      BY <2>1
<1>4. TaskIds = 1 .. Len(checkTasks) /\ TaskIds' = 1 .. Len(checkTasks')
    BY <1>2, <1>3, LenProperties DEF TaskIds
<1>5. TaskIds \subseteq TaskIds' /\ Len(checkTasks') <= CheckTasks
  <2>1. \A a, b, c, d \in Nat : b <= c /\ a + c <= d => a + b <= d /\ a <= a + b
      OBVIOUS
  <2>2. Len(checkTasks') <= CheckTasks /\ Len(checkTasks) <= Len(checkTasks')
      BY <1>1, <1>2, <1>3, <2>1, HealthNumbers
  <2> QED
      BY <1>3, <1>4, <2>2
<1>6. cancelled' \subseteq Live'
    BY <1>3, <1>4, <1>5 DEF HealthInv, HealthTypeOK, Live, StartMonitor
<1>7. tracked' \subseteq TaskIds' /\ stoppers' \in [Stoppers -> SUBSET TaskIds']
  <2>1. tracked' = tracked \cup (TaskIds' \ TaskIds) /\ stoppers' = stoppers
      BY DEF StartMonitor, TaskIds
  <2>2. tracked \subseteq TaskIds /\ stoppers \in [Stoppers -> SUBSET TaskIds]
      BY DEF HealthInv, HealthTypeOK
  <2> QED
      BY <1>5, <2>1, <2>2
<1>8. /\ UNCHANGED <<registered, results, failureCounts>> /\ monitoring' \in BOOLEAN
      /\ healthEvents' \in 0 .. HealthEvents
    BY HealthNumbers DEF HealthInv, HealthTypeOK, StartMonitor, HealthEvent
<1>9. HealthTypeOK'
    BY <1>3, <1>5, <1>6, <1>7, <1>8 DEF HealthInv, HealthTypeOK, CheckTaskType
<1> QED
    BY <1>8, <1>9 DEF HealthInv

LEMMA HealthStep == ASSUME HealthInv, [HealthNext]_healthVars PROVE HealthInv'
<1> USE HealthNumbers
<1>1. ASSUME NEW c \in Checks, RegisterCheck(c) PROVE HealthInv'
  <2>1. <<>> \in Seq(Statuses) /\ Len(<<>>) = 0 /\ Fits(0, <<>>)
    <3>1. Back(<<>>) = {} /\ Bad(<<>>) = {}
        BY DEF Back, Bad
    <3> QED
        BY <3>1, FS_EmptySet DEF Fits
  <2>2. /\ registered' = registered \cup {c} /\ UNCHANGED <<TaskIds, Live>>
        /\ \A d \in Checks : /\ results'[d] = IF d = c THEN <<>> ELSE results[d]
                             /\ failureCounts'[d] = IF d = c THEN 0 ELSE failureCounts[d]
      BY <1>1 DEF RegisterCheck, TaskIds, Live, HealthInv, HealthTypeOK
  <2>3. HealthTypeOK'
      BY <1>1, <2>1, <2>2 DEF HealthInv, HealthTypeOK, RegisterCheck, HealthEvent
  <2> QED
      BY <2>1, <2>2, <2>3 DEF HealthInv
<1>2. ASSUME NEW c \in Checks, UnregisterCheck(c) PROVE HealthInv'
  <2>1. <<>> \in Seq(Statuses) /\ Len(<<>>) = 0
      OBVIOUS
  <2>2. /\ registered' = registered \ {c} /\ UNCHANGED <<TaskIds, Live>>
        /\ \A d \in Checks : /\ results'[d] = IF d = c THEN <<>> ELSE results[d]
                             /\ failureCounts'[d] = IF d = c THEN -1 ELSE failureCounts[d]
      BY <1>2 DEF UnregisterCheck, TaskIds, Live, HealthInv, HealthTypeOK
  <2>3. HealthTypeOK'
      BY <1>2, <2>1, <2>2 DEF HealthInv, HealthTypeOK, UnregisterCheck, HealthEvent
  <2> QED
      BY <2>1, <2>2, <2>3 DEF HealthInv
<1>3. CASE StartMonitor
    BY <1>3, StartKeepsHealth
<1>4. ASSUME NEW s \in Stoppers, StopMonitor(s) \/ StopReturns(s) PROVE HealthInv'
  <2>1. UNCHANGED <<registered, results, failureCounts, checkTasks, TaskIds, Live>>
      BY <1>4 DEF StopMonitor, StopReturns, TaskIds, Live
  <2>3. tracked' \subseteq TaskIds /\ cancelled' \subseteq Live
        /\ stoppers' \in [Stoppers -> SUBSET TaskIds]
      BY <1>4 DEF HealthInv, HealthTypeOK, StopMonitor, StopReturns
  <2>4. monitoring' \in BOOLEAN
      BY <1>4, Zenon DEF HealthInv, HealthTypeOK, StopMonitor, StopReturns
  <2>5. healthEvents' \in 0 .. HealthEvents
    <3>1. healthEvents \in 0 .. HealthEvents
        BY DEF HealthInv, HealthTypeOK
    <3>2. healthEvents' = healthEvents \/ (healthEvents < HealthEvents /\ healthEvents' = healthEvents + 1)
        BY <1>4 DEF StopMonitor, StopReturns, HealthEvent
    <3> QED
        BY <3>1, <3>2
  <2>2. HealthTypeOK'
      BY <2>1, <2>3, <2>4, <2>5 DEF HealthInv, HealthTypeOK
  <2> QED
      BY <2>1, <2>2 DEF HealthInv
<1>5. ASSUME NEW t \in TaskIds, CheckTask(t),
             /\ results' \in [Checks -> Seq(Statuses)]
             /\ failureCounts' \in [Checks -> -1 .. MaxFailures]
             /\ \A c \in Checks :
                  /\ Len(results'[c]) <= History
                  /\ c \in registered => failureCounts'[c] # -1
                  /\ failureCounts'[c] # -1 => Fits(failureCounts'[c], results'[c])
      PROVE  HealthInv'
  <2>1. PICK pc \in {"asleep", "checking", "done"} :
           Moves(t, pc) /\ (pc = "done" => t \notin cancelled') /\ cancelled' \subseteq cancelled
      BY <1>5 DEF CheckTask, NextRound, CheckReturns, CancelledEnds
  <2>2. /\ checkTasks' \in Seq(CheckTaskType) /\ Len(checkTasks') = Len(checkTasks)
        /\ TaskIds' = TaskIds /\ checkTasks'[t].pc = pc
        /\ \A u \in TaskIds \ {t} : checkTasks'[u] = checkTasks[u]
      BY <2>1, TaskMoves DEF HealthInv, HealthTypeOK, CheckTaskType
  <2>3. cancelled' \subseteq Live'
      BY <2>1, <2>2 DEF HealthInv, HealthTypeOK, Live
  <2>4. UNCHANGED <<registered, monitoring, tracked, stoppers, healthEvents>>
      BY <1>5 DEF CheckTask, NextRound, CheckReturns, CancelledEnds
  <2>5. HealthTypeOK'
      BY <1>5, <2>2, <2>3, <2>4 DEF HealthInv, HealthTypeOK, CheckTaskType
  <2> QED
      BY <1>5, <2>4, <2>5 DEF HealthInv
<1>6. ASSUME NEW t \in TaskIds, NextRound(t) \/ CancelledEnds(t) PROVE HealthInv'
  <2>1. UNCHANGED <<results, failureCounts>>
      BY <1>6 DEF NextRound, CancelledEnds
  <2>2. CheckTask(t)
      BY <1>6 DEF CheckTask
  <2> QED
      BY <1>5, <2>1, <2>2 DEF HealthInv, HealthTypeOK
<1>7. ASSUME NEW t \in TaskIds, CheckReturns(t) PROVE HealthInv'
  <2>1. CheckTask(t)
      BY <1>7 DEF CheckTask
  <2> DEFINE c == checkTasks[t].check
             known == failureCounts[c] # -1
  <2>2. c \in Checks
    <3>1. checkTasks \in Seq(CheckTaskType) /\ t \in 1 .. Len(checkTasks)
        BY LenProperties DEF HealthInv, HealthTypeOK, CheckTaskType, TaskIds
    <3>2. checkTasks[t] \in CheckTaskType
        BY <3>1, ElementOfSeq
    <3> QED
        BY <3>2 DEF CheckTaskType
  <2>3. PICK r \in Statuses :
          /\ results' = [results EXCEPT ![c] =
                Stored(results[c], IF r = "unhealthy" /\ ~known THEN <<r, "error">> ELSE <<r>>)]
          /\ failureCounts' = [failureCounts EXCEPT ![c] =
                CASE r = "error"   -> failureCounts[c]
                  [] r = "unhealthy" -> IF known THEN OneMore(failureCounts[c]) ELSE failureCounts[c]
                  [] OTHER           -> 0]
      BY <1>7 DEF CheckReturns
  <2> DEFINE new == IF r = "unhealthy" /\ ~known THEN <<r, "error">> ELSE <<r>>
             s   == results[c]
             n   == failureCounts[c]
             n1  == CASE r = "error"   -> n
                      [] r = "unhealthy" -> IF known THEN OneMore(n) ELSE n
                      [] OTHER           -> 0
  <2>4. /\ s \in Seq(Statuses) /\ Len(s) <= History /\ n \in -1 .. MaxFailures
        /\ c \in registered => n # -1
        /\ n # -1 => Fits(n, s)
      BY <2>2 DEF HealthInv, HealthTypeOK
  <2>5. \A d \in Checks : /\ results'[d] = IF d = c THEN Stored(s, new) ELSE results[d]
                         /\ failureCounts'[d] = IF d = c THEN n1 ELSE failureCounts[d]
      BY <2>2, <2>3 DEF HealthInv, HealthTypeOK
  <2>6. Stored(s, new) \in Seq(Statuses) /\ Len(Stored(s, new)) <= History
    <3>1. new \in Seq(Statuses)
      <4>1. <<r>> \in Seq(Statuses) /\ <<r, "error">> \in Seq(Statuses)
          BY DEF Statuses
      <4> QED
          BY <4>1
    <3> HIDE DEF new, s
    <3> QED
        BY <2>4, <3>1, StoredIsHistory
  <2>7. r = "error" \/ r = "unhealthy" \/ Good(r)
      BY DEF Statuses, Good
  <2>8. n1 \in -1 .. MaxFailures /\ (c \in registered => n1 # -1) /\ (n1 # -1 => Fits(n1, Stored(s, new)))
    <3> HIDE DEF s, n, c
    <3>1. CASE r = "error"
      <4>1. n1 = n /\ new = <<"error">>
          BY <3>1
      <4>2. n # -1 => n \in 0 .. MaxFailures
          BY <2>4
      <4>3. n # -1 => Fits(n, Stored(s, <<"error">>))
          BY <2>4, <4>2, FitsStored
      <4> HIDE DEF n1, new
      <4> QED
          BY <2>4, <4>1, <4>3
    <3>2. CASE r = "unhealthy" /\ n # -1
      <4>1. n1 = OneMore(n) /\ new = <<"unhealthy">> /\ n \in 0 .. MaxFailures
          BY <2>4, <3>2 DEF n
      <4>2. OneMore(n) \in 0 .. MaxFailures
          BY <4>1 DEF OneMore
      <4>3. Fits(OneMore(n), Stored(s, <<"unhealthy">>))
          BY <2>4, <3>2, <4>1, FitsStored
      <4> HIDE DEF n1, new
      <4> QED
          BY <4>1, <4>2, <4>3
    <3>3. CASE r = "unhealthy" /\ n = -1
      <4>1. n1 = -1
          BY <3>3 DEF n
      <4> QED
          BY <2>4, <3>3, <4>1
    <3>4. CASE Good(r)
      <4>1. n1 = 0 /\ new = <<r>>
          BY <3>4 DEF Good
      <4>2. Fits(0, Stored(s, <<r>>))
          BY <2>4, <3>4, GoodFits
      <4> HIDE DEF n1, new
      <4> QED
          BY <4>1, <4>2, HealthNumbers
    <3> QED
        BY <2>7, <3>1, <3>2, <3>3, <3>4
  <2> HIDE DEF s, n, n1, new, c
  <2>9. /\ results' \in [Checks -> Seq(Statuses)] /\ failureCounts' \in [Checks -> -1 .. MaxFailures]
    <3>1. DOMAIN results' = Checks /\ results' = [d \in Checks |-> results'[d]]
          /\ DOMAIN failureCounts' = Checks /\ failureCounts' = [d \in Checks |-> failureCounts'[d]]
        BY <2>3 DEF HealthInv, HealthTypeOK
    <3> QED
        BY <2>5, <2>6, <2>8, <3>1 DEF HealthInv, HealthTypeOK
  <2>10. ASSUME NEW d \in Checks
         PROVE  /\ Len(results'[d]) <= History
                /\ d \in registered => failureCounts'[d] # -1
                /\ failureCounts'[d] # -1 => Fits(failureCounts'[d], results'[d])
    <3>1. CASE d = c
        BY <2>5, <2>6, <2>8, <3>1
    <3>2. CASE d # c
        BY <2>5, <3>2 DEF HealthInv
    <3> QED
        BY <3>1, <3>2
  <2> QED
      BY <1>5, <2>1, <2>9, <2>10
<1>8. CASE UNCHANGED healthVars
  <2>1. UNCHANGED <<TaskIds, Live>>
      BY <1>8 DEF healthVars, TaskIds, Live
  <2> QED
      BY <1>8, <2>1 DEF healthVars, HealthInv, HealthTypeOK
<1> QED
    BY <1>1, <1>2, <1>3, <1>4, <1>6, <1>7, <1>8 DEF HealthNext, CheckTask

LEMMA HealthInvHolds == HealthSpec => []HealthInv
<1>1. HealthInit => HealthInv
    BY HealthInitially
<1>2. HealthInv /\ [HealthNext]_healthVars => HealthInv'
    BY HealthStep
<1> QED
    BY <1>1, <1>2, PTL DEF HealthSpec

(* Whatever is registered, taken out, started and stopped.                 *)
THEOREM HealthTypeCorrect == HealthSpec => []HealthTypeOK
<1>1. HealthInv => HealthTypeOK
    BY DEF HealthInv
<1> QED
    BY <1>1, HealthInvHolds, PTL

(* The count of failures of a check is that of its results since the last  *)
(* good one (_monitor_check, _store_result), whatever the tasks of checks  *)
(* that were taken out, replaced or cancelled still store.                 *)
THEOREM FailuresCountedHolds == HealthSpec => []FailuresCounted
<1>1. HealthInv => FailuresCounted
    BY DEF HealthInv, FailuresCounted, Failures, Streak, Fits, Back, Bad
<1> QED
    BY <1>1, HealthInvHolds, PTL

(***************************************************************************)
(* The hub.                                                                *)
(***************************************************************************)

USE HubAssumption DEF HubAssumption

-----------------------------------------------------------------------------
(* The entries of the dictionary.                                          *)

(* The ranks of the positions K, in order, are the numbers from 1 on.      *)
LEMMA Ranks ==
    ASSUME NEW m \in Nat, NEW K \in SUBSET (1 .. m)
    PROVE  /\ IsFiniteSet(K) /\ Cardinality(K) \in Nat
           /\ \A i \in K : Rank(K, i) \in 1 .. Cardinality(K) /\ Rank(K, i) <= i
           /\ \A i, j \in K : Rank(K, i) = Rank(K, j) => i = j
           /\ \A n \in 1 .. Cardinality(K) : \E i \in K : Rank(K, i) = n
<1> DEFINE U(i) == {j \in K : j <= i}
           r == [i \in K |-> Rank(K, i)]
<1>0. \A i \in K : i \in Nat /\ i \in 1 .. m
    OBVIOUS
<1>1. IsFiniteSet(K) /\ Cardinality(K) \in Nat
    <2>1. IsFiniteSet(1 .. m)
        BY FS_Interval
    <2> QED
        BY <2>1, FS_Subset, FS_CardinalityType
<1>2. ASSUME NEW i \in K PROVE Rank(K, i) \in 1 .. Cardinality(K) /\ Rank(K, i) <= i
    <2>1. IsFiniteSet(U(i)) /\ Cardinality(U(i)) <= Cardinality(K) /\ Cardinality(U(i)) \in Nat
        BY <1>1, FS_Subset, FS_CardinalityType
    <2>2. i \in U(i)
        BY <1>0
    <2>3. Cardinality(U(i)) # 0
        BY <2>1, <2>2, FS_EmptySet
    <2>4. IsFiniteSet(1 .. i) /\ Cardinality(1 .. i) = i
        BY FS_Interval
    <2>5. \A k \in U(i) : k \in 1 .. i
        BY <1>0
    <2>6. Cardinality(U(i)) <= i
        BY <2>4, <2>5, FS_Subset
    <2> QED
        BY <1>1, <2>1, <2>3, <2>6 DEF Rank
<1>3. ASSUME NEW i \in K, NEW j \in K, Rank(K, i) = Rank(K, j), i < j PROVE FALSE
    <2>1. IsFiniteSet(U(j)) /\ U(i) \in SUBSET U(j)
        <3>1. \A k \in U(i) : k \in U(j)
            BY <1>0, <1>3
        <3> QED
            BY <1>1, <3>1, FS_Subset
    <2>2. U(i) = U(j)
        BY <1>3, <2>1, FS_Subset DEF Rank
    <2>3. j \in U(j) /\ j \notin U(i)
        BY <1>3
    <2> QED
        BY <2>2, <2>3
<1>4. \A i, j \in K : Rank(K, i) = Rank(K, j) => i = j
    <2> SUFFICES ASSUME NEW i \in K, NEW j \in K, Rank(K, i) = Rank(K, j) PROVE i = j
        OBVIOUS
    <2>1. i < j \/ j < i \/ i = j
        OBVIOUS
    <2> QED
        BY <1>3, <2>1
<1>5. r \in Injection(K, 1 .. Cardinality(K))
    BY <1>2, <1>4 DEF Injection, IsInjective
<1>6. IsFiniteSet(1 .. Cardinality(K)) /\ Cardinality(1 .. Cardinality(K)) = Cardinality(K)
    BY <1>1, FS_Interval
<1>7. r \in Surjection(K, 1 .. Cardinality(K))
    BY <1>5, <1>6, FS_Injection
<1> QED
    BY <1>1, <1>2, <1>4, <1>7 DEF Surjection

(* The ids of a dictionary are different, and finitely many.               *)
InOnce == \A i, j \in DOMAIN entries : entries[i] = entries[j] /\ entries[i] # Hole => i = j

LEMMA MembersFinite ==
    ASSUME entries \in Seq(Clients \cup {Hole})
    PROVE  /\ IsFiniteSet(Members) /\ Cardinality(Members) \in Nat
           /\ Members \subseteq Clients
<1> DEFINE T == {entries[i] : i \in DOMAIN entries}
           f == [i \in 1 .. Len(entries) |-> entries[i]]
<1>1. DOMAIN entries = 1 .. Len(entries) /\ Len(entries) \in Nat
    OBVIOUS
<1>2. f \in Surjection(1 .. Len(entries), T)
    BY <1>1 DEF Surjection
<1>3. IsFiniteSet(T)
    BY <1>1, <1>2, FS_Surjection, FS_Interval
<1>4. IsFiniteSet(Members)
    BY <1>3, FS_Difference DEF Members
<1>5. Members \subseteq Clients
    BY <1>1 DEF Members
<1> QED
    BY <1>4, <1>5, FS_CardinalityType

(* A compaction keeps the order: it moves every entry down, if at all.     *)
LEMMA Compaction ==
    ASSUME entries \in Seq(Clients \cup {Hole}), InOnce, NEW S, NEW e, e = Compact(S)
    PROVE  /\ e \in Seq(Clients)
           /\ \A n \in DOMAIN e : \E i \in DOMAIN entries :
                 n <= i /\ e[n] = entries[i] /\ e[n] \notin S /\ e[n] # Hole
           /\ \A i \in DOMAIN entries :
                 entries[i] \notin S \cup {Hole} => \E n \in DOMAIN e : e[n] = entries[i]
           /\ \A n, k \in DOMAIN e : e[n] = e[k] => n = k
<1> DEFINE K == Kept(S)
           at(n) == CHOOSE i \in K : Rank(K, i) = n
<1>1. K \in SUBSET (1 .. Len(entries)) /\ Len(entries) \in Nat
    BY DEF Kept
<1>2. /\ Cardinality(K) \in Nat
      /\ \A i \in K : Rank(K, i) \in 1 .. Cardinality(K) /\ Rank(K, i) <= i
      /\ \A i, j \in K : Rank(K, i) = Rank(K, j) => i = j
      /\ \A n \in 1 .. Cardinality(K) : \E i \in K : Rank(K, i) = n
    <2> HIDE DEF K
    <2> QED
        BY <1>1, Ranks
<1>3. \A n \in 1 .. Cardinality(K) : at(n) \in K /\ Rank(K, at(n)) = n
    <2> HIDE DEF K
    <2> QED
        BY <1>2
<1>4. e = [n \in 1 .. Cardinality(K) |-> entries[at(n)]]
    BY DEF Compact
<1>5. \A i \in K : i \in DOMAIN entries /\ entries[i] \in Clients \ S /\ entries[i] # Hole
    BY DEF Kept, Hole
<1> HIDE DEF K, at
<1>6. DOMAIN e = 1 .. Cardinality(K) /\ \A n \in DOMAIN e : e[n] = entries[at(n)]
    BY <1>4
<1>7. e \in Seq(Clients)
    <2>1. \A n \in 1 .. Cardinality(K) : e[n] \in Clients
        BY <1>3, <1>5, <1>6
    <2>2. e \in [1 .. Cardinality(K) -> Clients]
        BY <1>4, <1>6, <2>1
    <2> QED
        BY <1>2, <2>2
<1>8. ASSUME NEW n \in DOMAIN e
      PROVE  \E i \in DOMAIN entries : n <= i /\ e[n] = entries[i] /\ e[n] \notin S /\ e[n] # Hole
    <2>1. at(n) \in K /\ Rank(K, at(n)) = n /\ n <= at(n)
        BY <1>2, <1>3, <1>6
    <2> QED
        BY <1>5, <1>6, <2>1
<1>9. ASSUME NEW i \in DOMAIN entries, entries[i] \notin S \cup {Hole}
      PROVE  \E n \in DOMAIN e : e[n] = entries[i]
    <2>1. i \in K
        BY <1>9 DEF K, Kept
    <2>2. Rank(K, i) \in DOMAIN e /\ at(Rank(K, i)) = i
        BY <1>2, <1>3, <1>6, <2>1
    <2> QED
        BY <1>6, <2>2
<1>10. ASSUME NEW n \in DOMAIN e, NEW k \in DOMAIN e, e[n] = e[k] PROVE n = k
    <2>1. at(n) \in K /\ at(k) \in K /\ Rank(K, at(n)) = n /\ Rank(K, at(k)) = k
        BY <1>3, <1>6
    <2>2. at(n) = at(k)
        BY <1>5, <1>6, <1>10, <2>1 DEF InOnce
    <2> QED
        BY <2>1, <2>2
<1> QED
    BY <1>7, <1>8, <1>9, <1>10

(* A client that is inserted is the one more; nobody is moved up.          *)
LEMMA Insertion ==
    ASSUME entries \in Seq(Clients \cup {Hole}), InOnce,
           NEW c \in Clients, c \notin Members, Insert(c)
    PROVE  /\ entries' \in Seq(Clients \cup {Hole}) /\ InOnce'
           /\ Members' = Members \cup {c} /\ Cardinality(Members') = Cardinality(Members) + 1
           /\ \A n \in DOMAIN entries' : entries'[n] # Hole =>
                 entries'[n] = c \/ \E i \in DOMAIN entries : n <= i /\ entries'[n] = entries[i]
<1>1. PICK e \in {entries, Compact({})} : entries' = Append(e, c)
    BY DEF Insert
<1>2. /\ e \in Seq(Clients \cup {Hole})
      /\ \A n \in DOMAIN e : e[n] # Hole => \E i \in DOMAIN entries : n <= i /\ e[n] = entries[i]
      /\ \A i \in DOMAIN entries : entries[i] # Hole => \E n \in DOMAIN e : e[n] = entries[i]
      /\ \A n, k \in DOMAIN e : e[n] = e[k] /\ e[n] # Hole => n = k
    <2>1. CASE e = entries
        <3>1. DOMAIN entries = 1 .. Len(entries) /\ Len(entries) \in Nat
            OBVIOUS
        <3> QED
            BY <2>1, <3>1 DEF InOnce
    <2>2. CASE e = Compact({})
        <3>1. e \in Seq(Clients)
            BY <2>2, Compaction
        <3>2. e \in Seq(Clients \cup {Hole})
            BY <3>1, SeqMonotonic
        <3>3. \A n \in DOMAIN e : \E i \in DOMAIN entries : n <= i /\ e[n] = entries[i]
            BY <2>2, Compaction
        <3>4. \A i \in DOMAIN entries : entries[i] # Hole => \E n \in DOMAIN e : e[n] = entries[i]
            BY <2>2, Compaction
        <3>5. \A n, k \in DOMAIN e : e[n] = e[k] => n = k
            BY <2>2, Compaction
        <3> QED
            BY <3>2, <3>3, <3>4, <3>5
    <2> QED
        BY <1>1, <2>1, <2>2
<1>3. /\ DOMAIN e = 1 .. Len(e) /\ Len(e) \in Nat
      /\ DOMAIN entries' = 1 .. Len(e) + 1
      /\ \A n \in DOMAIN e : entries'[n] = e[n]
      /\ entries'[Len(e) + 1] = c
    BY <1>1, <1>2
<1>4. \A n \in DOMAIN entries' : n \in DOMAIN e \/ n = Len(e) + 1
    BY <1>3
<1>5. entries' \in Seq(Clients \cup {Hole})
    BY <1>1, <1>2
<1>6. \A n \in DOMAIN e : e[n] # c
    BY <1>2 DEF Members, Hole
<1>7. InOnce'
    BY <1>2, <1>3, <1>4, <1>6 DEF InOnce
<1>8. Members' = Members \cup {c}
    <2>1. \A x \in Members' : x \in Members \cup {c}
        BY <1>2, <1>3, <1>4 DEF Members
    <2>2. \A x \in Members : x \in Members'
        BY <1>2, <1>3 DEF Members
    <2>3. c \in Members'
        BY <1>3 DEF Members, Hole
    <2> QED
        BY <2>1, <2>2, <2>3
<1>9. Cardinality(Members') = Cardinality(Members) + 1
    BY <1>8, MembersFinite, FS_AddElement
<1> QED
    BY <1>2, <1>3, <1>4, <1>5, <1>7, <1>8, <1>9

(* The clients that are disconnected are gone from the dictionary; nobody  *)
(* else is, and nobody is moved up, or at all while a loop is under way.   *)
LEMMA Disconnection ==
    ASSUME entries \in Seq(Clients \cup {Hole}), InOnce, NEW S, Disconnect(S)
    PROVE  /\ entries' \in Seq(Clients \cup {Hole}) /\ InOnce'
           /\ Members' = Members \ S
           /\ Cardinality(Members') = Cardinality(Members) - Cardinality(S \cap Members)
           /\ \A n \in DOMAIN entries' : entries'[n] # Hole =>
                 /\ entries'[n] \notin S
                 /\ \E i \in DOMAIN entries : n <= i /\ entries'[n] = entries[i]
           /\ Looping # {} =>
                 \A n \in DOMAIN entries' : n \in DOMAIN entries /\ entries'[n] \in {entries[n], Hole}
<1>1. DOMAIN entries = 1 .. Len(entries) /\ Len(entries) \in Nat
    OBVIOUS
<1>2. /\ entries' \in Seq(Clients \cup {Hole})
      /\ \A n \in DOMAIN entries' : entries'[n] # Hole =>
            /\ entries'[n] \notin S
            /\ \E i \in DOMAIN entries : n <= i /\ entries'[n] = entries[i]
      /\ \A i \in DOMAIN entries :
            entries[i] \notin S \cup {Hole} => \E n \in DOMAIN entries' : entries'[n] = entries[i]
      /\ InOnce'
      /\ Looping # {} =>
            \A n \in DOMAIN entries' : n \in DOMAIN entries /\ entries'[n] \in {entries[n], Hole}
    <2>1. CASE Looping = {}
        <3>1. entries' = Compact(S)
            BY <2>1 DEF Disconnect
        <3>2. entries' \in Seq(Clients)
            BY <3>1, Compaction
        <3>3. \A n \in DOMAIN entries' : \E i \in DOMAIN entries :
                n <= i /\ entries'[n] = entries[i] /\ entries'[n] \notin S /\ entries'[n] # Hole
            BY <3>1, Compaction
        <3>4. \A i \in DOMAIN entries : entries[i] \notin S \cup {Hole} =>
                \E n \in DOMAIN entries' : entries'[n] = entries[i]
            BY <3>1, Compaction
        <3>5. \A n, k \in DOMAIN entries' : entries'[n] = entries'[k] => n = k
            BY <3>1, Compaction
        <3>6. entries' \in Seq(Clients \cup {Hole})
            BY <3>2, SeqMonotonic
        <3> QED
            BY <2>1, <3>3, <3>4, <3>5, <3>6 DEF InOnce
    <2>2. CASE Looping # {}
        <3>1. entries' = [i \in DOMAIN entries |-> IF entries[i] \in S THEN Hole ELSE entries[i]]
            BY <2>2 DEF Disconnect
        <3>2. DOMAIN entries' = DOMAIN entries
              /\ \A n \in DOMAIN entries : entries'[n] = IF entries[n] \in S THEN Hole ELSE entries[n]
            BY <3>1
        <3>3. entries' \in Seq(Clients \cup {Hole})
            <4>1. \A n \in 1 .. Len(entries) : entries'[n] \in Clients \cup {Hole}
                BY <1>1, <3>2
            <4>2. entries' \in [1 .. Len(entries) -> Clients \cup {Hole}]
                BY <1>1, <3>1, <4>1
            <4> QED
                BY <1>1, <4>2
        <3>4. \A n \in DOMAIN entries' : entries'[n] # Hole =>
                /\ entries'[n] \notin S
                /\ \E i \in DOMAIN entries : n <= i /\ entries'[n] = entries[i]
            BY <1>1, <3>2
        <3>5. InOnce'
            BY <3>2 DEF InOnce
        <3> QED
            BY <3>2, <3>3, <3>4, <3>5
    <2> QED
        BY <2>1, <2>2
<1>3. Members' = Members \ S
    <2>1. \A x \in Members' : x \in Members /\ x \notin S
        BY <1>2 DEF Members
    <2>2. \A x \in Members \ S : x \in Members'
        BY <1>2 DEF Members
    <2> QED
        BY <2>1, <2>2
<1>4. Cardinality(Members') = Cardinality(Members) - Cardinality(S \cap Members)
    <2>1. Cardinality(Members \ S) = Cardinality(Members) - Cardinality(Members \cap S)
        BY MembersFinite, FS_Difference
    <2>2. Members \cap S = S \cap Members
        OBVIOUS
    <2> QED
        BY <1>3, <2>1, <2>2
<1> QED
    BY <1>2, <1>3, <1>4

-----------------------------------------------------------------------------
(* Types.                                                                  *)

(* Some action of HubStep is taken, whether it is urgent or not.           *)
LEMMA NextIsStep == HubNext => HubStep
    BY DEF HubNext, HubStep, Urgent, Iterate, Loops

(* There is a next entry to send to, when there is any.                    *)
LEMMA NextIsLeast ==
    ASSUME NEW E \in SUBSET Nat, E # {}
    PROVE  \E i \in E : \A k \in E : i <= k
<1> DEFINE Before == OpToRel(<, Nat)
<1>1. IsWellFoundedOn(Before, Nat)
    BY NatLessThanWellFounded
<1>2. Before = {ss \in Nat \X Nat : ss[1] < ss[2]}
    BY DEF OpToRel
<1> HIDE DEF Before
<1>3. PICK i \in E : \A k \in E : ~(<<k, i>> \in Before)
    BY <1>1, WFMin
<1>4. \A k \in E : k \in Nat /\ i \in Nat /\ ~(k < i)
    BY <1>2, <1>3
<1> QED
    BY <1>3, <1>4

LEMMA Sending ==
    ASSUME HubTypeOK, NEW l \in Loops, Turn(l)
    PROVE  \E i \in Ahead(l) :
             /\ \A k \in Ahead(l) : i <= k
             /\ loops' = [loops EXCEPT ![l].pos = i,
                                       ![l].late = IF l = "ping" /\ peer[entries[i]] = "mute"
                                                   THEN @ \cup {entries[i]} ELSE @]
             /\ inactive' = IF peer[entries[i]] = "gone" THEN inactive \cup {entries[i]} ELSE inactive
             /\ received' = IF l # "ping" /\ peer[entries[i]] # "gone"
                            THEN [received EXCEPT ![entries[i]][l] = @ + 1] ELSE received
<1> DEFINE i == CHOOSE j \in Ahead(l) : \A k \in Ahead(l) : j <= k
<1>1. Ahead(l) \in SUBSET Nat
    BY DEF Ahead, HubTypeOK
<1>2. i \in Ahead(l) /\ \A k \in Ahead(l) : i <= k
    <2>1. Ahead(l) # {}
        BY DEF Turn
    <2>2. \E j \in Ahead(l) : \A k \in Ahead(l) : j <= k
        BY <1>1, <2>1, NextIsLeast
    <2> QED
        BY <2>2
<1> QED
    BY <1>2 DEF Turn

LEMMA Updates ==
    ASSUME NEW loop \in LoopType
    PROVE  /\ \A pc \in {"storing", "loop"} : [loop EXCEPT !.pc = pc] \in LoopType
           /\ \A who \in {"collector", "route", "hub"} : [loop EXCEPT !.by = who] \in LoopType
           /\ \A n \in Nat : [loop EXCEPT !.called = n] \in LoopType
           /\ \A n \in Nat : [loop EXCEPT !.pos = n] \in LoopType
           /\ \A S \in SUBSET Clients : [loop EXCEPT !.late = S] \in LoopType
           /\ \A S \in SUBSET Clients : [loop EXCEPT !.owed = S] \in LoopType
           /\ \A t \in BOOLEAN : [loop EXCEPT !.joined = t] \in LoopType
<1>1. /\ loop.pc \in {"idle", "storing", "loop", "ended", "aborted"}
      /\ loop.pos \in Nat /\ loop.size \in Nat /\ loop.late \subseteq Clients /\ loop.called \in Nat
      /\ loop.by \in {"collector", "route", "hub"} /\ loop.owed \subseteq Clients
      /\ loop.joined \in BOOLEAN
    BY DEF LoopType
<1> QED
    BY <1>1 DEF LoopType

LEMMA LoopTypes ==
    ASSUME HubTypeOK
    PROVE  /\ NoLoop \in LoopType
           /\ \A pc \in {"ended", "aborted"} : Over(pc) \in LoopType
           /\ \A loop \in LoopType : Started(loop) \in LoopType
           /\ \A l \in Loops, pc \in {"ended", "aborted"} : After(l, pc) \in LoopType
<1>1. NoLoop \in LoopType
    BY DEF NoLoop, LoopType
<1>2. \A pc \in {"ended", "aborted"} : Over(pc) \in LoopType
    BY DEF NoLoop, Over, LoopType
<1>3. \A loop \in LoopType : Started(loop) \in LoopType
    <2>1. Cardinality(Members) \in Nat
        BY MembersFinite DEF HubTypeOK
    <2> QED
        BY <2>1 DEF Started, LoopType, HubTypeOK
<1>4. \A l \in Loops : [loops[l] EXCEPT !.pc = "storing"] \in LoopType
    BY Updates DEF HubTypeOK
<1> QED
    BY <1>1, <1>2, <1>3, <1>4 DEF After

LEMMA HubTypeStep == HubTypeOK /\ InOnce /\ [HubNext]_hubVars => HubTypeOK'
<1> SUFFICES ASSUME HubTypeOK, InOnce, HubStep \/ UNCHANGED hubVars PROVE HubTypeOK'
    BY NextIsStep
<1> USE DEF hubServices, dict, conns
<1>0. Cardinality(Members) \in Nat /\ Members \subseteq Clients
    BY MembersFinite DEF HubTypeOK
<1>1. ASSUME NEW S \in SUBSET Clients, Disconnect(S)
      PROVE  /\ entries' \in Seq(Clients \cup {Hole}) /\ active' \in Int
             /\ inactive' \subseteq Clients /\ subscribed' \subseteq Clients
             /\ peer' \in [Clients -> {"pings", "mute", "gone"}]
    <2>1. entries' \in Seq(Clients \cup {Hole})
        BY <1>1, Disconnection DEF HubTypeOK
    <2>2. Cardinality(S \cap Members) \in Nat
        <3>1. IsFiniteSet(Members)
            BY MembersFinite DEF HubTypeOK
        <3>2. IsFiniteSet(S \cap Members)
            BY <3>1, FS_Intersection
        <3> QED
            BY <3>2, FS_CardinalityType
    <2> QED
        BY <1>1, <2>1, <2>2 DEF Disconnect, HubTypeOK
<1>2. CASE StartMonitoring
    BY <1>2 DEF StartMonitoring, HubTypeOK
<1>3. CASE StopMonitoring
    <2>1. loops' \in [Loops -> LoopType]
        BY <1>3, LoopTypes DEF StopMonitoring, HubTypeOK
    <2>2. Members \in SUBSET Clients /\ Disconnect(Members)
        BY <1>0, <1>3 DEF StopMonitoring
    <2>3. callbacks' \in Nat /\ hubStops' \in 0 .. HubStops
        BY <1>3 DEF StopMonitoring, HubTypeOK
    <2> QED
        BY <1>1, <1>3, <2>1, <2>2, <2>3 DEF StopMonitoring, HubTypeOK
<1>4. ASSUME NEW c \in Clients, Connect(c) \/ Refused(c) PROVE HubTypeOK'
    BY <1>4 DEF Connect, Refused, HubTypeOK
<1>5. ASSUME NEW c \in Clients, Accepted(c) PROVE HubTypeOK'
    <2>1. entries' \in Seq(Clients \cup {Hole})
        <3>1. PICK e \in {entries, Compact({})} : entries' = Append(e, c)
            BY <1>5 DEF Accepted, Insert
        <3>2. e \in Seq(Clients) \/ e \in Seq(Clients \cup {Hole})
            BY Compaction DEF HubTypeOK
        <3>3. e \in Seq(Clients \cup {Hole})
            BY <3>2, SeqMonotonic
        <3> QED
            BY <3>1, <3>3
    <2>2. loops' \in [Loops -> LoopType]
        <3>1. \A k \in Loops : [loops[k] EXCEPT !.joined = @ \/ k \in Looping \ {"ping"}] \in LoopType
            BY Updates DEF HubTypeOK
        <3> QED
            BY <1>5, <3>1 DEF Accepted, Insert
    <2> QED
        BY <1>5, <2>1, <2>2 DEF Accepted, HubTypeOK
<1>6. ASSUME NEW c \in Clients, Message(c) PROVE HubTypeOK'
    <2>1. loops' \in [Loops -> LoopType]
        <3>1. \A k \in Loops : loops[k].owed \in SUBSET Clients
            BY DEF HubTypeOK, LoopType
        <3>2. \A k \in Loops : [loops[k] EXCEPT !.owed = @ \ {c}] \in LoopType
            BY <3>1, Updates DEF HubTypeOK
        <3> QED
            <4>1. CASE UNCHANGED loops
                BY <4>1 DEF HubTypeOK
            <4>2. CASE loops' = [k \in Loops |-> [loops[k] EXCEPT !.owed = @ \ {c}]]
                BY <3>2, <4>2
            <4> QED
                BY <1>6, <4>1, <4>2 DEF Message
    <2> QED
        BY <1>6, <2>1 DEF Message, HubTypeOK
<1>7. ASSUME NEW c \in Clients, Leave(c) PROVE HubTypeOK'
    BY <1>1, <1>7 DEF Leave, HubTypeOK
<1>8. ASSUME NEW c \in Clients, Fade(c) PROVE HubTypeOK'
    BY <1>8 DEF Fade, HubTypeOK
<1>9. ASSUME NEW b \in Broadcasts, Raise(b) \/ SendStatus(b) \/ Notify(b) PROVE HubTypeOK'
    <2>1. loops' \in [Loops -> LoopType]
        <3>1. loops[b] \in LoopType /\ Started(loops[b]) \in LoopType
            BY LoopTypes DEF HubTypeOK, Loops
        <3>2. CASE Raise(b)
            <4>1. \A who \in {"collector", "route"} :
                    [loops[b] EXCEPT !.pc = "storing", !.by = who] \in LoopType
                BY <3>1 DEF LoopType
            <4> QED
                BY <3>2, <4>1 DEF Raise, HubTypeOK
        <3>3. CASE SendStatus(b)
            BY <3>1, <3>3 DEF SendStatus, HubTypeOK, LoopType
        <3>4. CASE Notify(b)
            <4>1. [Started(loops[b]) EXCEPT !.called = loops[b].called + 1] \in LoopType
                <5>1. loops[b].called + 1 \in Nat
                    BY <3>1 DEF LoopType
                <5> QED
                    BY <3>1, <5>1, Updates
            <4>2. "ended" \in {"ended", "aborted"} /\ Over("ended") \in LoopType
                BY LoopTypes
            <4> QED
                BY <3>4, <4>1, <4>2 DEF Notify, HubTypeOK
        <3> QED
            BY <1>9, <3>2, <3>3, <3>4
    <2> QED
        BY <1>9, <2>1 DEF Raise, SendStatus, Notify, HubTypeOK
<1>10. ASSUME NEW l \in Loops, Turn(l) PROVE HubTypeOK'
    <2>1. PICK i \in Ahead(l) :
             /\ loops' = [loops EXCEPT ![l].pos = i,
                                       ![l].late = IF l = "ping" /\ peer[entries[i]] = "mute"
                                                   THEN @ \cup {entries[i]} ELSE @]
             /\ inactive' = IF peer[entries[i]] = "gone" THEN inactive \cup {entries[i]} ELSE inactive
             /\ received' = IF l # "ping" /\ peer[entries[i]] # "gone"
                            THEN [received EXCEPT ![entries[i]][l] = @ + 1] ELSE received
        BY <1>10, Sending
    <2>2. i \in Nat /\ entries[i] \in Clients
        BY DEF Ahead, HubTypeOK
    <2>3. loops' \in [Loops -> LoopType]
        <3>1. loops[l] \in LoopType /\ loops[l].late \in SUBSET Clients
            BY DEF HubTypeOK, LoopType
        <3>2. \A S \in SUBSET Clients : [loops[l] EXCEPT !.pos = i, !.late = S] \in LoopType
            BY <2>2, <3>1 DEF LoopType
        <3>3. loops' = [loops EXCEPT ![l] = [loops[l] EXCEPT !.pos = i,
                !.late = IF l = "ping" /\ peer[entries[i]] = "mute"
                         THEN loops[l].late \cup {entries[i]} ELSE loops[l].late]]
            BY <2>1 DEF HubTypeOK
        <3> QED
            BY <2>2, <3>1, <3>2, <3>3 DEF HubTypeOK
    <2>4. received' \in [Clients -> [Broadcasts -> Nat]]
        BY <2>1, <2>2 DEF HubTypeOK, Loops
    <2> QED
        BY <1>10, <2>1, <2>2, <2>3, <2>4 DEF Turn, HubTypeOK
<1>11. ASSUME NEW l \in Loops, Finish(l) PROVE HubTypeOK'
    <2>1. loops' \in [Loops -> LoopType] /\ loops[l].late \in SUBSET Clients
        BY <1>11, LoopTypes DEF Finish, HubTypeOK, LoopType
    <2> QED
        BY <1>1, <1>11, <2>1 DEF Finish, HubTypeOK
<1>12. ASSUME NEW l \in Loops, AbortLoop(l) PROVE HubTypeOK'
    <2>1. loops' \in [Loops -> LoopType]
        BY <1>12, LoopTypes DEF AbortLoop, HubTypeOK
    <2> QED
        BY <1>12, <2>1 DEF AbortLoop, HubTypeOK
<1>13. CASE WakePing
    <2>1. "ping" \in Loops /\ Started(loops["ping"]) \in LoopType
        BY LoopTypes DEF HubTypeOK, Loops
    <2>2. loops' \in [Loops -> LoopType]
        BY <1>13, <2>1 DEF WakePing, HubTypeOK, LoopType
    <2> QED
        BY <1>13, <2>2 DEF WakePing, HubTypeOK
<1>14. CASE Cleanup
    BY <1>1, <1>14 DEF Cleanup, HubTypeOK
<1>15. CASE UNCHANGED hubVars
    BY <1>15 DEF hubVars, HubTypeOK
<1> QED
    BY <1>2, <1>3, <1>4, <1>5, <1>6, <1>7, <1>8, <1>9, <1>10, <1>11, <1>12, <1>13, <1>14, <1>15
       DEF HubStep, Iterate

-----------------------------------------------------------------------------
(* The clients are counted.                                                *)

(* A client in the dictionary has a handler that serves it; those that are *)
(* in and those on their way in keep the limit together; and the hub is    *)
(* among the callbacks of the collector once, while it runs.               *)
Served == \A c \in Members : handler[c] = "serving"

Limits == /\ IsFiniteSet(Accepting)
          /\ Cardinality(Members) + Cardinality(Accepting) <= MaxClients + Handshakes - 1

CallbackOnce == callbacks = IF hub THEN 1 ELSE 0

CountInv == HubTypeOK /\ InOnce /\ ActiveIsConnected /\ Served /\ Limits /\ CallbackOnce

LEMMA CountInit == HubInit => CountInv
<1> SUFFICES ASSUME HubInit PROVE CountInv
    OBVIOUS
<1>1. HubTypeOK
    BY DEF HubInit, HubTypeOK, NoLoop, LoopType, Hole
<1>2. Members = {} /\ Accepting = {} /\ InOnce
    BY DEF HubInit, Members, Accepting, InOnce
<1> QED
    BY <1>1, <1>2, FS_EmptySet
       DEF HubInit, CountInv, ActiveIsConnected, Served, Limits, CallbackOnce

(* Nobody can be disconnected but those who are in.                        *)
LEMMA DisconnectCounts ==
    ASSUME CountInv, NEW S, Disconnect(S)
    PROVE  /\ InOnce' /\ ActiveIsConnected'
           /\ Members' = Members \ S /\ Cardinality(Members') <= Cardinality(Members)
           /\ Cardinality(Members') \in Nat
<1>1. /\ InOnce' /\ Members' = Members \ S
      /\ Cardinality(Members') = Cardinality(Members) - Cardinality(S \cap Members)
    BY Disconnection DEF CountInv, HubTypeOK
<1>2. IsFiniteSet(Members) /\ Cardinality(Members) \in Nat
    BY MembersFinite DEF CountInv, HubTypeOK
<1>3. IsFiniteSet(Members') /\ Cardinality(Members') \in Nat /\ Cardinality(S \cap Members) \in Nat
    BY <1>1, <1>2, FS_Difference, FS_Intersection, FS_CardinalityType
<1>4. active' = active - Cardinality(S \cap Members)
    BY DEF Disconnect
<1> QED
    BY <1>1, <1>2, <1>3, <1>4 DEF CountInv, ActiveIsConnected

LEMMA CountStep == CountInv /\ [HubNext]_hubVars => CountInv'
<1> SUFFICES ASSUME CountInv, HubStep \/ UNCHANGED hubVars, HubTypeOK' PROVE CountInv'
    BY NextIsStep, HubTypeStep DEF CountInv
<1> USE DEF hubServices, dict, conns
<1>0. /\ IsFiniteSet(Members) /\ Cardinality(Members) \in Nat /\ Members \subseteq Clients
      /\ IsFiniteSet(Accepting) /\ Cardinality(Accepting) \in Nat
    BY MembersFinite, FS_CardinalityType DEF CountInv, HubTypeOK, Limits
<1>1. ASSUME UNCHANGED entries PROVE InOnce' /\ Members' = Members
    BY <1>1 DEF CountInv, InOnce, Members
<1>2. ASSUME UNCHANGED <<entries, active, handler, hub, callbacks>> PROVE CountInv'
    BY <1>1, <1>2 DEF CountInv, ActiveIsConnected, Served, Limits, Accepting, CallbackOnce
<1>3. ASSUME NEW S, Disconnect(S), UNCHANGED <<handler, hub, callbacks>> PROVE CountInv'
    <2>1. Served' /\ Limits' /\ CallbackOnce'
        BY <1>0, <1>3, DisconnectCounts DEF CountInv, Served, Limits, Accepting, CallbackOnce
    <2> QED
        BY <1>3, <2>1, DisconnectCounts DEF CountInv
<1>4. CASE StartMonitoring
    BY <1>1, <1>4 DEF StartMonitoring, CountInv, ActiveIsConnected, Served, Limits, Accepting, CallbackOnce
<1>5. CASE StopMonitoring
    <2>1. CallbackOnce'
        BY <1>5 DEF StopMonitoring, CountInv, CallbackOnce
    <2>2. Disconnect(Members) /\ UNCHANGED handler
        BY <1>5 DEF StopMonitoring
    <2>3. Served' /\ Limits'
        BY <1>0, <2>2, DisconnectCounts DEF CountInv, Served, Limits, Accepting
    <2> QED
        BY <2>1, <2>2, <2>3, DisconnectCounts DEF CountInv
<1>6. ASSUME NEW c \in Clients, Connect(c) PROVE CountInv'
    <2>1. InOnce' /\ Members' = Members
        BY <1>1, <1>6 DEF Connect
    <2>2. c \notin Members /\ c \notin Accepting
        BY <1>6 DEF Connect, CountInv, Served, Accepting
    <2>3. Served'
        BY <1>6, <2>1, <2>2 DEF Connect, CountInv, Served, HubTypeOK
    <2>4. Limits'
        <3>1. CASE Cardinality(Members) >= MaxClients
            <4>1. Accepting' = Accepting
                BY <1>6, <2>2, <3>1 DEF Connect, Accepting, CountInv, HubTypeOK
            <4> QED
                BY <2>1, <4>1 DEF Limits, CountInv
        <3>2. CASE ~(Cardinality(Members) >= MaxClients)
            <4>1. handler' = [handler EXCEPT ![c] = "accepting"]
                BY <1>6, <3>2 DEF Connect
            <4>2. Accepting' = Accepting \cup {c}
                BY <4>1 DEF Accepting, CountInv, HubTypeOK
            <4>3. IsFiniteSet(Accepting') /\ Cardinality(Accepting') = Cardinality(Accepting) + 1
                BY <1>0, <2>2, <4>2, FS_AddElement
            <4>4. Cardinality(Accepting) < Handshakes
                BY <1>6 DEF Connect
            <4> QED
                BY <1>0, <2>1, <3>2, <4>3, <4>4 DEF Limits
        <3> QED
            BY <3>1, <3>2
    <2> QED
        BY <1>6, <2>1, <2>3, <2>4 DEF Connect, CountInv, ActiveIsConnected, CallbackOnce
<1>7. ASSUME NEW c \in Clients, Accepted(c) PROVE CountInv'
    <2>1. c \in Accepting /\ c \notin Members
        BY <1>7 DEF Accepted, Accepting, CountInv, Served
    <2>2. InOnce' /\ Members' = Members \cup {c} /\ Cardinality(Members') = Cardinality(Members) + 1
        BY <1>7, <2>1, Insertion DEF Accepted, CountInv, HubTypeOK
    <2>3. Accepting' = Accepting \ {c}
        BY <1>7 DEF Accepted, Accepting, CountInv, HubTypeOK
    <2>4. IsFiniteSet(Accepting') /\ Cardinality(Accepting') = Cardinality(Accepting) - 1
        BY <1>0, <2>1, <2>3, FS_RemoveElement
    <2>5. Served'
        BY <1>0, <1>7, <2>2 DEF Accepted, CountInv, Served, HubTypeOK
    <2>6. Limits'
        BY <1>0, <2>2, <2>4 DEF CountInv, Limits
    <2>7. ActiveIsConnected'
        BY <1>7, <2>2 DEF Accepted, CountInv, ActiveIsConnected
    <2> QED
        BY <1>7, <2>2, <2>5, <2>6, <2>7 DEF Accepted, CountInv, CallbackOnce
<1>8. ASSUME NEW c \in Clients, Refused(c) PROVE CountInv'
    <2>1. InOnce' /\ Members' = Members
        BY <1>1, <1>8 DEF Refused
    <2>2. c \in Accepting /\ c \notin Members
        BY <1>8 DEF Refused, Accepting, CountInv, Served
    <2>3. Accepting' = Accepting \ {c}
        BY <1>8 DEF Refused, Accepting, CountInv, HubTypeOK
    <2>4. IsFiniteSet(Accepting') /\ Cardinality(Accepting') = Cardinality(Accepting) - 1
        BY <1>0, <2>2, <2>3, FS_RemoveElement
    <2>5. Served'
        BY <1>8, <2>1, <2>2 DEF Refused, CountInv, Served, HubTypeOK
    <2>6. Limits'
        BY <1>0, <2>1, <2>4 DEF CountInv, Limits
    <2> QED
        BY <1>8, <2>1, <2>5, <2>6 DEF Refused, CountInv, ActiveIsConnected, CallbackOnce
<1>9. ASSUME NEW c \in Clients, Leave(c) PROVE CountInv'
    <2>1. Disconnect({c})
        BY <1>9 DEF Leave
    <2>2. Members' = Members \ {c} /\ Cardinality(Members') <= Cardinality(Members)
          /\ Cardinality(Members') \in Nat
        BY <2>1, DisconnectCounts
    <2>3. Accepting' = Accepting
        BY <1>9 DEF Leave, Accepting, CountInv, HubTypeOK
    <2>4. Served'
        BY <1>0, <1>9, <2>2 DEF Leave, CountInv, Served, HubTypeOK
    <2>5. Limits'
        BY <1>0, <2>2, <2>3 DEF CountInv, Limits
    <2> QED
        BY <1>9, <2>1, <2>4, <2>5, DisconnectCounts DEF Leave, CountInv, CallbackOnce
<1>10. ASSUME NEW c \in Clients, Message(c) \/ Fade(c) PROVE CountInv'
    BY <1>2, <1>10 DEF Message, Fade
<1>11. ASSUME NEW b \in Broadcasts, Raise(b) \/ SendStatus(b) \/ Notify(b) PROVE CountInv'
    BY <1>2, <1>11 DEF Raise, SendStatus, Notify
<1>12. ASSUME NEW l \in Loops, Turn(l) \/ AbortLoop(l) PROVE CountInv'
    BY <1>2, <1>12 DEF Turn, AbortLoop
<1>13. ASSUME NEW l \in Loops, Finish(l) PROVE CountInv'
    BY <1>3, <1>13 DEF Finish
<1>14. CASE WakePing \/ UNCHANGED hubVars
    BY <1>2, <1>14 DEF WakePing, hubVars
<1>15. CASE Cleanup
    BY <1>3, <1>15 DEF Cleanup
<1> QED
    BY <1>4, <1>5, <1>6, <1>7, <1>8, <1>9, <1>10, <1>11, <1>12, <1>13, <1>14, <1>15
       DEF HubStep, Iterate

LEMMA CountInvHolds == HubSpec => []CountInv
    BY CountInit, CountStep, PTL DEF HubSpec

(* For any clients and any number of broadcasts: the hub only ever is in   *)
(* states of its type.                                                     *)
THEOREM HubTypeCorrect == HubSpec => []HubTypeOK
<1>1. CountInv => HubTypeOK
    BY DEF CountInv
<1> QED
    BY <1>1, CountInvHolds, PTL

(* For any limit and any clients that come and go: the statistics of the   *)
(* hub say how many clients there are, and the limit is overshot by no     *)
(* more than the handshakes that were in flight together, less one.        *)
THEOREM ClientsCountedHolds == HubSpec => []ClientsCounted
<1>1. CountInv => ClientsCounted
    <2> SUFFICES ASSUME CountInv PROVE ClientsCounted
        OBVIOUS
    <2>1. Cardinality(Members) \in Nat /\ Cardinality(Accepting) \in Nat
        BY MembersFinite, FS_CardinalityType DEF CountInv, HubTypeOK, Limits
    <2> QED
        BY <2>1 DEF CountInv, Limits, ClientsCounted, Overshoot
<1> QED
    BY <1>1, CountInvHolds, PTL

-----------------------------------------------------------------------------
(* The broadcasts.                                                         *)

(* A broadcast that is about to call the hub has called nobody, one under  *)
(* way has called it, and there is nobody else to call.                    *)
Rounds == \A b \in Broadcasts : /\ loops[b].pc \in {"idle", "storing"} => loops[b].called = 0
                                /\ loops[b].pc = "loop" => loops[b].called = 1

(* Only a client that was let in has received anything, and no broadcast   *)
(* before it goes out, nor one the loop has not come to its entry yet.     *)
Unsent ==
    \A b \in Broadcasts, c \in Clients :
        /\ received[c][b] # 0 => handler[c] \in {"serving", "done"}
        /\ loops[b].pc \in {"idle", "storing"} => received[c][b] = 0
        /\ received[c][b] <= 1

NotYet ==
    \A b \in Broadcasts, i \in DOMAIN entries :
        loops[b].pc = "loop" /\ i > loops[b].pos /\ entries[i] # Hole => received[entries[i]][b] = 0

(* While nobody joins, the clients a broadcast owes its message are still  *)
(* subscribed, and those it has come past were sent it.                    *)
OwedReached ==
    \A b \in Broadcasts, i \in DOMAIN entries :
        (loops[b].pc = "loop" /\ ~loops[b].joined /\ entries[i] \in loops[b].owed) =>
            /\ entries[i] \in subscribed
            /\ i <= loops[b].pos => received[entries[i]][b] = 1 \/ peer[entries[i]] = "gone"

HubInv == CountInv /\ Rounds /\ Unsent /\ NotYet /\ OwedReached

LEMMA HubInitInv == HubInit => HubInv
<1> SUFFICES ASSUME HubInit PROVE HubInv
    OBVIOUS
<1>1. \A b \in Broadcasts : b \in Loops /\ loops[b].pc = "idle" /\ loops[b].called = 0
    BY DEF HubInit, NoLoop, Loops
<1>2. Unsent
    BY <1>1 DEF HubInit, Unsent
<1> QED
    BY <1>1, <1>2, CountInit DEF HubInv, Rounds, NotYet, OwedReached

(* The steps that leave the loops and what was received alone: it is       *)
(* enough that entries only move down, or away, and those who stay stay    *)
(* subscribed.                                                             *)
LEMMA OthersKeepInv ==
    ASSUME HubInv, CountInv', NEW S, Disconnect(S), UNCHANGED received,
           \A c \in Clients : handler'[c] = handler[c] \/ handler'[c] = "done",
           \A b \in Broadcasts : loops'[b] = loops[b] \/ loops'[b].pc \in {"ended", "aborted"}
    PROVE  HubInv'
<1>1. \A b \in Broadcasts : loops'[b].pc \in {"idle", "storing", "loop"} => loops'[b] = loops[b]
    OBVIOUS
<1>2. Rounds' /\ Unsent'
    BY <1>1 DEF HubInv, Rounds, Unsent
<1>3. /\ \A n \in DOMAIN entries' : entries'[n] # Hole =>
            /\ entries'[n] \notin S
            /\ \E i \in DOMAIN entries : n <= i /\ entries'[n] = entries[i]
      /\ Looping # {} =>
            \A n \in DOMAIN entries' : n \in DOMAIN entries /\ entries'[n] \in {entries[n], Hole}
    BY Disconnection DEF HubInv, CountInv, HubTypeOK
<1>4. \A b \in Broadcasts : b \in Loops /\ loops[b].pos \in Nat /\ Hole \notin loops[b].owed
    BY DEF HubInv, CountInv, HubTypeOK, LoopType, Loops, Hole
<1>5. DOMAIN entries \subseteq Nat /\ DOMAIN entries' \subseteq Nat
    BY DEF HubInv, CountInv, HubTypeOK
<1>6. NotYet'
    <2> SUFFICES ASSUME NEW b \in Broadcasts, NEW n \in DOMAIN entries',
                        loops'[b].pc = "loop", n > loops'[b].pos, entries'[n] # Hole
                 PROVE  received'[entries'[n]][b] = 0
        BY DEF NotYet
    <2>1. PICK i \in DOMAIN entries : n <= i /\ entries'[n] = entries[i]
        BY <1>3
    <2> QED
        BY <1>1, <1>4, <1>5, <2>1 DEF HubInv, NotYet
<1>7. OwedReached'
    <2> SUFFICES ASSUME NEW b \in Broadcasts, NEW n \in DOMAIN entries',
                        loops'[b].pc = "loop", ~loops'[b].joined, entries'[n] \in loops'[b].owed
                 PROVE  /\ entries'[n] \in subscribed'
                        /\ n <= loops'[b].pos =>
                             received'[entries'[n]][b] = 1 \/ peer'[entries'[n]] = "gone"
        BY DEF OwedReached
    <2>1. loops'[b] = loops[b] /\ b \in Looping
        BY <1>1, <1>4 DEF Looping
    <2>2. n \in DOMAIN entries /\ entries'[n] = entries[n] /\ entries'[n] \notin S
        BY <1>3, <1>4, <2>1
    <2>3. entries[n] \in Clients
        BY <2>1, <2>2, <1>4 DEF HubInv, CountInv, HubTypeOK, LoopType
    <2> QED
        BY <2>1, <2>2, <2>3 DEF HubInv, OwedReached, Disconnect
<1> QED
    BY <1>2, <1>6, <1>7 DEF HubInv

(* What a loop leaves behind when it ends is over.                         *)
LEMMA LoopIsOver ==
    ASSUME HubInv, NEW l \in Loops, loops[l].pc = "loop", NEW pc \in {"ended", "aborted"}
    PROVE  /\ l # "ping" => After(l, pc) = Over(pc)
           /\ Over(pc).pc = pc /\ NoLoop.pc = "idle"
<1>1. l # "ping" => loops[l].called = 1
    BY DEF HubInv, Rounds, Loops
<1>2. callbacks <= 1 /\ callbacks \in Nat
    BY DEF HubInv, CountInv, CallbackOnce
<1> QED
    BY <1>1, <1>2 DEF After, Over, NoLoop

(* Nor does it matter who is let in or refused, or goes mute or away.      *)
LEMMA BystandersKeepInv ==
    ASSUME HubInv, CountInv', UNCHANGED <<entries, subscribed, received>>,
           \A c \in Clients : handler[c] \in {"serving", "done"} => handler'[c] = handler[c],
           \A c \in Clients : peer[c] = "gone" => peer'[c] = "gone",
           \A b \in Broadcasts : loops'[b] = loops[b] \/ loops'[b].pc \in {"ended", "aborted"}
    PROVE  HubInv'
<1>1. \A b \in Broadcasts : loops'[b].pc \in {"idle", "storing", "loop"} => loops'[b] = loops[b]
    OBVIOUS
<1>2. Rounds' /\ Unsent' /\ NotYet'
    BY <1>1 DEF HubInv, Rounds, Unsent, NotYet
<1>3. \A b \in Broadcasts : loops[b].owed \subseteq Clients
    BY DEF HubInv, CountInv, HubTypeOK, LoopType, Loops
<1>4. OwedReached'
    BY <1>1, <1>3 DEF HubInv, OwedReached
<1> QED
    BY <1>2, <1>4 DEF HubInv

LEMMA HubInvStep == HubInv /\ [HubNext]_hubVars => HubInv'
<1> SUFFICES ASSUME HubInv, HubStep \/ UNCHANGED hubVars, CountInv' PROVE HubInv'
    BY NextIsStep, CountStep DEF HubInv
<1> USE DEF hubServices, dict, conns
<1>0. /\ \A b \in Broadcasts : b \in Loops /\ b # "ping" /\ loops[b] \in LoopType
      /\ loops \in [Loops -> LoopType] /\ handler \in [Clients -> {"new", "accepting", "serving", "done"}]
      /\ peer \in [Clients -> {"pings", "mute", "gone"}] /\ subscribed \subseteq Clients
      /\ entries \in Seq(Clients \cup {Hole}) /\ DOMAIN entries \subseteq Nat
      /\ received \in [Clients -> [Broadcasts -> Nat]]
    BY DEF HubInv, CountInv, HubTypeOK, Loops
<1>1. CASE StartMonitoring \/ UNCHANGED hubVars
    BY <1>1, BystandersKeepInv DEF StartMonitoring, hubVars
<1>2. CASE StopMonitoring
    <2>1. \A b \in Broadcasts : loops'[b] = loops[b] \/ loops'[b].pc \in {"ended", "aborted"}
        BY <1>0, <1>2 DEF StopMonitoring, Over, NoLoop
    <2> QED
        BY <1>2, <2>1, OthersKeepInv DEF StopMonitoring
<1>3. ASSUME NEW c \in Clients, Connect(c) \/ Refused(c) PROVE HubInv'
    <2>1. \A d \in Clients : handler[d] \in {"serving", "done"} => handler'[d] = handler[d]
        BY <1>0, <1>3 DEF Connect, Refused
    <2> QED
        BY <1>3, <2>1, BystandersKeepInv DEF Connect, Refused
<1>4. ASSUME NEW c \in Clients, Fade(c) PROVE HubInv'
    <2>1. \A d \in Clients : peer[d] = "gone" => peer'[d] = "gone"
        BY <1>0, <1>4 DEF Fade
    <2> QED
        BY <1>4, <2>1, BystandersKeepInv DEF Fade
<1>5. ASSUME NEW c \in Clients, Leave(c) PROVE HubInv'
    <2>1. \A d \in Clients : handler'[d] = handler[d] \/ handler'[d] = "done"
        BY <1>0, <1>5 DEF Leave
    <2> QED
        BY <1>5, <2>1, OthersKeepInv DEF Leave
<1>6. CASE Cleanup
    BY <1>6, OthersKeepInv DEF Cleanup
<1>7. ASSUME NEW l \in Loops, Finish(l) PROVE HubInv'
    <2>1. \A b \in Broadcasts : loops'[b] = loops[b] \/ loops'[b].pc \in {"ended", "aborted"}
        BY <1>0, <1>7, LoopIsOver DEF Finish
    <2> QED
        BY <1>7, <2>1, OthersKeepInv DEF Finish
<1>8. ASSUME NEW l \in Loops, AbortLoop(l) PROVE HubInv'
    <2>1. \A b \in Broadcasts : loops'[b] = loops[b] \/ loops'[b].pc \in {"ended", "aborted"}
        BY <1>0, <1>8, LoopIsOver DEF AbortLoop
    <2> QED
        BY <1>8, <2>1, BystandersKeepInv DEF AbortLoop
<1>9. CASE WakePing
    <2>1. \A b \in Broadcasts : loops'[b] = loops[b]
        BY <1>0, <1>9 DEF WakePing
    <2> QED
        BY <1>9, <2>1, BystandersKeepInv DEF WakePing
<1>10. ASSUME NEW c \in Clients, Message(c) PROVE HubInv'
    <2>1. CASE UNCHANGED <<subscribed, loops>>
        <3>1. \A d \in Clients : peer[d] = "gone" => peer'[d] = "gone"
            BY <1>0, <1>10, <2>1 DEF Message
        <3> QED
            BY <1>10, <2>1, <3>1, BystandersKeepInv DEF Message
    <2>2. CASE subscribed' = subscribed \cup {c} /\ UNCHANGED <<peer, loops>>
        BY <1>10, <2>2 DEF Message, HubInv, Rounds, Unsent, NotYet, OwedReached
    <2>3. CASE /\ subscribed' = subscribed \ {c} /\ UNCHANGED peer
               /\ loops' = [l \in Loops |-> [loops[l] EXCEPT !.owed = @ \ {c}]]
        <3>1. \A b \in Broadcasts : /\ loops'[b].pc = loops[b].pc /\ loops'[b].called = loops[b].called
                                    /\ loops'[b].pos = loops[b].pos /\ loops'[b].joined = loops[b].joined
                                    /\ loops'[b].owed = loops[b].owed \ {c}
            BY <1>0, <2>3 DEF LoopType
        <3>2. Rounds' /\ Unsent' /\ NotYet'
            BY <1>10, <3>1 DEF Message, HubInv, Rounds, Unsent, NotYet
        <3>3. OwedReached'
            BY <1>10, <2>3, <3>1 DEF Message, HubInv, OwedReached
        <3> QED
            BY <3>2, <3>3 DEF HubInv
    <2> QED
        BY <1>10, <2>1, <2>2, <2>3 DEF Message
<1>11. ASSUME NEW c \in Clients, Accepted(c) PROVE HubInv'
    <2>1. c \notin Members /\ \A b \in Broadcasts : received[c][b] = 0
        BY <1>0, <1>11 DEF Accepted, HubInv, CountInv, Served, Unsent
    <2>2. \A n \in DOMAIN entries' : entries'[n] # Hole =>
            entries'[n] = c \/ \E i \in DOMAIN entries : n <= i /\ entries'[n] = entries[i]
        BY <1>0, <1>11, <2>1, Insertion DEF Accepted, HubInv, CountInv
    <2>3. \A b \in Broadcasts : /\ loops'[b].pc = loops[b].pc /\ loops'[b].called = loops[b].called
                                /\ loops'[b].pos = loops[b].pos
                                /\ loops'[b].pc = "loop" => loops'[b].joined
        BY <1>0, <1>11 DEF Accepted, Insert, LoopType, Looping
    <2>4. Rounds' /\ OwedReached'
        BY <2>3 DEF HubInv, Rounds, OwedReached
    <2>5. Unsent'
        BY <1>0, <1>11, <2>1, <2>3 DEF Accepted, HubInv, Unsent
    <2>6. NotYet'
        <3> SUFFICES ASSUME NEW b \in Broadcasts, NEW n \in DOMAIN entries',
                            loops'[b].pc = "loop", n > loops'[b].pos, entries'[n] # Hole
                     PROVE  received'[entries'[n]][b] = 0
            BY DEF NotYet
        <3>1. CASE entries'[n] = c
            BY <1>11, <2>1, <3>1 DEF Accepted
        <3>2. ASSUME NEW i \in DOMAIN entries, n <= i, entries'[n] = entries[i]
              PROVE  received'[entries'[n]][b] = 0
            <4>1. n \in Nat /\ i \in Nat /\ loops[b].pos \in Nat
                BY <1>0 DEF CountInv, HubTypeOK, LoopType
            <4> QED
                BY <1>11, <2>3, <3>2, <4>1 DEF Accepted, HubInv, NotYet
        <3> QED
            BY <2>2, <3>1, <3>2
    <2> QED
        BY <2>4, <2>5, <2>6 DEF HubInv
<1>12. ASSUME NEW b \in Broadcasts, Raise(b) PROVE HubInv'
    <2>1. /\ loops[b].pc = "idle" /\ loops'[b].pc = "storing" /\ loops'[b].called = loops[b].called
          /\ \A d \in Broadcasts \ {b} : loops'[d] = loops[d]
        BY <1>0, <1>12 DEF Raise, LoopType
    <2>2. UNCHANGED <<entries, handler, peer, subscribed, received>>
        BY <1>12 DEF Raise
    <2>3. Rounds' /\ Unsent'
        BY <2>1, <2>2 DEF HubInv, Rounds, Unsent
    <2>4. NotYet' /\ OwedReached'
        BY <2>1, <2>2 DEF HubInv, NotYet, OwedReached
    <2> QED
        BY <2>3, <2>4 DEF HubInv
<1>13. ASSUME NEW b \in Broadcasts, SendStatus(b) \/ Notify(b) PROVE HubInv'
    <2>1. CASE Notify(b) /\ loops' = [loops EXCEPT ![b] = Over("ended")]
        <3>1. \A d \in Broadcasts : loops'[d] = loops[d] \/ loops'[d].pc \in {"ended", "aborted"}
            BY <1>0, <2>1 DEF Over, NoLoop
        <3> QED
            BY <2>1, <3>1, BystandersKeepInv DEF Notify
    <2>2. CASE \/ /\ Notify(b)
                  /\ loops' = [loops EXCEPT ![b] = [Started(loops[b]) EXCEPT !.called = loops[b].called + 1]]
               \/ SendStatus(b)
        <3>1. \A c \in Clients : received[c][b] = 0
            BY <2>2 DEF Notify, SendStatus, HubInv, Unsent
        <3>2. /\ loops'[b].pc \in {"ended", "loop"} /\ loops'[b].called = 1 /\ loops'[b].pos = 0
              /\ loops'[b].owed = subscribed
              /\ \A d \in Broadcasts \ {b} : loops'[d] = loops[d]
            <4>1. CASE /\ Notify(b)
                       /\ loops' = [loops EXCEPT ![b] =
                                      [Started(loops[b]) EXCEPT !.called = loops[b].called + 1]]
                <5>1. loops[b].called + 1 = 1
                    BY <4>1 DEF Notify, HubInv, Rounds
                <5>2. loops' = [loops EXCEPT ![b] = [Started(loops[b]) EXCEPT !.called = 1]]
                    BY <4>1, <5>1
                <5> QED
                    BY <1>0, <5>2 DEF Started, LoopType
            <4>2. CASE SendStatus(b)
                BY <1>0, <4>2 DEF SendStatus, Started, LoopType
            <4> QED
                BY <2>2, <4>1, <4>2
        <3>3. UNCHANGED <<entries, handler, peer, subscribed, received>>
            BY <2>2 DEF Notify, SendStatus
        <3>4. Rounds' /\ Unsent'
            BY <3>1, <3>2, <3>3 DEF HubInv, Rounds, Unsent
        <3>5. NotYet'
            <4>1. \A i \in DOMAIN entries : entries[i] # Hole => entries[i] \in Clients
                BY <1>0
            <4> QED
                BY <3>1, <3>2, <3>3, <4>1 DEF HubInv, NotYet
        <3>6. OwedReached'
            <4>1. \A i \in DOMAIN entries : ~(i <= 0)
                BY <1>0
            <4> QED
                BY <3>2, <3>3, <4>1 DEF HubInv, OwedReached
        <3> QED
            BY <3>4, <3>5, <3>6 DEF HubInv
    <2> QED
        BY <1>13, <2>1, <2>2 DEF Notify
<1>14. ASSUME NEW l \in Loops, Turn(l) PROVE HubInv'
    <2>1. PICK i \in Ahead(l) :
             /\ \A k \in Ahead(l) : i <= k
             /\ loops' = [loops EXCEPT ![l].pos = i,
                                       ![l].late = IF l = "ping" /\ peer[entries[i]] = "mute"
                                                   THEN @ \cup {entries[i]} ELSE @]
             /\ received' = IF l # "ping" /\ peer[entries[i]] # "gone"
                            THEN [received EXCEPT ![entries[i]][l] = @ + 1] ELSE received
        BY <1>14, Sending DEF HubInv, CountInv
    <2>2. UNCHANGED <<entries, handler, peer, subscribed>> /\ loops[l].pc = "loop"
        BY <1>14 DEF Turn
    <2>3. CASE l = "ping"
        <3>1. \A b \in Broadcasts : loops'[b] = loops[b]
            BY <1>0, <2>1, <2>3
        <3> QED
            BY <2>1, <2>2, <2>3, <3>1, BystandersKeepInv
    <2>4. CASE l \in Broadcasts
        <3> DEFINE c == entries[i]
        <3>1. /\ i \in DOMAIN entries /\ i > loops[l].pos /\ c \in Clients /\ c # Hole
              /\ c \in subscribed /\ c \in Members
            BY <1>0, <2>4 DEF Ahead, Members
        <3>2. received[c][l] = 0 /\ handler[c] = "serving"
            BY <2>2, <2>4, <3>1 DEF HubInv, CountInv, NotYet, Served
        <3>3. /\ loops'[l].pc = loops[l].pc /\ loops'[l].called = loops[l].called
              /\ loops'[l].owed = loops[l].owed /\ loops'[l].joined = loops[l].joined
              /\ loops'[l].pos = i
              /\ \A b \in Broadcasts \ {l} : loops'[b] = loops[b]
            BY <1>0, <2>1, <2>4 DEF LoopType
        <3>4. /\ \A d \in Clients, b \in Broadcasts :
                    d # c \/ b # l => received'[d][b] = received[d][b]
              /\ received'[c][l] = IF peer[c] = "gone" THEN 0 ELSE 1
            BY <1>0, <2>1, <2>4, <3>1, <3>2
        <3> HIDE DEF c
        <3>5. Rounds'
            BY <2>2, <3>3 DEF HubInv, Rounds
        <3>6. Unsent'
            BY <2>2, <3>2, <3>3, <3>4 DEF HubInv, Unsent
        <3>7. NotYet'
            <4> SUFFICES ASSUME NEW b \in Broadcasts, NEW n \in DOMAIN entries,
                                loops'[b].pc = "loop", n > loops'[b].pos, entries[n] # Hole
                         PROVE  received'[entries[n]][b] = 0
                BY <2>2 DEF NotYet
            <4>1. entries[n] \in Clients /\ n \in Nat /\ i \in Nat /\ loops[b].pos \in Nat
                BY <1>0, <3>1 DEF LoopType
            <4>2. CASE b = l
                <5>1. entries[n] # c
                    BY <3>1, <3>3, <4>1, <4>2 DEF HubInv, CountInv, InOnce, c
                <5>2. n > loops[b].pos
                    BY <3>1, <3>3, <4>1, <4>2
                <5> QED
                    BY <2>2, <3>4, <4>1, <4>2, <5>1, <5>2 DEF HubInv, NotYet
            <4>3. CASE b # l
                BY <3>3, <3>4, <4>1, <4>3 DEF HubInv, NotYet
            <4> QED
                BY <4>2, <4>3
        <3>8. OwedReached'
            <4> SUFFICES ASSUME NEW b \in Broadcasts, NEW n \in DOMAIN entries,
                                loops'[b].pc = "loop", ~loops'[b].joined, entries[n] \in loops'[b].owed
                         PROVE  /\ entries[n] \in subscribed
                                /\ n <= loops'[b].pos =>
                                     received'[entries[n]][b] = 1 \/ peer[entries[n]] = "gone"
                BY <2>2 DEF OwedReached
            <4>1. entries[n] \in Clients /\ n \in Nat /\ i \in Nat /\ loops[b].pos \in Nat
                BY <1>0, <3>1, <3>3 DEF LoopType
            <4>2. CASE b = l
                <5>1. entries[n] \in subscribed
                    BY <2>2, <3>3, <4>2 DEF HubInv, OwedReached
                <5>2. CASE n <= loops[l].pos
                    <6>1. received[entries[n]][l] = 1 \/ peer[entries[n]] = "gone"
                        BY <2>2, <3>3, <4>2, <5>2 DEF HubInv, OwedReached
                    <6>2. entries[n] # c
                        BY <3>2, <3>4, <4>1, <4>2, <5>2, <3>1 DEF HubInv, CountInv, InOnce, c
                    <6> QED
                        BY <3>4, <4>1, <4>2, <5>1, <6>1, <6>2
                <5>3. CASE n > loops[l].pos /\ n <= i
                    <6>1. n \in Ahead(l)
                        BY <4>1, <5>1, <5>3 DEF Ahead, Hole
                    <6>2. n = i
                        BY <2>1, <4>1, <5>3, <6>1
                    <6> QED
                        BY <3>4, <4>2, <5>1, <6>2 DEF c
                <5> QED
                    BY <3>3, <4>1, <4>2, <5>1, <5>2, <5>3
            <4>3. CASE b # l
                BY <3>3, <3>4, <4>1, <4>3 DEF HubInv, OwedReached
            <4> QED
                BY <4>2, <4>3
        <3> QED
            BY <3>5, <3>6, <3>7, <3>8 DEF HubInv
    <2> QED
        BY <2>3, <2>4 DEF Loops
<1> QED
    BY <1>1, <1>2, <1>3, <1>4, <1>5, <1>6, <1>7, <1>8, <1>9, <1>10, <1>11, <1>12, <1>13, <1>14
       DEF HubStep, Iterate

LEMMA HubInvHolds == HubSpec => []HubInv
    BY HubInitInv, HubInvStep, PTL DEF HubSpec

(* For any broadcasts, whatever is stopped and started while they are on   *)
(* their way: no client is sent one twice.                                 *)
THEOREM BroadcastOnceHolds == HubSpec => []BroadcastOnce
<1>1. HubInv => BroadcastOnce
    BY DEF HubInv, Unsent, BroadcastOnce
<1> QED
    BY <1>1, HubInvHolds, PTL

(* For any clients that leave, unsubscribe, go mute or vanish meanwhile: a *)
(* broadcast that ends by itself, while nobody joined, has reached every   *)
(* client it owes the message.                                             *)
THEOREM ReachedHolds == HubSpec => Reached
<1>1. HubInv /\ [HubNext]_hubVars =>
        [\A b \in Broadcasts :
           (loops[b].pc = "loop" /\ loops'[b].pc \in {"ended", "storing"} /\ ~loops[b].joined) =>
             \A c \in loops[b].owed \cap Members :
                 received[c][b] = loops[b].called \/ peer[c] = "gone"]_hubVars
    <2> SUFFICES ASSUME HubInv, HubStep, NEW b \in Broadcasts, NEW c \in loops[b].owed \cap Members,
                        loops[b].pc = "loop", loops'[b].pc \in {"ended", "storing"}, ~loops[b].joined
                 PROVE  received[c][b] = loops[b].called \/ peer[c] = "gone"
        BY NextIsStep
    <2>1. b \in Loops /\ b # "ping" /\ loops \in [Loops -> LoopType]
        BY DEF HubInv, CountInv, HubTypeOK, Loops
    <2>2. Finish(b)
        <3>1. loops'[b].pc # loops[b].pc /\ loops'[b].pc # "aborted"
            OBVIOUS
        <3>2. ~(StartMonitoring \/ WakePing \/ Cleanup)
            BY <2>1, <3>1 DEF StartMonitoring, WakePing, Cleanup
        <3>3. ~StopMonitoring
            BY <2>1, <3>1 DEF StopMonitoring, Over, NoLoop
        <3>4. ASSUME NEW d \in Clients, \/ Connect(d) \/ Accepted(d) \/ Refused(d)
                                        \/ Message(d) \/ Leave(d) \/ Fade(d)
              PROVE  FALSE
            <4>1. CASE UNCHANGED loops
                BY <3>1, <4>1
            <4>2. CASE loops' = [l \in Loops |-> [loops[l] EXCEPT !.owed = @ \ {d}]]
                BY <2>1, <3>1, <4>2 DEF LoopType
            <4>3. CASE Insert(d)
                BY <2>1, <3>1, <4>3 DEF Insert, LoopType
            <4> QED
                BY <3>4, <4>1, <4>2, <4>3 DEF Connect, Accepted, Refused, Message, Leave, Fade, dict, conns
        <3>5. ASSUME NEW d \in Broadcasts, Raise(d) \/ SendStatus(d) \/ Notify(d) PROVE FALSE
            <4>1. d # b
                BY <3>5 DEF Raise, SendStatus, Notify
            <4> QED
                BY <2>1, <3>1, <3>5, <4>1 DEF Raise, SendStatus, Notify
        <3>6. ASSUME NEW l \in Loops, Turn(l) PROVE FALSE
            <4>1. PICK i \in Ahead(l) :
                    loops' = [loops EXCEPT ![l].pos = i,
                                           ![l].late = IF l = "ping" /\ peer[entries[i]] = "mute"
                                                       THEN @ \cup {entries[i]} ELSE @]
                BY <3>6, Sending DEF HubInv, CountInv
            <4> QED
                BY <2>1, <3>1, <4>1 DEF LoopType
        <3>7. ASSUME NEW l \in Loops, Finish(l) \/ AbortLoop(l) PROVE Finish(b)
            <4>1. l = b
                BY <2>1, <3>1, <3>7 DEF Finish, AbortLoop
            <4>2. ~AbortLoop(b)
                BY <2>1, <3>1, LoopIsOver DEF AbortLoop
            <4> QED
                BY <3>7, <4>1, <4>2
        <3> QED
            BY <3>2, <3>3, <3>4, <3>5, <3>6, <3>7 DEF HubStep, Iterate
    <2>3. PICK i \in DOMAIN entries : entries[i] = c /\ c # Hole
        BY DEF Members
    <2>4. entries[i] \in subscribed
        BY <2>3 DEF HubInv, OwedReached
    <2>5. i <= loops[b].pos
        BY <2>2, <2>3, <2>4, <2>1 DEF Finish, Ahead, HubInv, CountInv, HubTypeOK, LoopType
    <2> QED
        BY <2>3, <2>5 DEF HubInv, OwedReached, Rounds
<1> QED
    BY <1>1, HubInvHolds, PTL DEF HubSpec, Reached

(***************************************************************************)
(* The files of the days.                                                  *)
(***************************************************************************)

LEMMA ADay ==
    ASSUME NEW n \in Nat
    PROVE  /\ DayOf(n) \in Nat /\ DayTicks * DayOf(n) <= n /\ n < DayTicks * DayOf(n) + DayTicks
           /\ DayTicks \in Nat /\ DayTicks >= 1
    BY DayAssumption DEF DayOf, DayAssumption

LEMMA DayMultiples ==
    ASSUME NEW x \in Int, NEW y \in Int
    PROVE  /\ x <= y => DayTicks * x <= DayTicks * y
           /\ DayTicks * (x + y) = DayTicks * x + DayTicks * y
           /\ DayTicks * (x - y) = DayTicks * x - DayTicks * y
           /\ DayTicks * (x + 1) = DayTicks * x + DayTicks
           /\ DayTicks * x \in Int
    BY DayAssumption DEF DayAssumption

(* The day of a time is the one whose ticks hold it.                       *)
LEMMA DayIs ==
    ASSUME NEW n \in Nat, NEW d \in Int, DayTicks * d <= n, n < DayTicks * d + DayTicks
    PROVE  DayOf(n) = d
<1> DEFINE q == DayOf(n)
<1>1. q \in Int /\ DayTicks * q <= n /\ n < DayTicks * q + DayTicks /\ DayTicks \in Nat
    BY ADay
<1> HIDE DEF q
<1>2. /\ q + 1 \in Int /\ d + 1 \in Int
      /\ DayTicks * (q + 1) = DayTicks * q + DayTicks /\ DayTicks * (d + 1) = DayTicks * d + DayTicks
      /\ (q + 1 <= d => DayTicks * (q + 1) <= DayTicks * d)
      /\ (d + 1 <= q => DayTicks * (d + 1) <= DayTicks * q)
    BY <1>1, DayMultiples
<1>3. ~(q + 1 <= d)
    BY <1>1, <1>2
<1>4. ~(d + 1 <= q)
    BY <1>1, <1>2
<1>5. q = d
    BY <1>1, <1>3, <1>4
<1> QED
    BY <1>5 DEF q

LEMMA DaysAscend ==
    ASSUME NEW m \in Nat, NEW n \in Nat, m <= n
    PROVE  DayOf(m) <= DayOf(n)
<1> DEFINE p == DayOf(m)
           q == DayOf(n)
<1>1. /\ p \in Int /\ DayTicks * p <= m
      /\ q \in Int /\ n < DayTicks * q + DayTicks /\ DayTicks \in Nat
    BY ADay
<1> HIDE DEF p, q
<1>2. DayTicks * (q + 1) = DayTicks * q + DayTicks /\ (q + 1 <= p => DayTicks * (q + 1) <= DayTicks * p)
    BY <1>1, DayMultiples
<1>3. ~(q + 1 <= p)
    BY <1>1, <1>2
<1>4. p <= q
    BY <1>1, <1>3
<1> QED
    BY <1>4 DEF p, q

(* The file that is read is that of the day so many days back.             *)
LEMMA DayReadIs ==
    ASSUME NEW n \in Nat, NEW r \in Nat, r <= DayOf(n)
    PROVE  DayRead(n, r) = DayOf(n) - r
<1> DEFINE q == DayOf(n)
           k == n - r * DayTicks
<1>1. q \in Nat /\ DayTicks * q <= n /\ n < DayTicks * q + DayTicks /\ DayTicks \in Nat /\ r <= q
    BY ADay
<1> HIDE DEF q
<1>2. DayTicks * (q - r) = DayTicks * q - DayTicks * r /\ r * DayTicks = DayTicks * r
      /\ DayTicks * r \in Int /\ (r <= q => DayTicks * r <= DayTicks * q) /\ DayTicks * q \in Int
    BY <1>1, DayMultiples
<1>3. k \in Nat /\ q - r \in Int /\ DayTicks * (q - r) <= k /\ k < DayTicks * (q - r) + DayTicks
    BY <1>1, <1>2
<1> HIDE DEF k
<1>4. DayOf(k) = q - r
    BY <1>3, DayIs
<1> QED
    BY <1>4 DEF DayRead, k, q

(* The files a query reads go back far enough, though a midnight passes    *)
(* after it has begun.                                                     *)
LEMMA FilesEnough ==
    ASSUME NEW n \in Nat, NEW at \in Nat, NEW w \in Nat, n <= at + w + 1
    PROVE  DayOf(n) < DayOf(at) + FilesRead(w) /\ FilesRead(w) \in Nat
<1> DEFINE p == DayOf(at)
           s == DayOf(w)
           q == DayOf(n)
<1>1. /\ p \in Nat /\ at < DayTicks * p + DayTicks
      /\ s \in Nat /\ w < DayTicks * s + DayTicks
      /\ q \in Nat /\ DayTicks * q <= n /\ DayTicks \in Nat /\ DayTicks >= 1
    BY ADay
<1>2. FilesRead(w) = s + 2
    BY DEF FilesRead, DayOf
<1> HIDE DEF p, s, q
<1>3. /\ DayTicks * ((p + s) + 1) = DayTicks * (p + s) + DayTicks
      /\ DayTicks * (((p + s) + 1) + 1) = DayTicks * ((p + s) + 1) + DayTicks
      /\ DayTicks * (p + s) = DayTicks * p + DayTicks * s
      /\ DayTicks * p \in Int /\ DayTicks * s \in Int /\ DayTicks * q \in Int
      /\ (((p + s) + 1) + 1 <= q => DayTicks * (((p + s) + 1) + 1) <= DayTicks * q)
    BY <1>1, DayMultiples
<1>4. n + 1 <= DayTicks * (((p + s) + 1) + 1)
    BY <1>1, <1>3
<1>5. ~(((p + s) + 1) + 1 <= q)
    BY <1>1, <1>3, <1>4
<1> QED
    BY <1>1, <1>2, <1>5 DEF p, q

(***************************************************************************)
(* The history of the metrics.                                             *)
(***************************************************************************)

Period == RetentionDays * DayTicks

QueryType == [pc : {"none", "reading", "opening", "answered", "failed"}, kind : LineKinds,
              window : Nat, from : Int, read : Nat, day : Int,
              got : SUBSET measured, due : SUBSET measured]

QueriedFile == [kind |-> query.kind, day |-> query.day]

(* Every line of the time of retention is in its file, which was written   *)
(* to when the line was, or later, and not before the day it is named for. *)
LinesKept ==
    /\ \A l \in measured \cup round.lines : l.at <= metricClock
    /\ \A f \in DOMAIN writtenAt : writtenAt[f] \in 0 .. metricClock
    /\ \A l \in metricFiles : l.at <= writtenAt[FileOf(l)]
    /\ \A l \in measured : l \in metricFiles \/ \E o \in Offsets : l.at + o < metricClock - Period
    /\ \A f \in DOMAIN writtenAt : f.day \in Nat /\ f.day <= DayOf(writtenAt[f])

(* What a query has due is on the days it has read or on those before.     *)
Reading ==
    Asking =>
        /\ query.window \in Windows
        /\ metricClock \in query.from + query.window .. query.from + query.window + 1
        /\ query.from + query.window \in Nat
        /\ \A l \in query.due :
              /\ l.kind = query.kind /\ l.at >= query.from
              /\ \A o \in Offsets : l.at + o > query.from + query.window - Period
              /\ DayOf(l.at) > DayOf(metricClock) - query.read => l \in query.got

(* The file that it is about to open is there, or that day is far back.    *)
Opening ==
    query.pc = "opening" =>
        /\ query.read < FilesRead(query.window) /\ query.day \in Nat
        /\ query.day + query.read <= DayOf(metricClock)
        /\ DayOf(query.from + query.window) <= query.day + query.read
        /\ \A l \in query.due : DayOf(l.at) > query.day => l \in query.got
        /\ QueriedFile \in DOMAIN writtenAt \/ ~WellWithin(query.window)

HistoryInv ==
    /\ HistoryTypeOK
    /\ round \in [todo : SUBSET MetricContainers, lines : SUBSET MetricLines]
    /\ query \in QueryType
    /\ LinesKept /\ Reading /\ Opening /\ RecentFound

LEMMA HistoryNumbers ==
    /\ DayTicks \in Nat /\ Period \in Nat /\ MetricHorizon \in Nat
    /\ Windows \subseteq Nat /\ Offsets \subseteq Int
<1>1. RetentionDays \in Nat /\ DayTicks \in Nat /\ RetentionDays * DayTicks \in Nat
    BY HistoryAssumption, DayAssumption DEF HistoryAssumption, DayAssumption
<1> QED
    BY <1>1, HistoryAssumption DEF HistoryAssumption, Period

LEMMA HistoryInitially == HistoryInit => HistoryInv
<1> SUFFICES ASSUME HistoryInit PROVE HistoryInv
    OBVIOUS
<1>1. NoRound \in [todo : SUBSET MetricContainers, lines : SUBSET MetricLines]
    BY DEF NoRound
<1>2. query \in QueryType /\ query.pc = "none" /\ query.got = {}
    BY DEF HistoryInit, NoQuery, QueryType, LineKinds
<1>3. DOMAIN writtenAt = {}
    BY DEF HistoryInit
<1>4. HistoryTypeOK
  <2>1. {FileOf(l) : l \in metricFiles} = {}
      BY DEF HistoryInit
  <2>2. collectorOn \in BOOLEAN
      BY DEF HistoryInit
  <2> QED
      BY <1>2, <1>3, <2>1, <2>2, HistoryNumbers DEF HistoryTypeOK, HistoryInit, NoRound
<1>5. LinesKept
    BY <1>3 DEF HistoryInit, LinesKept, NoRound
<1> QED
    BY <1>1, <1>2, <1>4, <1>5 DEF HistoryInv, Reading, Opening, Asking, RecentFound, HistoryInit

(* Steps that leave the query alone, and the clock.                        *)
LEMMA QueryKept ==
    ASSUME HistoryInv, UNCHANGED <<query, metricClock>>, measured \subseteq measured',
           DOMAIN writtenAt \subseteq DOMAIN writtenAt'
    PROVE  query' \in QueryType' /\ Reading' /\ Opening' /\ RecentFound'
<1>1. query' \in QueryType' /\ Reading' /\ RecentFound'
    BY DEF HistoryInv, QueryType, Reading, Asking, RecentFound, WellWithin, FilesRead
<1>2. Opening'
    BY DEF HistoryInv, Opening, QueriedFile, WellWithin, FilesRead
<1> QED
    BY <1>1, <1>2

(* A line is written.                                                      *)
LEMMA WriteKeeps ==
    ASSUME HistoryInv, NEW l \in round.lines, WriteTo(l), UNCHANGED metricClock,
           round'.lines \subseteq round.lines
    PROVE  /\ LinesKept' /\ measured' \subseteq MetricLines /\ metricFiles' \subseteq measured'
           /\ DOMAIN writtenAt' = {FileOf(k) : k \in metricFiles'} /\ measured \subseteq measured'
           /\ DOMAIN writtenAt \subseteq DOMAIN writtenAt'
<1>1. /\ metricFiles' = metricFiles \cup {l} /\ measured' = measured \cup {l}
      /\ DOMAIN writtenAt' = DOMAIN writtenAt \cup {FileOf(l)}
      /\ \A f \in DOMAIN writtenAt' :
            writtenAt'[f] = IF f = FileOf(l) THEN metricClock ELSE writtenAt[f]
    BY DEF WriteTo
<1>2. /\ DOMAIN writtenAt = {FileOf(k) : k \in metricFiles} /\ l \in MetricLines
      /\ measured \subseteq MetricLines /\ metricFiles \subseteq measured /\ metricClock \in Nat
    BY DEF HistoryInv, HistoryTypeOK
<1>3. \A k \in measured' \cup round'.lines : k.at <= metricClock
    BY <1>1 DEF HistoryInv, LinesKept
<1>4. \A f \in DOMAIN writtenAt' : writtenAt'[f] \in 0 .. metricClock
    BY <1>1, <1>2 DEF HistoryInv, LinesKept
<1>5. ASSUME NEW k \in metricFiles' PROVE k.at <= writtenAt'[FileOf(k)]
  <2>1. FileOf(k) \in DOMAIN writtenAt'
      BY <1>1, <1>2
  <2>2. CASE FileOf(k) = FileOf(l)
      BY <1>1, <1>2, <1>3, <2>1, <2>2
  <2>3. CASE FileOf(k) # FileOf(l)
      BY <1>1, <2>1, <2>3 DEF HistoryInv, LinesKept
  <2> QED
      BY <2>2, <2>3
<1>6. \A k \in measured' : k \in metricFiles' \/ \E o \in Offsets : k.at + o < metricClock - Period
    BY <1>1 DEF HistoryInv, LinesKept
<1>8. \A f \in DOMAIN writtenAt' : f.day \in Nat /\ f.day <= DayOf(writtenAt'[f])
  <2>1. l.at \in Nat /\ l.at <= metricClock
      BY <1>2 DEF HistoryInv, LinesKept, MetricLines
  <2>2. FileOf(l).day \in Nat /\ FileOf(l).day <= DayOf(metricClock)
      BY <1>2, <2>1, ADay, DaysAscend DEF FileOf
  <2> QED
      BY <1>1, <2>2 DEF HistoryInv, LinesKept
<1>7. LinesKept'
    BY <1>3, <1>4, <1>5, <1>6, <1>8 DEF LinesKept, Period
<1> QED
    BY <1>1, <1>2, <1>7

(* A file that a query was about to open is only removed when it is asked  *)
(* for days that are not well within the retention.                        *)
LEMMA FarBack ==
    ASSUME NEW o \in Offsets, NEW day \in Nat, NEW read \in Nat, NEW written \in Nat,
           NEW clock \in Nat, NEW asked \in Nat, NEW w \in Nat,
           day <= DayOf(written), written + o < clock - Period, clock <= asked + 1,
           DayOf(asked) <= day + read, read < FilesRead(w)
    PROVE  ~WellWithin(w)
<1> DEFINE q == DayOf(asked)
           v == DayOf(written)
           n == FilesRead(w)
<1>1. /\ q \in Nat /\ asked < DayTicks * q + DayTicks /\ v \in Nat /\ DayTicks * v <= written
      /\ q <= day + read /\ day <= v
    BY ADay
<1>2. n \in Nat /\ read + 1 <= n
  <2>1. DayOf(w) \in Nat /\ n = DayOf(w) + 2
      BY ADay DEF FilesRead, DayOf
  <2> QED
      BY <2>1
<1> HIDE DEF q, v, n
<1>3. /\ DayTicks * q <= DayTicks * (day + read) /\ DayTicks * (day + read) = DayTicks * day + DayTicks * read
      /\ DayTicks * day <= DayTicks * v
    BY <1>1, DayMultiples
<1>4. /\ DayTicks * (read + 1) <= DayTicks * n /\ DayTicks * (read + 1) = DayTicks * read + DayTicks
      /\ DayTicks * n = n * DayTicks
    BY <1>2, DayMultiples, HistoryNumbers
<1>5. /\ DayTicks * q \in Int /\ DayTicks * v \in Int /\ DayTicks * day \in Int /\ DayTicks * read \in Int
      /\ DayTicks * n \in Int /\ DayTicks \in Int /\ Period \in Int /\ o \in Int
    BY <1>1, <1>2, DayMultiples, HistoryNumbers
<1>6. Period + o < n * DayTicks
  <2> DEFINE a == DayTicks * q
             b == DayTicks * v
             c == DayTicks * day
             d == DayTicks * read
             e == DayTicks * n
  <2>1. /\ a <= c + d /\ c <= b /\ d + DayTicks <= e /\ asked < a + DayTicks /\ b <= written
        /\ a \in Int /\ b \in Int /\ c \in Int /\ d \in Int /\ e \in Int
      BY <1>1, <1>3, <1>4, <1>5
  <2> HIDE DEF a, b, c, d, e
  <2>2. Period + o < e
      BY <1>5, <2>1
  <2> QED
      BY <1>4, <2>2 DEF e
<1>7. ~(Period + o >= FilesRead(w) * DayTicks)
  <2> DEFINE e == n * DayTicks
  <2>1. e \in Int /\ Period + o < e
      BY <1>4, <1>5, <1>6
  <2> HIDE DEF e
  <2>2. ~(Period + o >= e)
      BY <1>5, <2>1
  <2> QED
      BY <2>2 DEF e, n
<1> QED
    BY <1>7 DEF WellWithin, Period

(* What is removed is older than the retention.                            *)
LEMMA CleanKeeps == ASSUME HistoryInv, CleanFiles PROVE HistoryInv'
<1>0. PICK o \in Offsets :
        LET kept == {f \in DOMAIN writtenAt : ~Stale(f, o)}
        IN  /\ metricFiles' = {l \in metricFiles : FileOf(l) \in kept}
            /\ writtenAt' = [f \in kept |-> writtenAt[f]]
    BY DEF CleanFiles
<1> DEFINE kept == {f \in DOMAIN writtenAt : ~Stale(f, o)}
<1>1. /\ metricFiles' = {l \in metricFiles : FileOf(l) \in kept}
      /\ DOMAIN writtenAt' = kept /\ \A f \in kept : writtenAt'[f] = writtenAt[f]
      /\ UNCHANGED <<metricClock, collectorOn, watched, round, query, measured>>
      /\ cleanerDue' = metricClock + DayTicks
    BY <1>0 DEF CleanFiles
<1>2. /\ DOMAIN writtenAt = {FileOf(k) : k \in metricFiles} /\ measured \subseteq MetricLines
      /\ metricFiles \subseteq measured /\ metricClock \in Nat /\ o \in Int
    BY HistoryNumbers DEF HistoryInv, HistoryTypeOK
<1>3. DOMAIN writtenAt' = {FileOf(k) : k \in metricFiles'}
    BY <1>1, <1>2
<1>4. ASSUME NEW l \in measured
      PROVE  l \in metricFiles' \/ \E x \in Offsets : l.at + x < metricClock - Period
  <2>1. CASE l \notin metricFiles
      BY <2>1 DEF HistoryInv, LinesKept
  <2>2. CASE l \in metricFiles /\ FileOf(l) \notin kept
    <3>1. FileOf(l) \in DOMAIN writtenAt /\ writtenAt[FileOf(l)] + o < metricClock - Period
        BY <1>2, <2>2 DEF Stale, Period
    <3>2. l.at <= writtenAt[FileOf(l)] /\ writtenAt[FileOf(l)] \in 0 .. metricClock /\ l.at \in Nat
        BY <1>2, <2>2, <3>1 DEF HistoryInv, LinesKept, MetricLines
    <3>3. l.at + o < metricClock - Period
        BY <1>2, <3>1, <3>2, HistoryNumbers
    <3> QED
        BY <3>3
  <2> QED
      BY <1>1, <2>1, <2>2
<1>5. /\ \A f \in DOMAIN writtenAt' : writtenAt'[f] \in 0 .. metricClock
      /\ \A l \in metricFiles' : l.at <= writtenAt'[FileOf(l)]
      /\ \A f \in DOMAIN writtenAt' : f.day \in Nat /\ f.day <= DayOf(writtenAt'[f])
    BY <1>1 DEF HistoryInv, LinesKept
<1>6. LinesKept'
  <2>1. \A l \in measured' \cup round'.lines : l.at <= metricClock'
      BY <1>1 DEF HistoryInv, LinesKept
  <2> HIDE DEF kept
  <2> QED
      BY <1>1, <1>4, <1>5, <2>1 DEF LinesKept, Period
<1>7. HistoryTypeOK'
  <2>1. collectorOn' \in BOOLEAN
      BY <1>1 DEF HistoryInv, HistoryTypeOK
  <2>2. cleanerDue' \in Int
      BY <1>1, <1>2, HistoryNumbers
  <2> HIDE DEF kept
  <2>3. metricFiles' \subseteq measured'
      BY <1>1, <1>2
  <2> QED
      BY <1>1, <1>3, <2>1, <2>2, <2>3 DEF HistoryInv, HistoryTypeOK
<1>8. query' \in QueryType' /\ Reading' /\ RecentFound'
    BY <1>1 DEF HistoryInv, QueryType, Reading, Asking, RecentFound, WellWithin, FilesRead
<1>9. Opening'
  <2> SUFFICES ASSUME query.pc = "opening", QueriedFile \in DOMAIN writtenAt, QueriedFile \notin kept
               PROVE  ~WellWithin(query.window)
      BY <1>1 DEF HistoryInv, Opening, QueriedFile, WellWithin, FilesRead
  <2>1. /\ QueriedFile.day = query.day /\ writtenAt[QueriedFile] + o < metricClock - Period
        /\ writtenAt[QueriedFile] \in Nat /\ query.day <= DayOf(writtenAt[QueriedFile])
      BY DEF QueriedFile, Stale, Period, HistoryInv, LinesKept
  <2>2. /\ query.from + query.window \in Nat /\ metricClock <= query.from + query.window + 1
        /\ query.window \in Nat /\ query.read \in Nat /\ query.day \in Nat
        /\ query.read < FilesRead(query.window)
        /\ DayOf(query.from + query.window) <= query.day + query.read
      BY HistoryNumbers DEF HistoryInv, Reading, Asking, Opening, QueryType
  <2> QED
      BY <1>2, <2>1, <2>2, FarBack
<1> QED
    BY <1>1, <1>6, <1>7, <1>8, <1>9 DEF HistoryInv

(* What is due of the days within the retention is in their files.         *)
LEMMA DueIsFiled ==
    ASSUME HistoryInv, Asking, NEW l \in query.due
    PROVE  /\ l \in metricFiles /\ FileOf(l) \in DOMAIN writtenAt /\ l.kind = query.kind
           /\ l.at >= query.from /\ l.at \in Nat /\ DayOf(l.at) \in Nat
           /\ FileOf(l) = [kind |-> query.kind, day |-> DayOf(l.at)]
<1>1. l \in measured /\ l.kind = query.kind /\ l.at >= query.from /\ l.at \in Nat
    BY DEF HistoryInv, HistoryTypeOK, Reading, QueryType, MetricLines
<1>2. /\ query.window \in Nat /\ query.from \in Int /\ metricClock \in Int
      /\ metricClock <= query.from + query.window + 1
    BY DEF HistoryInv, HistoryTypeOK, Reading, QueryType
<1>3. ASSUME NEW o \in Offsets PROVE ~(l.at + o < metricClock - Period)
  <2>1. l.at + o > query.from + query.window - Period /\ o \in Int
      BY HistoryNumbers DEF HistoryInv, Reading
  <2> QED
      BY <1>1, <1>2, <2>1, HistoryNumbers
<1>4. l \in metricFiles
    BY <1>1, <1>3 DEF HistoryInv, LinesKept
<1> QED
    BY <1>1, <1>4, ADay DEF HistoryInv, HistoryTypeOK, FileOf

LEMMA NoDayBefore ==
    ASSUME NEW n \in Nat, NEW r \in Nat, DayRead(n, r) \in Nat
    PROVE  r <= DayOf(n)
<1> DEFINE q == DayOf(n)
           k == n - r * DayTicks
           m == DayOf(k)
<1>1. q \in Nat /\ n < DayTicks * q + DayTicks /\ DayTicks \in Nat
    BY ADay
<1>2. k \in Int /\ r * DayTicks = DayTicks * r /\ DayTicks * r \in Int
    BY <1>1, DayMultiples
<1>3. m \in Nat /\ DayTicks * m <= k
    BY <1>2, DayAssumption DEF DayAssumption, DayOf, DayRead
<1>6. k = n - DayTicks * r
    BY <1>2
<1> HIDE DEF q, k, m
<1>4. DayTicks * 0 = 0 /\ DayTicks * 0 <= DayTicks * m /\ DayTicks * q \in Int /\ DayTicks * m \in Int
    BY <1>1, <1>3, DayMultiples
<1>5. q + 1 <= r => DayTicks * q + DayTicks <= DayTicks * r
  <2>1. q + 1 \in Int /\ DayTicks * (q + 1) = DayTicks * q + DayTicks
        /\ (q + 1 <= r => DayTicks * (q + 1) <= DayTicks * r)
      BY <1>1, DayMultiples
  <2> QED
      BY <2>1
<1>7. ~(q + 1 <= r)
    BY <1>1, <1>2, <1>3, <1>4, <1>5, <1>6
<1> QED
    BY <1>1, <1>7 DEF q

(* A query passes over a day without a file, of which nothing is due, or   *)
(* opens its file.                                                         *)
LEMMA FindKeeps == ASSUME HistoryInv, FindFile PROVE Reading' /\ Opening' /\ query' \in QueryType'
<1> DEFINE day == DayRead(metricClock, query.read)
           f   == [kind |-> query.kind, day |-> day]
<1>1. /\ query.pc = "reading" /\ query.read < FilesRead(query.window) /\ Asking
      /\ query \in QueryType /\ UNCHANGED <<metricClock, metricFiles, measured, writtenAt>>
    BY DEF FindFile, Asking, HistoryInv
<1>2. /\ query.window \in Windows /\ query.window \in Nat /\ metricClock \in Nat /\ query.from \in Int
      /\ query.read \in Nat /\ DayOf(metricClock) \in Nat
      /\ metricClock \in query.from + query.window .. query.from + query.window + 1
      /\ query.from + query.window \in Nat
    BY <1>1, HistoryNumbers, ADay DEF HistoryInv, HistoryTypeOK, Reading, QueryType
<1>3. CASE f \in DOMAIN writtenAt
  <2>1. query' = [query EXCEPT !.pc = "opening", !.day = day]
      BY <1>3 DEF FindFile
  <2>2. day \in Nat
      BY <1>3 DEF HistoryInv, LinesKept
  <2>3. query.read <= DayOf(metricClock)
      BY <1>2, <2>2, NoDayBefore
  <2>4. day = DayOf(metricClock) - query.read
      BY <1>2, <2>3, DayReadIs
  <2> HIDE DEF day
  <2>5. /\ query' \in QueryType' /\ query'.pc = "opening" /\ query'.kind = query.kind
        /\ query'.window = query.window /\ query'.from = query.from /\ query'.due = query.due
        /\ query'.read = query.read /\ query'.got = query.got /\ query'.day = day
    <3>1. query' \in QueryType /\ query'.pc = "opening" /\ query'.day = day
      <4>1. query'.pc = "opening" /\ query'.day = day
          BY <1>1, <2>1 DEF QueryType
      <4>2. day \in Int
          BY <2>2
      <4>3. query' \in QueryType
          BY <1>1, <2>1, <4>2 DEF QueryType
      <4> QED
          BY <4>1, <4>3
    <3>2. /\ query'.kind = query.kind /\ query'.window = query.window /\ query'.from = query.from
          /\ query'.due = query.due /\ query'.read = query.read /\ query'.got = query.got
        BY <1>1, <2>1, <2>2 DEF QueryType
    <3> QED
        BY <1>1, <3>1, <3>2 DEF QueryType
  <2>6. Reading'
      BY <1>1, <2>5 DEF HistoryInv, Reading, Asking
  <2>7. DayOf(query.from + query.window) <= DayOf(metricClock) /\ DayOf(query.from + query.window) \in Nat
      BY <1>2, DaysAscend, ADay
  <2>8. QueriedFile' \in DOMAIN writtenAt'
      BY <1>1, <1>3, <2>5 DEF QueriedFile
  <2>9. \A l \in query'.due : DayOf(l.at) > query'.day => l \in query'.got
      BY <1>1, <2>4, <2>5 DEF HistoryInv, Reading
  <2>10. /\ query'.read < FilesRead(query'.window) /\ query'.day \in Nat
         /\ query'.day + query'.read <= DayOf(metricClock')
         /\ DayOf(query'.from + query'.window) <= query'.day + query'.read
      BY <1>1, <1>2, <2>2, <2>4, <2>5, <2>7
  <2> QED
      BY <2>5, <2>6, <2>8, <2>9, <2>10 DEF Opening
<1>4. CASE f \notin DOMAIN writtenAt
  <2>1. query' = [query EXCEPT !.read = query.read + 1]
      BY <1>4 DEF FindFile
  <2>2. /\ query' \in QueryType' /\ query'.pc = "reading" /\ query'.kind = query.kind
        /\ query'.window = query.window /\ query'.from = query.from /\ query'.due = query.due
        /\ query'.read = query.read + 1 /\ query'.got = query.got
      BY <1>1, <1>2, <2>1 DEF QueryType
  <2>3. ASSUME NEW l \in query.due, DayOf(l.at) > DayOf(metricClock) - (query.read + 1)
        PROVE  l \in query.got
    <3>1. /\ FileOf(l) \in DOMAIN writtenAt /\ FileOf(l) = [kind |-> query.kind, day |-> DayOf(l.at)]
          /\ DayOf(l.at) \in Nat
        BY <1>1, DueIsFiled
    <3>2. CASE DayOf(l.at) > DayOf(metricClock) - query.read
        BY <1>1, <3>2 DEF HistoryInv, Reading
    <3>3. CASE ~(DayOf(l.at) > DayOf(metricClock) - query.read)
      <4>1. \A a, b, r \in Nat : a > b - (r + 1) /\ ~(a > b - r) => a = b - r /\ r <= b
          OBVIOUS
      <4>2. DayOf(l.at) = DayOf(metricClock) - query.read /\ query.read <= DayOf(metricClock)
          BY <1>2, <2>3, <3>1, <3>3, <4>1
      <4>3. day = DayOf(l.at)
          BY <1>2, <4>2, DayReadIs
      <4> QED
          BY <1>4, <3>1, <4>3
    <3> QED
        BY <3>2, <3>3
  <2>4. Reading'
      BY <1>1, <2>2, <2>3 DEF HistoryInv, Reading, Asking
  <2> QED
      BY <2>2, <2>4 DEF Opening
<1> QED
    BY <1>3, <1>4

(* It reads the file of one day more; what is due of it is there.  Or the  *)
(* file is gone.                                                           *)
LEMMA ReadKeeps ==
    ASSUME HistoryInv, ReadFile
    PROVE  Reading' /\ Opening' /\ RecentFound' /\ query' \in QueryType'
<1> DEFINE more == {l \in metricFiles : FileOf(l) = QueriedFile /\ l.at >= query.from}
<1>1. /\ query.pc = "opening" /\ Asking /\ query \in QueryType
      /\ UNCHANGED <<metricClock, metricFiles, measured, writtenAt>>
    BY DEF ReadFile, Asking, HistoryInv
<1>2. CASE QueriedFile \in DOMAIN writtenAt
  <2>1. query' = [query EXCEPT !.pc = "reading", !.read = query.read + 1, !.got = query.got \cup more]
      BY <1>2 DEF ReadFile, QueriedFile
  <2>2. more \subseteq measured
      BY DEF HistoryInv, HistoryTypeOK
  <2> HIDE DEF more
  <2>3. /\ query' \in QueryType' /\ query'.pc = "reading" /\ query'.kind = query.kind
        /\ query'.window = query.window /\ query'.from = query.from /\ query'.due = query.due
        /\ query'.read = query.read + 1 /\ query'.got = query.got \cup more
    <3>1. query.read + 1 \in Nat /\ query.got \cup more \in SUBSET measured
        BY <1>1, <2>2 DEF QueryType
    <3>2. query' \in QueryType /\ query'.pc = "reading" /\ query'.kind = query.kind
          /\ query'.window = query.window /\ query'.from = query.from /\ query'.due = query.due
          /\ query'.read = query.read + 1 /\ query'.got = query.got \cup more
        BY <1>1, <2>1, <3>1 DEF QueryType
    <3> QED
        BY <1>1, <3>2 DEF QueryType
  <2>4. /\ query.read \in Nat /\ query.day \in Nat /\ DayOf(metricClock) \in Nat
        /\ query.day + query.read <= DayOf(metricClock)
      BY <1>1, ADay DEF HistoryInv, HistoryTypeOK, Opening, QueryType
  <2>5. ASSUME NEW l \in query.due, DayOf(l.at) > DayOf(metricClock) - (query.read + 1)
        PROVE  l \in query'.got
    <3>1. /\ l \in metricFiles /\ l.at >= query.from /\ DayOf(l.at) \in Nat
          /\ FileOf(l) = [kind |-> query.kind, day |-> DayOf(l.at)]
        BY <1>1, DueIsFiled
    <3>2. DayOf(l.at) > query.day \/ DayOf(l.at) = query.day
        BY <2>4, <2>5, <3>1
    <3>3. CASE DayOf(l.at) > query.day
        BY <1>1, <2>3, <3>3 DEF HistoryInv, Opening
    <3>4. CASE DayOf(l.at) = query.day
      <4>1. l \in more
          BY <3>1, <3>4 DEF more, QueriedFile
      <4> QED
          BY <2>3, <4>1
    <3> QED
        BY <3>2, <3>3, <3>4
  <2>6. Reading'
    <3>1. ASSUME NEW l \in query'.due
          PROVE  /\ l.kind = query'.kind /\ l.at >= query'.from
                 /\ \A o \in Offsets : l.at + o > query'.from + query'.window - Period
        BY <1>1, <2>3 DEF HistoryInv, Reading
    <3>2. /\ query'.window \in Windows
          /\ metricClock' \in query'.from + query'.window .. query'.from + query'.window + 1
          /\ query'.from + query'.window \in Nat
        BY <1>1, <2>3 DEF HistoryInv, Reading
    <3>3. \A l \in query'.due : DayOf(l.at) > DayOf(metricClock') - query'.read => l \in query'.got
        BY <1>1, <2>3, <2>5
    <3> QED
        BY <3>1, <3>2, <3>3 DEF Reading, Period
  <2> QED
      BY <2>3, <2>6 DEF Opening, RecentFound
<1>3. CASE QueriedFile \notin DOMAIN writtenAt
  <2>1. query' = [query EXCEPT !.pc = "failed", !.got = {}]
      BY <1>3 DEF ReadFile, QueriedFile
  <2>2. query' \in QueryType' /\ query'.pc = "failed" /\ query'.window = query.window
      BY <1>1, <2>1 DEF QueryType
  <2>3. ~WellWithin(query.window)
      BY <1>1, <1>3 DEF HistoryInv, Opening
  <2> QED
      BY <2>2, <2>3 DEF Reading, Opening, Asking, RecentFound, WellWithin, FilesRead
<1> QED
    BY <1>2, <1>3

LEMMA AnswerFinds == ASSUME HistoryInv, Answer PROVE RecentFound' /\ query' \in QueryType'
<1>1. /\ query.pc = "reading" /\ query.read = FilesRead(query.window)
      /\ query' = [query EXCEPT !.pc = "answered"] /\ query \in QueryType
      /\ UNCHANGED <<metricClock, measured>>
    BY DEF Answer, HistoryInv
<1>2. query' \in QueryType /\ query'.due = query.due /\ query'.got = query.got
    BY <1>1 DEF QueryType
<1>3. /\ query.window \in Nat /\ metricClock \in Nat /\ query.from \in Int
      /\ metricClock \in query.from + query.window .. query.from + query.window + 1
    BY <1>1 DEF HistoryInv, HistoryTypeOK, Reading, Asking, QueryType
<1>4. ASSUME NEW l \in query.due PROVE l \in query.got
  <2>1. l.at >= query.from /\ l.at \in Nat
      BY <1>1 DEF HistoryInv, HistoryTypeOK, Reading, Asking, QueryType, MetricLines
  <2>2. metricClock <= l.at + query.window + 1
      BY <1>3, <2>1
  <2>3. DayOf(metricClock) < DayOf(l.at) + FilesRead(query.window) /\ FilesRead(query.window) \in Nat
      BY <1>3, <2>1, <2>2, FilesEnough
  <2>4. DayOf(l.at) \in Nat /\ DayOf(metricClock) \in Nat
      BY <1>3, <2>1, ADay
  <2>5. DayOf(l.at) > DayOf(metricClock) - query.read
      BY <1>1, <2>3, <2>4
  <2> QED
      BY <1>1, <2>5 DEF HistoryInv, Reading, Asking
<1> QED
    BY <1>1, <1>2, <1>4 DEF RecentFound, QueryType

LEMMA HistoryStep == ASSUME HistoryInv, [HistoryNext]_historyVars PROVE HistoryInv'
<1> USE HistoryNumbers
<1>1. CASE MetricTick
  <2>1. /\ metricClock \in Nat /\ metricClock' = metricClock + 1 /\ metricClock' \in 0 .. MetricHorizon
        /\ Asking => metricClock = query.from + query.window
        /\ UNCHANGED <<collectorOn, watched, round, cleanerDue, metricFiles, writtenAt, query, measured>>
      BY <1>1 DEF MetricTick, HistoryInv, HistoryTypeOK
  <2>2. HistoryTypeOK'
      BY <2>1 DEF HistoryInv, HistoryTypeOK
  <2>3. \A l \in measured : l.at \in Nat
      BY DEF HistoryInv, HistoryTypeOK, MetricLines
  <2>4. LinesKept'
    <3>1. \A l \in measured' \cup round'.lines : l.at <= metricClock'
      <4>1. \A l \in measured \cup round.lines : l.at \in Nat /\ l.at <= metricClock
          BY DEF HistoryInv, LinesKept, HistoryTypeOK, MetricLines
      <4> QED
          BY <2>1, <4>1
    <3>2. \A f \in DOMAIN writtenAt' : writtenAt'[f] \in 0 .. metricClock'
        BY <2>1 DEF HistoryInv, LinesKept
    <3>3. ASSUME NEW l \in measured'
          PROVE  l \in metricFiles' \/ \E o \in Offsets : l.at + o < metricClock' - Period
      <4>1. CASE l \in metricFiles
          BY <2>1, <4>1
      <4>2. CASE \E o \in Offsets : l.at + o < metricClock - Period
        <5>1. PICK o \in Offsets : l.at + o < metricClock - Period
            BY <4>2
        <5>2. l.at + o < metricClock' - Period
            BY <2>1, <2>3, <5>1, HistoryNumbers
        <5> QED
            BY <5>2
      <4> QED
          BY <2>1, <4>1, <4>2 DEF HistoryInv, LinesKept
    <3>5. \A f \in DOMAIN writtenAt' : f.day \in Nat /\ f.day <= DayOf(writtenAt'[f])
        BY <2>1 DEF HistoryInv, LinesKept
    <3>4. \A l \in metricFiles' : l.at <= writtenAt'[FileOf(l)]
        BY <2>1 DEF HistoryInv, LinesKept
    <3> QED
        BY <3>1, <3>2, <3>3, <3>4, <3>5 DEF LinesKept, Period
  <2>5. Reading'
    <3> SUFFICES ASSUME Asking PROVE Reading'
        BY <2>1 DEF Reading, Asking
    <3>1. query.from \in Int /\ query.window \in Nat /\ query.read \in Nat
        BY DEF HistoryInv, QueryType
    <3>2. metricClock' \in query.from + query.window .. query.from + query.window + 1
        BY <2>1, <3>1
    <3>3. ASSUME NEW l \in query.due, DayOf(l.at) > DayOf(metricClock') - query.read PROVE l \in query.got
      <4>1. l.at \in Nat
          BY <2>3 DEF HistoryInv, QueryType
      <4>2. DayOf(metricClock) <= DayOf(metricClock') /\ DayOf(metricClock) \in Nat
            /\ DayOf(metricClock') \in Nat /\ DayOf(l.at) \in Nat
          BY <2>1, <4>1, DaysAscend, ADay
      <4>3. DayOf(l.at) > DayOf(metricClock) - query.read
          BY <3>1, <3>3, <4>2
      <4> QED
          BY <4>3 DEF HistoryInv, Reading
    <3>4. ASSUME NEW l \in query.due
          PROVE  /\ l.kind = query.kind /\ l.at >= query.from
                 /\ \A o \in Offsets : l.at + o > query.from + query.window - Period
        BY DEF HistoryInv, Reading
    <3>5. query.window \in Windows /\ query.from + query.window \in Nat
        BY DEF HistoryInv, Reading
    <3> QED
        BY <2>1, <3>2, <3>3, <3>4, <3>5 DEF Reading, Period
  <2>6. Opening'
    <3> SUFFICES ASSUME query.pc = "opening" PROVE Opening'
        BY <2>1 DEF Opening
    <3>1. DayOf(metricClock) <= DayOf(metricClock') /\ DayOf(metricClock) \in Nat
          /\ DayOf(metricClock') \in Nat
        BY <2>1, DaysAscend, ADay
    <3>2. query.day + query.read <= DayOf(metricClock')
        BY <3>1 DEF HistoryInv, QueryType, Opening
    <3> QED
        BY <2>1, <3>2 DEF HistoryInv, Opening, QueriedFile, WellWithin, FilesRead
  <2> QED
      BY <2>1, <2>2, <2>4, <2>5, <2>6 DEF HistoryInv, QueryType, RecentFound, WellWithin, FilesRead
<1>2. CASE StartCollector
  <2>1. /\ UNCHANGED <<metricClock, round, metricFiles, writtenAt, query, measured>>
        /\ metricClock \in Nat /\ cleanerDue' = metricClock + DayTicks
      BY <1>2 DEF StartCollector, HistoryInv, HistoryTypeOK
  <2>2. watched' \subseteq MetricContainers /\ collectorOn' \in BOOLEAN
      BY <1>2 DEF StartCollector, Discover, HistoryInv, HistoryTypeOK
  <2>3. HistoryTypeOK'
      BY <2>1, <2>2 DEF HistoryInv, HistoryTypeOK
  <2> QED
      BY <2>1, <2>3, QueryKept DEF HistoryInv, LinesKept
<1>3. CASE StopCollector
  <2>1. /\ collectorOn' = FALSE /\ watched' = {} /\ round' = NoRound /\ cleanerDue' = -1
        /\ UNCHANGED <<metricClock, query>> /\ round'.lines = {} /\ round'.todo = {}
      BY <1>3 DEF StopCollector, NoRound
  <2>2. /\ LinesKept' /\ measured' \subseteq MetricLines /\ metricFiles' \subseteq measured'
        /\ DOMAIN writtenAt' = {FileOf(k) : k \in metricFiles'} /\ measured \subseteq measured'
        /\ DOMAIN writtenAt \subseteq DOMAIN writtenAt'
    <3>1. CASE UNCHANGED <<metricFiles, writtenAt, measured>>
        BY <2>1, <3>1 DEF HistoryInv, HistoryTypeOK, LinesKept
    <3>2. CASE \E l \in round.lines : NextLine(l) /\ WriteTo(l)
        BY <2>1, <3>2, WriteKeeps
    <3> QED
        BY <1>3, <3>1, <3>2 DEF StopCollector
  <2>3. HistoryTypeOK'
    <3>1. collectorOn' \in BOOLEAN
        BY <2>1
    <3>2. query'.got \subseteq measured'
        BY <2>1, <2>2 DEF HistoryInv, HistoryTypeOK
    <3> QED
        BY <2>1, <2>2, <3>1, <3>2 DEF HistoryInv, HistoryTypeOK
  <2>4. round' \in [todo : SUBSET MetricContainers, lines : SUBSET MetricLines]
      BY <2>1 DEF NoRound
  <2> QED
      BY <2>1, <2>2, <2>3, <2>4, QueryKept DEF HistoryInv
<1>4. CASE BeginRound \/ \E c \in MetricContainers : TakeMeasure(c)
  <2>1. UNCHANGED <<metricClock, collectorOn, cleanerDue, metricFiles, writtenAt, query, measured>>
      BY <1>4 DEF BeginRound, TakeMeasure
  <2>2. /\ watched' \subseteq MetricContainers
        /\ round' \in [todo : SUBSET MetricContainers, lines : SUBSET MetricLines]
        /\ \A l \in round'.lines : l.at <= metricClock
    <3>1. CASE BeginRound
      <4>1. watched' \subseteq MetricContainers /\ round' = [NoRound EXCEPT !.todo = watched']
          BY <3>1 DEF BeginRound, Discover, HistoryInv, HistoryTypeOK
      <4> QED
          BY <4>1 DEF NoRound
    <3>2. ASSUME NEW c \in MetricContainers, TakeMeasure(c)
          PROVE  /\ watched' \subseteq MetricContainers
                 /\ round' \in [todo : SUBSET MetricContainers, lines : SUBSET MetricLines]
                 /\ \A l \in round'.lines : l.at <= metricClock
      <4>1. PICK kinds \in {{}, {"metric"}, LineKinds} :
               round' = [todo  |-> round.todo \ {c},
                         lines |-> {[kind |-> k, of |-> c, at |-> metricClock] : k \in kinds}]
          BY <3>2 DEF TakeMeasure
      <4>2. kinds \subseteq LineKinds /\ metricClock \in 0 .. MetricHorizon /\ round.todo \subseteq MetricContainers
            /\ watched' = watched /\ watched \subseteq MetricContainers
          BY <3>2 DEF LineKinds, HistoryInv, HistoryTypeOK, TakeMeasure
      <4>3. \A k \in kinds : /\ [kind |-> k, of |-> c, at |-> metricClock] \in MetricLines
                            /\ [kind |-> k, of |-> c, at |-> metricClock].at = metricClock
          BY <4>2 DEF MetricLines
      <4> QED
          BY <4>1, <4>2, <4>3
    <3> QED
        BY <1>4, <3>1, <3>2
  <2>3. HistoryTypeOK'
      BY <2>1, <2>2 DEF HistoryInv, HistoryTypeOK
  <2>4. LinesKept'
      BY <2>1, <2>2 DEF HistoryInv, LinesKept
  <2> QED
      BY <2>1, <2>2, <2>3, <2>4, QueryKept DEF HistoryInv
<1>5. CASE WriteLine
  <2>1. PICK l \in round.lines : WriteTo(l) /\ round' = [round EXCEPT !.lines = round.lines \ {l}]
      BY <1>5 DEF WriteLine
  <2>2. UNCHANGED <<metricClock, collectorOn, watched, cleanerDue, query>>
      BY <1>5 DEF WriteLine
  <2>3. /\ round' \in [todo : SUBSET MetricContainers, lines : SUBSET MetricLines]
        /\ round'.lines \subseteq round.lines
      BY <2>1 DEF HistoryInv
  <2>4. /\ LinesKept' /\ measured' \subseteq MetricLines /\ metricFiles' \subseteq measured'
        /\ DOMAIN writtenAt' = {FileOf(k) : k \in metricFiles'} /\ measured \subseteq measured'
        /\ DOMAIN writtenAt \subseteq DOMAIN writtenAt'
      BY <2>1, <2>2, <2>3, WriteKeeps
  <2>5. HistoryTypeOK'
      BY <2>2, <2>3, <2>4 DEF HistoryInv, HistoryTypeOK
  <2> QED
      BY <2>2, <2>3, <2>4, <2>5, QueryKept DEF HistoryInv
<1>6. CASE CleanFiles
    BY <1>6, CleanKeeps
<1>7. ASSUME query' \in QueryType' /\ Reading' /\ Opening' /\ RecentFound',
             UNCHANGED <<metricClock, collectorOn, watched, round, cleanerDue, metricFiles,
                         writtenAt, measured>>
      PROVE  HistoryInv'
  <2>1. query'.pc \in {"none", "reading", "opening", "answered", "failed"} /\ query'.got \subseteq measured'
      BY <1>7 DEF QueryType
  <2>2. HistoryTypeOK'
      BY <1>7, <2>1 DEF HistoryInv, HistoryTypeOK
  <2>3. LinesKept'
      BY <1>7 DEF HistoryInv, LinesKept
  <2> QED
      BY <1>7, <2>2, <2>3 DEF HistoryInv
<1>8. ASSUME NEW kind \in LineKinds, NEW window \in Windows, AskRecent(kind, window) PROVE HistoryInv'
  <2> DEFINE due == {l \in measured : /\ l.kind = kind /\ l.at >= metricClock - window
                                      /\ Retained(l)}
  <2>1. /\ query' = [NoQuery EXCEPT !.pc = "reading", !.kind = kind, !.window = window,
                                    !.from = metricClock - window, !.due = due]
        /\ UNCHANGED <<metricClock, collectorOn, watched, round, cleanerDue, metricFiles,
                       writtenAt, measured>>
      BY <1>8 DEF AskRecent
  <2>2. window \in Nat /\ metricClock \in Nat /\ due \subseteq measured
        /\ \A l \in due : /\ l.kind = kind /\ l.at >= metricClock - window
                          /\ \A o \in Offsets : l.at + o > metricClock - Period
      BY HistoryNumbers DEF HistoryInv, HistoryTypeOK, Retained, Period
  <2> HIDE DEF due
  <2>3. /\ query'.pc = "reading" /\ query'.kind = kind /\ query'.window = window
        /\ query'.from = metricClock - window /\ query'.due = due /\ query'.got = {} /\ query'.read = 0
        /\ query' \in QueryType'
    <3>1. NoQuery \in QueryType
        BY DEF NoQuery, QueryType, LineKinds
    <3>2. metricClock - window \in Int
        BY <2>2
    <3>3. query' \in QueryType
        BY <2>1, <2>2, <3>1, <3>2 DEF QueryType
    <3> QED
        BY <2>1, <3>1, <3>3 DEF QueryType, NoQuery
  <2>4. ASSUME NEW l \in due PROVE ~(DayOf(l.at) > DayOf(metricClock) - 0)
    <3>1. l.at \in Nat /\ l.at <= metricClock
        BY <2>2 DEF HistoryInv, HistoryTypeOK, LinesKept, MetricLines
    <3>2. DayOf(l.at) <= DayOf(metricClock) /\ DayOf(l.at) \in Nat /\ DayOf(metricClock) \in Nat
        BY <2>2, <3>1, DaysAscend, ADay
    <3> QED
        BY <3>2
  <2>5. Reading' /\ Opening' /\ RecentFound'
    <3>1. /\ metricClock' \in query'.from + query'.window .. query'.from + query'.window + 1
          /\ query'.from + query'.window = metricClock /\ metricClock' = metricClock
        BY <2>1, <2>2, <2>3
    <3>2. Opening' /\ RecentFound'
        BY <2>3 DEF Opening, RecentFound
    <3>3. ASSUME NEW l \in query'.due
          PROVE  /\ l.kind = query'.kind /\ l.at >= query'.from
                 /\ \A o \in Offsets : l.at + o > query'.from + query'.window - Period
                 /\ ~(DayOf(l.at) > DayOf(metricClock') - query'.read)
        BY <2>2, <2>3, <2>4, <3>1
    <3> QED
        BY <2>2, <2>3, <3>1, <3>2, <3>3 DEF Reading, Period
  <2> QED
      BY <1>7, <2>1, <2>3, <2>5
<1>9. CASE FindFile \/ ReadFile
  <2>1. UNCHANGED <<metricClock, collectorOn, watched, round, cleanerDue, metricFiles,
                    writtenAt, measured>>
      BY <1>9 DEF FindFile, ReadFile
  <2>2. CASE FindFile
    <3>1. query'.pc \notin {"answered", "failed"}
        BY <2>2 DEF FindFile, HistoryInv, QueryType
    <3>2. RecentFound'
        BY <3>1 DEF RecentFound
    <3> QED
        BY <1>7, <2>1, <2>2, <3>2, FindKeeps
  <2>3. CASE ReadFile
      BY <1>7, <2>1, <2>3, ReadKeeps
  <2> QED
      BY <1>9, <2>2, <2>3
<1>10. CASE Answer \/ Answered
  <2>1. /\ query'.pc \notin {"reading", "opening"}
        /\ UNCHANGED <<metricClock, collectorOn, watched, round, cleanerDue, metricFiles,
                       writtenAt, measured>>
      BY <1>10 DEF Answer, Answered, HistoryInv, QueryType, NoQuery
  <2>2. query' \in QueryType' /\ RecentFound'
    <3>1. CASE Answer
        BY <3>1, AnswerFinds
    <3>2. CASE Answered
      <4>1. NoQuery \in QueryType' /\ NoQuery.pc = "none"
          BY DEF NoQuery, QueryType, LineKinds
      <4> QED
          BY <3>2, <4>1 DEF Answered, RecentFound
    <3> QED
        BY <1>10, <3>1, <3>2
  <2>3. Reading' /\ Opening'
      BY <2>1 DEF Reading, Opening, Asking
  <2> QED
      BY <1>7, <2>1, <2>2, <2>3
<1>11. CASE UNCHANGED historyVars
  <2>1. HistoryTypeOK' /\ LinesKept'
      BY <1>11 DEF historyVars, HistoryInv, HistoryTypeOK, LinesKept
  <2> QED
      BY <1>11, <2>1, QueryKept DEF historyVars, HistoryInv
<1> QED
    BY <1>1, <1>2, <1>3, <1>4, <1>5, <1>6, <1>8, <1>9, <1>10, <1>11 DEF HistoryNext

(***************************************************************************)
(* The analysis of the trends.                                             *)
(***************************************************************************)

PassType == [pc : {"sleep", "store", "recent", "read", "told", "cut"}, trends : SUBSET Trends,
             from : Int, read : Nat, got : SUBSET Trends, began : Nat]

(* A pass sees one tick at most, and its trends carry the time it began.   *)
Passing ==
    /\ pass \in PassType
    /\ pass.pc # "sleep" => passes \in 1 .. Passes /\ analysisClock \in pass.began .. pass.began + 1
    /\ pass.pc \in {"store", "recent"} => pass.read = 0
    /\ \A t \in pass.trends : t.at = pass.began

(* A trend is in the file of its day, or of a later one.                   *)
Filed == \A s \in trendFiles : /\ s.trend \in Trends /\ s.trend.at <= analysisClock
                              /\ s.day \in DayOf(s.trend.at) .. DayOf(analysisClock)

(* The trends due to a pass are on the days it has read or on those before. *)
Gathering ==
    pass.pc = "read" =>
        /\ pass.began <= pass.from + TrendWindow /\ pass.from + TrendWindow <= analysisClock
        /\ \A s \in trendFiles :
              s.trend.at >= pass.from /\ s.day > DayOf(analysisClock) - pass.read => s.trend \in pass.got

AnalysisInv ==
    /\ analysisClock \in 0 .. AnalysisHorizon /\ analysing \in BOOLEAN /\ passes \in 0 .. Passes
    /\ advice \subseteq [pass : 1 .. Passes, trend : Trends]
    /\ Passing /\ Filed /\ Gathering /\ PassRecommends

LEMMA AnalysisNumbers ==
    TrendWindow \in Nat /\ Passes \in Nat /\ AnalysisHorizon \in Nat
    BY AnalysisAssumption DEF AnalysisAssumption

LEMMA NoPassIsPass ==
    /\ NoPass \in PassType /\ NoPass.pc = "sleep" /\ NoPass.trends = {} /\ NoPass.got = {}
    /\ NoPass.read = 0
    BY DEF NoPass, PassType

LEMMA AnalysisInitially == AnalysisInit => AnalysisInv
<1> SUFFICES ASSUME AnalysisInit PROVE AnalysisInv
    OBVIOUS
<1>1. analysing \in BOOLEAN
    BY DEF AnalysisInit
<1> QED
    BY <1>1, NoPassIsPass, AnalysisNumbers
    DEF AnalysisInit, AnalysisInv, Passing, Filed, Gathering, PassRecommends

LEMMA AnalysisTyped == AnalysisInv => AnalysisTypeOK
<1> SUFFICES ASSUME AnalysisInv PROVE AnalysisTypeOK
    OBVIOUS
<1>1. ASSUME NEW s \in trendFiles PROVE s.trend \in Trends /\ s.day \in 0 .. DayOf(AnalysisHorizon)
  <2>1. s.trend \in Trends /\ s.trend.at \in Nat /\ s.day \in DayOf(s.trend.at) .. DayOf(analysisClock)
      BY DEF AnalysisInv, Filed, Trends
  <2>2. analysisClock \in Nat /\ AnalysisHorizon \in Nat /\ analysisClock <= AnalysisHorizon
      BY AnalysisNumbers DEF AnalysisInv
  <2>3. /\ DayOf(s.trend.at) \in Nat /\ DayOf(analysisClock) \in Nat /\ DayOf(AnalysisHorizon) \in Nat
        /\ DayOf(analysisClock) <= DayOf(AnalysisHorizon)
      BY <2>1, <2>2, ADay, DaysAscend
  <2> QED
      BY <2>1, <2>3
<1>2. pass.pc \in {"sleep", "store", "recent", "read", "told", "cut"}
      /\ {pass.trends, pass.got} \subseteq SUBSET Trends
    BY DEF AnalysisInv, Passing, PassType
<1> QED
    BY <1>1, <1>2 DEF AnalysisInv, AnalysisTypeOK

(* Trends of a pass are filed.                                             *)
LEMMA StoringFiles ==
    ASSUME AnalysisInv, NEW written \in SUBSET Unstored, UNCHANGED analysisClock,
           trendFiles' = trendFiles \cup StoredToday(written)
    PROVE  Filed'
<1>1. ASSUME NEW t \in written
      PROVE  /\ t \in Trends /\ t.at <= analysisClock
             /\ DayOf(analysisClock) \in DayOf(t.at) .. DayOf(analysisClock)
  <2>1. t \in Trends /\ t.at = pass.began /\ analysisClock \in pass.began .. pass.began + 1
        /\ pass.began \in Nat
      BY DEF Unstored, AnalysisInv, Passing, PassType
  <2>2. DayOf(t.at) <= DayOf(analysisClock) /\ DayOf(t.at) \in Nat /\ DayOf(analysisClock) \in Nat
      BY <2>1, DaysAscend, ADay
  <2> QED
      BY <2>1, <2>2
<1>2. ASSUME NEW s \in trendFiles'
      PROVE  /\ s.trend \in Trends /\ s.trend.at <= analysisClock
             /\ s.day \in DayOf(s.trend.at) .. DayOf(analysisClock)
  <2>1. CASE s \in trendFiles
      BY <2>1 DEF AnalysisInv, Filed
  <2>2. CASE s \in StoredToday(written)
    <3>1. PICK t \in written : s = [day |-> DayOf(analysisClock), trend |-> t]
        BY <2>2 DEF StoredToday
    <3> QED
        BY <1>1, <3>1
  <2> QED
      BY <2>1, <2>2
<1> QED
    BY <1>2 DEF Filed

LEMMA UnadvisedTyped ==
    ASSUME AnalysisInv PROVE Unadvised \subseteq [pass : 1 .. Passes, trend : Trends]
    BY DEF AnalysisInv, Unadvised, AllRead, Passing, PassType

LEMMA AnalysisStep == ASSUME AnalysisInv, [AnalysisNext]_analysisVars PROVE AnalysisInv'
<1> USE AnalysisNumbers
<1>1. CASE AnalysisTick
  <2>1. /\ analysisClock \in Nat /\ analysisClock' = analysisClock + 1 /\ analysisClock' \in 0 .. AnalysisHorizon
        /\ pass.pc # "sleep" => analysisClock = pass.began
        /\ UNCHANGED <<analysing, pass, passes, trendFiles, advice>>
      BY <1>1 DEF AnalysisTick, AnalysisInv
  <2>2. DayOf(analysisClock) <= DayOf(analysisClock') /\ DayOf(analysisClock) \in Nat
        /\ DayOf(analysisClock') \in Nat
      BY <2>1, DaysAscend, ADay
  <2>3. Passing'
      BY <2>1 DEF AnalysisInv, Passing, PassType
  <2>4. \A s \in trendFiles : s.trend.at \in Nat /\ DayOf(s.trend.at) \in Nat /\ s.day \in Nat
    <3>1. \A s \in trendFiles : s.trend.at \in Nat /\ s.day \in DayOf(s.trend.at) .. DayOf(analysisClock)
        BY DEF AnalysisInv, Filed, Trends
    <3> QED
        BY <2>2, <3>1, ADay
  <2>5. Filed'
      BY <2>1, <2>2, <2>4 DEF AnalysisInv, Filed
  <2>6. Gathering'
    <3> SUFFICES ASSUME pass.pc = "read" PROVE Gathering'
        BY <2>1 DEF Gathering
    <3>1. pass.from \in Int /\ pass.read \in Nat /\ pass.began \in Nat
        BY DEF AnalysisInv, Passing, PassType
    <3>2. pass.from + TrendWindow <= analysisClock'
        BY <2>1, <3>1 DEF AnalysisInv, Gathering
    <3>3. \A s \in trendFiles : s.day > DayOf(analysisClock') - pass.read
                                  => s.day > DayOf(analysisClock) - pass.read
        BY <2>2, <2>4, <3>1
    <3> QED
        BY <2>1, <3>2, <3>3 DEF AnalysisInv, Gathering
  <2> QED
      BY <2>1, <2>3, <2>5, <2>6 DEF AnalysisInv, PassRecommends
<1>2. CASE StartAnalysis
  <2>1. analysing' \in BOOLEAN /\ UNCHANGED <<analysisClock, pass, passes, trendFiles, advice>>
      BY <1>2 DEF StartAnalysis
  <2> QED
      BY <2>1 DEF AnalysisInv, Passing, Filed, Gathering, PassRecommends
<1>3. CASE StopAnalysis
  <2>1. /\ analysing' \in BOOLEAN /\ pass' = NoPass /\ UNCHANGED <<analysisClock, passes>>
      BY <1>3 DEF StopAnalysis
  <2>2. Filed'
      BY <1>3, StoringFiles DEF StopAnalysis
  <2>3. advice' \subseteq [pass : 1 .. Passes, trend : Trends]
      BY <1>3, UnadvisedTyped DEF StopAnalysis, AnalysisInv
  <2> QED
      BY <2>1, <2>2, <2>3, NoPassIsPass DEF AnalysisInv, Passing, Gathering, PassRecommends
<1>4. CASE WorkOutTrends
  <2>1. PICK cs \in SUBSET Analysed, telling \in SUBSET Analysed :
           pass' = [NoPass EXCEPT
                !.pc = IF cs = {} THEN "recent" ELSE "store", !.began = analysisClock,
                !.trends = {[of |-> c, pass |-> passes', at |-> analysisClock,
                             telling |-> c \in telling] : c \in cs}]
      BY <1>4 DEF WorkOutTrends
  <2>2. /\ passes' = passes + 1 /\ passes' \in 1 .. Passes /\ analysisClock \in 0 .. AnalysisHorizon
        /\ UNCHANGED <<analysisClock, analysing, trendFiles, advice>>
      BY <1>4 DEF WorkOutTrends, AnalysisInv
  <2> DEFINE new == {[of |-> c, pass |-> passes', at |-> analysisClock, telling |-> c \in telling] : c \in cs}
  <2>3. new \in SUBSET Trends /\ \A t \in new : t.at = analysisClock
    <3>1. \A c \in Analysed, n \in 1 .. Passes, at \in 0 .. AnalysisHorizon, tell \in BOOLEAN :
             [of |-> c, pass |-> n, at |-> at, telling |-> tell] \in Trends
        BY Zenon DEF Trends
    <3>2. \A c \in cs : [of |-> c, pass |-> passes', at |-> analysisClock, telling |-> c \in telling] \in Trends
      <4> SUFFICES ASSUME NEW c \in cs
                   PROVE  [of |-> c, pass |-> passes', at |-> analysisClock, telling |-> c \in telling] \in Trends
          OBVIOUS
      <4>1. c \in Analysed /\ passes' \in 1 .. Passes /\ analysisClock \in 0 .. AnalysisHorizon
          BY <2>2
      <4>2. (c \in telling) \in BOOLEAN
          OBVIOUS
      <4> QED
          BY <3>1, <4>1, <4>2, Zenon
    <3>3. \A c \in cs : [of |-> c, pass |-> passes', at |-> analysisClock,
                        telling |-> c \in telling].at = analysisClock
        BY Zenon
    <3> QED
        BY <3>2, <3>3, Zenon
  <2> HIDE DEF new
  <2>4. /\ pass' \in PassType /\ pass'.pc \in {"recent", "store"} /\ pass'.began = analysisClock
        /\ pass'.trends = new /\ pass'.read = 0
    <3>1. PICK pc \in {"recent", "store"} : pc = IF cs = {} THEN "recent" ELSE "store"
        OBVIOUS
    <3>2. pass' = [NoPass EXCEPT !.pc = pc, !.began = analysisClock, !.trends = new]
        BY <2>1, <3>1, Zenon DEF new
    <3>3. analysisClock \in Nat
        BY <2>2
    <3> QED
        BY <2>3, <3>2, <3>3, NoPassIsPass DEF PassType
  <2>5. Passing'
      BY <2>2, <2>3, <2>4 DEF Passing, PassType, Trends
  <2> QED
      BY <2>2, <2>4, <2>5 DEF AnalysisInv, Filed, Gathering, PassRecommends
<1>5. CASE StoreTrends
  <2>1. /\ pass.pc = "store" /\ pass' = [pass EXCEPT !.pc = "recent"]
        /\ UNCHANGED <<analysisClock, analysing, passes, advice>>
      BY <1>5 DEF StoreTrends
  <2>2. Filed'
      BY <1>5, StoringFiles DEF StoreTrends
  <2>3. /\ pass' \in PassType /\ pass'.pc = "recent" /\ pass'.began = pass.began
        /\ pass'.trends = pass.trends /\ pass'.read = 0
      BY <2>1 DEF AnalysisInv, Passing, PassType
  <2>4. Passing'
      BY <2>1, <2>3 DEF AnalysisInv, Passing, PassType, Trends
  <2> QED
      BY <2>1, <2>2, <2>3, <2>4 DEF AnalysisInv, Gathering, PassRecommends
<1>6. CASE ReadRecent
  <2>1. /\ pass.pc = "recent" /\ UNCHANGED <<analysisClock, analysing, passes, trendFiles, advice>>
        /\ pass' = [pass EXCEPT !.pc = "read", !.from = analysisClock - TrendWindow]
        /\ analysisClock \in Nat /\ analysisClock - TrendWindow \in Int
      BY <1>6 DEF ReadRecent, AnalysisInv
  <2>2. /\ pass' \in PassType /\ pass'.pc = "read" /\ pass'.from = analysisClock - TrendWindow
        /\ pass'.began = pass.began /\ pass'.trends = pass.trends /\ pass'.read = pass.read
      BY <2>1 DEF AnalysisInv, Passing, PassType
  <2>3. Passing'
      BY <2>1, <2>2 DEF AnalysisInv, Passing, PassType, Trends
  <2>4. Gathering'
    <3>1. pass.read = 0 /\ pass.began \in Nat /\ pass.began <= analysisClock
        BY <2>1 DEF AnalysisInv, Passing, PassType
    <3>2. (analysisClock - TrendWindow) + TrendWindow = analysisClock
        BY <2>1
    <3>3. \A s \in trendFiles : ~(s.day > DayOf(analysisClock) - 0)
      <4> SUFFICES ASSUME NEW s \in trendFiles PROVE ~(s.day > DayOf(analysisClock) - 0)
          OBVIOUS
      <4>1. s.day \in DayOf(s.trend.at) .. DayOf(analysisClock) /\ s.trend.at \in Nat
          BY DEF AnalysisInv, Filed, Trends
      <4>2. DayOf(s.trend.at) \in Nat /\ DayOf(analysisClock) \in Nat
          BY <2>1, <4>1, ADay
      <4> QED
          BY <4>1, <4>2
    <3> QED
        BY <2>1, <2>2, <3>1, <3>2, <3>3 DEF Gathering
  <2> QED
      BY <2>1, <2>2, <2>3, <2>4 DEF AnalysisInv, Filed, PassRecommends
<1>7. CASE ReadTrendFile
  <2> DEFINE more == {s.trend : s \in {r \in trendFiles :
                                      /\ r.day = DayRead(analysisClock, pass.read)
                                      /\ r.trend.at >= pass.from}}
  <2>1. /\ pass.pc = "read" /\ UNCHANGED <<analysisClock, analysing, passes, trendFiles, advice>>
        /\ pass' = [pass EXCEPT !.read = pass.read + 1, !.got = pass.got \cup more]
        /\ analysisClock \in Nat
      BY <1>7 DEF ReadTrendFile, AnalysisInv
  <2>2. /\ more \subseteq Trends
        /\ \A s \in trendFiles : s.day = DayRead(analysisClock, pass.read) /\ s.trend.at >= pass.from
                                  => s.trend \in more
      BY DEF AnalysisInv, Filed
  <2> HIDE DEF more
  <2>3. /\ pass' \in PassType /\ pass'.pc = "read" /\ pass'.from = pass.from /\ pass'.began = pass.began
        /\ pass'.trends = pass.trends /\ pass'.read = pass.read + 1 /\ pass'.got = pass.got \cup more
        /\ pass.read \in Nat
    <3>1. pass \in PassType /\ pass.read + 1 \in Nat /\ pass.got \cup more \in SUBSET Trends
        BY <2>2 DEF AnalysisInv, Passing, PassType
    <3>2. pass' \in PassType
        BY <2>1, <3>1 DEF PassType
    <3> QED
        BY <2>1, <3>1, <3>2 DEF PassType
  <2>4. Passing'
      BY <2>1, <2>3 DEF AnalysisInv, Passing, PassType, Trends
  <2>5. ASSUME NEW s \in trendFiles, s.trend.at >= pass.from, s.day > DayOf(analysisClock) - (pass.read + 1)
        PROVE  s.trend \in pass'.got
    <3>1. s.day \in DayOf(s.trend.at) .. DayOf(analysisClock) /\ s.trend.at \in Nat
        BY DEF AnalysisInv, Filed, Trends
    <3>2. s.day \in Nat /\ DayOf(analysisClock) \in Nat
        BY <2>1, <3>1, ADay
    <3>3. CASE s.day > DayOf(analysisClock) - pass.read
        BY <2>1, <2>3, <2>5, <3>3 DEF AnalysisInv, Gathering
    <3>4. CASE ~(s.day > DayOf(analysisClock) - pass.read)
      <4>1. \A a, b, r \in Nat : a > b - (r + 1) /\ ~(a > b - r) => a = b - r /\ r <= b
          OBVIOUS
      <4>2. s.day = DayOf(analysisClock) - pass.read /\ pass.read <= DayOf(analysisClock)
          BY <2>3, <2>5, <3>2, <3>4, <4>1
      <4>3. s.day = DayRead(analysisClock, pass.read)
          BY <2>1, <2>3, <4>2, DayReadIs
      <4> QED
          BY <2>2, <2>3, <2>5, <4>3
    <3> QED
        BY <3>3, <3>4
  <2>6. Gathering'
      BY <2>1, <2>3, <2>5 DEF AnalysisInv, Gathering
  <2> QED
      BY <2>1, <2>3, <2>4, <2>6 DEF AnalysisInv, Filed, PassRecommends
<1>8. CASE Recommend
  <2>1. /\ AllRead /\ advice' \subseteq advice \cup Unadvised
        /\ \/ pass' = [pass EXCEPT !.pc = "told"] /\ advice' = advice \cup Unadvised
           \/ pass' = [pass EXCEPT !.pc = "cut"]
        /\ UNCHANGED <<analysisClock, analysing, passes, trendFiles>>
      BY <1>8 DEF Recommend
  <2>2. /\ pass' \in PassType /\ pass'.pc \in {"told", "cut"} /\ pass'.from = pass.from /\ pass'.began = pass.began
        /\ pass'.trends = pass.trends
      BY <2>1 DEF AnalysisInv, Passing, PassType
  <2>3. Passing'
      BY <2>1, <2>2 DEF AnalysisInv, Passing, AllRead, PassType, Trends
  <2>4. ASSUME NEW s \in trendFiles, s.trend.at >= pass.from PROVE s.trend \in pass.got
    <3>1. /\ pass.pc = "read" /\ pass.read = FilesRead(TrendWindow)
        BY <2>1 DEF AllRead
    <3>2. /\ s.day \in DayOf(s.trend.at) .. DayOf(analysisClock) /\ s.trend.at \in Nat
          /\ analysisClock \in Nat /\ pass.began \in Nat /\ pass.from \in Int
          /\ analysisClock \in pass.began .. pass.began + 1 /\ pass.began <= pass.from + TrendWindow
        BY <3>1 DEF AnalysisInv, Filed, Trends, Passing, PassType, Gathering
    <3>3. analysisClock <= s.trend.at + TrendWindow + 1
        BY <2>4, <3>2
    <3>4. /\ DayOf(analysisClock) < DayOf(s.trend.at) + FilesRead(TrendWindow)
          /\ FilesRead(TrendWindow) \in Nat
        BY <3>2, <3>3, FilesEnough
    <3>5. DayOf(s.trend.at) \in Nat /\ DayOf(analysisClock) \in Nat
        BY <3>2, ADay
    <3>6. s.day > DayOf(analysisClock) - pass.read
        BY <3>1, <3>2, <3>4, <3>5
    <3> QED
        BY <2>4, <3>1, <3>6 DEF AnalysisInv, Gathering
  <2>5. PassRecommends'
    <3>1. CASE pass' = [pass EXCEPT !.pc = "told"] /\ advice' = advice \cup Unadvised
        BY <2>1, <2>2, <2>4, <3>1 DEF PassRecommends, Unadvised
    <3>2. CASE pass' = [pass EXCEPT !.pc = "cut"]
      <4>1. pass'.pc = "cut"
          BY <3>2 DEF AnalysisInv, Passing, PassType
      <4> QED
          BY <4>1 DEF PassRecommends
    <3> QED
        BY <2>1, <3>1, <3>2
  <2>6. advice' \subseteq [pass : 1 .. Passes, trend : Trends]
      BY <2>1, UnadvisedTyped DEF AnalysisInv
  <2> QED
      BY <2>1, <2>2, <2>3, <2>5, <2>6 DEF AnalysisInv, Filed, Gathering
<1>9. CASE EndPass
  <2>1. pass' = NoPass /\ UNCHANGED <<analysisClock, analysing, passes, trendFiles, advice>>
      BY <1>9 DEF EndPass
  <2> QED
      BY <2>1, NoPassIsPass DEF AnalysisInv, Passing, Filed, Gathering, PassRecommends
<1>10. CASE UNCHANGED analysisVars
    BY <1>10 DEF analysisVars, AnalysisInv, Passing, PassType, Filed, Gathering, PassRecommends
<1> QED
    BY <1>1, <1>2, <1>3, <1>4, <1>5, <1>6, <1>7, <1>8, <1>9, <1>10 DEF AnalysisNext
===============================================================================
