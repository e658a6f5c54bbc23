-------------------------- MODULE RateLimitProofs --------------------------
(***************************************************************************)
(* Proofs about the three strategies of the rate limits, for every rule    *)
(* and every length of a behaviour: the sliding window in memory grants no *)
(* more than its limit; the fixed window and the token bucket no more than *)
(* their stores count, for each of the two stores; and a client that waits *)
(* as long as it was told to is granted its request.                       *)
(***************************************************************************)
EXTENDS RateLimit, FiniteSetTheorems, TLAPS

Grant == [time: Nat, for: {"request", "headers"}]

(* The grants are in the past.                                             *)
Past ==
    /\ now \in Nat
    /\ grants \in Seq(Grant)
    /\ \A i \in DOMAIN grants : grants[i].time <= now

(* The list holds every grant that is still in the window, and at most     *)
(* Requests of them.                                                       *)
ListInv ==
    strategy = "sliding" /\ backend = "memory" =>
        /\ log \subseteq DOMAIN grants
        /\ \A i \in DOMAIN grants \ log : grants[i].time <= now - Window
        /\ Cardinality(log) <= Requests

SlidingInv == Past /\ ListInv /\ SlidingBound

USE RateAssumption DEF RateAssumption

LEMMA GrantsHaveTimes ==
    ASSUME Past PROVE \A i \in DOMAIN grants : grants[i].time \in Nat
<1>1. \A i \in DOMAIN grants : grants[i] \in Grant
    BY DEF Past
<1> QED
    BY <1>1 DEF Grant

LEMMA SlidingInit == RateInit => SlidingInv
<1> SUFFICES ASSUME RateInit PROVE SlidingInv
    OBVIOUS
<1> USE DEF RateInit
<1>1. Past
    BY DEF Past
<1>2. Cardinality({}) = 0
    BY FS_EmptySet
<1>3. ListInv
    BY <1>2 DEF ListInv
<1>4. ASSUME NEW t \in 0 .. MaxTime
      PROVE  Cardinality(GrantsUpTo(t)) <= Requests
    <2>1. GrantsUpTo(t) = {}
        BY DEF GrantsUpTo
    <2> QED
        BY <1>2, <2>1
<1>5. SlidingBound
    BY <1>4 DEF SlidingBound
<1> QED
    BY <1>1, <1>3, <1>5 DEF SlidingInv

(* Appending a grant of this second keeps the grants in the past.          *)
LEMMA GrantedKeepsPast ==
    ASSUME Past, NEW purpose \in {"request", "headers"}, Granted(purpose), now' = now
    PROVE  /\ Past'
           /\ DOMAIN grants' = DOMAIN grants \cup {Len(grants) + 1}
           /\ \A i \in DOMAIN grants : grants'[i] = grants[i]
           /\ grants'[Len(grants) + 1].time = now
           /\ Len(grants) + 1 \notin DOMAIN grants
    BY DEF Past, Granted, Grant

(* The list after a check is finite and within the limit.                  *)
LEMMA ListStaysBounded ==
    ASSUME Past, log \subseteq DOMAIN grants, Cardinality(log) <= Requests,
           NEW ok \in BOOLEAN, MemorySliding(ok)
    PROVE  /\ IsFiniteSet(log')
           /\ Cardinality(log') <= Requests
<1>1. DOMAIN grants = 1 .. Len(grants) /\ Len(grants) \in Int
    BY DEF Past
<1>2. IsFiniteSet(DOMAIN grants)
    BY <1>1, FS_Interval
<1>7. IsFiniteSet(log)
    BY <1>2, FS_Subset
<1>3. /\ IsFiniteSet(Live)
      /\ Cardinality(Live) <= Cardinality(log)
    BY <1>7, FS_Subset DEF Live
<1>4. Cardinality(Live) \in Nat /\ Cardinality(log) \in Nat
    BY <1>7, <1>3, FS_CardinalityType
<1>5. CASE ok
    <2>1. log' = Live \cup {Len(grants) + 1} /\ Cardinality(Live) < Requests
        BY <1>5 DEF MemorySliding
    <2>2. /\ IsFiniteSet(Live \cup {Len(grants) + 1})
          /\ Cardinality(Live \cup {Len(grants) + 1}) <= Cardinality(Live) + 1
        <3> DEFINE x == Len(grants) + 1
        <3>1. /\ IsFiniteSet(Live \cup {x})
              /\ Cardinality(Live \cup {x}) =
                     IF x \in Live THEN Cardinality(Live) ELSE Cardinality(Live) + 1
            <4> HIDE DEF x
            <4> QED
                BY <1>3, FS_AddElement
        <3> QED
            BY <1>4, <3>1
    <2> QED
        BY <1>4, <2>1, <2>2, FS_CardinalityType
<1>6. CASE ~ok
    BY <1>3, <1>4, <1>6 DEF MemorySliding
<1> QED
    BY <1>5, <1>6

(* A check of the sliding window in memory.                                *)
LEMMA CheckKeepsSliding ==
    ASSUME SlidingInv, NEW purpose \in {"request", "headers"}, NEW ok \in BOOLEAN,
           Check(purpose, ok)
    PROVE  SlidingInv'
<1> now' = now /\ strategy' = strategy /\ backend' = backend /\ now \in Nat
    BY DEF Check, SlidingInv, Past
<1>1. ok => Granted(purpose)
    BY DEF Check
<1>2. ~ok => grants' = grants
    BY DEF Check, RefusedBy
<1>3. Past'
    BY <1>1, <1>2, GrantedKeepsPast DEF SlidingInv, Past
<1>4. CASE ~(strategy = "sliding" /\ backend = "memory")
    BY <1>3, <1>4 DEF SlidingInv, ListInv, SlidingBound
<1>5. CASE strategy = "sliding" /\ backend = "memory"
    <2>1. MemorySliding(ok)
        BY <1>5 DEF Check, Decides, InMemory
    <2>2. /\ log \subseteq DOMAIN grants
          /\ \A i \in DOMAIN grants \ log : grants[i].time <= now - Window
          /\ Cardinality(log) <= Requests
          /\ \A i \in DOMAIN grants : grants[i].time \in Nat
          /\ Past
        BY <1>5, GrantsHaveTimes DEF SlidingInv, ListInv
    <2>3. IsFiniteSet(log') /\ Cardinality(log') <= Requests
        BY <2>1, <2>2, ListStaysBounded
    <2>4. CASE ok
        <3>1. /\ DOMAIN grants' = DOMAIN grants \cup {Len(grants) + 1}
              /\ \A i \in DOMAIN grants : grants'[i] = grants[i]
              /\ grants'[Len(grants) + 1].time = now
              /\ Len(grants) + 1 \notin DOMAIN grants
            BY <1>1, <2>2, <2>4, GrantedKeepsPast
        <3>2. log' = Live \cup {Len(grants) + 1}
            BY <2>1, <2>4 DEF MemorySliding
        <3>3. \A i \in DOMAIN grants \ Live : grants[i].time <= now - Window
            BY <2>2 DEF Live
        <3>4. ListInv'
            BY <2>2, <2>3, <3>1, <3>2, <3>3 DEF ListInv, Live
        <3>5. ASSUME NEW t \in 0 .. MaxTime
              PROVE  Cardinality(GrantsUpTo(t)') <= Requests
            <4>1. CASE t < now
                <5>1. GrantsUpTo(t)' = GrantsUpTo(t)
                    BY <2>2, <3>1, <4>1 DEF GrantsUpTo
                <5> QED
                    BY <1>5, <5>1 DEF SlidingInv, SlidingBound
            <4>2. CASE t >= now
                <5>1. GrantsUpTo(t)' \subseteq log'
                    BY <2>2, <3>1, <3>2, <3>3, <4>2 DEF GrantsUpTo
                <5>2. Cardinality(GrantsUpTo(t)') <= Cardinality(log')
                    BY <2>3, <5>1, FS_Subset
                <5>3. IsFiniteSet(GrantsUpTo(t)')
                    BY <2>3, <5>1, FS_Subset
                <5> QED
                    BY <2>3, <5>2, <5>3, FS_CardinalityType
            <4> QED
                BY <4>1, <4>2
        <3>6. SlidingBound'
            BY <3>5 DEF SlidingBound
        <3> QED
            BY <1>3, <3>4, <3>6 DEF SlidingInv
    <2>5. CASE ~ok
        <3>1. log' = Live /\ grants' = grants
            BY <1>2, <2>1, <2>5 DEF MemorySliding
        <3>2. ListInv'
            BY <2>2, <2>3, <3>1 DEF ListInv, Live
        <3>3. SlidingBound'
            BY <3>1 DEF SlidingInv, SlidingBound, GrantsUpTo
        <3> QED
            BY <1>3, <3>2, <3>3 DEF SlidingInv
    <2> QED
        BY <2>4, <2>5
<1> QED
    BY <1>4, <1>5

LEMMA SlidingStep == SlidingInv /\ [RateNext]_rateVars => SlidingInv'
<1> SUFFICES ASSUME SlidingInv, [RateNext]_rateVars PROVE SlidingInv'
    OBVIOUS
<1>1. CASE Request
    BY <1>1, CheckKeepsSliding DEF Request
<1>2. CASE Response
    BY <1>2, CheckKeepsSliding DEF Response
<1>3. CASE Second
    <2>1. /\ now \in Nat /\ now' = now + 1 /\ grants' = grants /\ log' = log
          /\ strategy' = strategy /\ backend' = backend
        BY <1>3 DEF Second, stores, SlidingInv, Past
    <2>2. \A i \in DOMAIN grants : grants[i].time \in Nat
        BY GrantsHaveTimes DEF SlidingInv
    <2>3. Past' /\ ListInv'
        BY <2>1, <2>2 DEF SlidingInv, Past, ListInv
    <2>4. SlidingBound'
        BY <2>1 DEF SlidingInv, SlidingBound, GrantsUpTo
    <2> QED
        BY <2>3, <2>4 DEF SlidingInv
<1>4. CASE UNCHANGED rateVars
    BY <1>4 DEF rateVars, stores, SlidingInv, Past, ListInv, SlidingBound, GrantsUpTo
<1> QED
    BY <1>1, <1>2, <1>3, <1>4 DEF RateNext

(* The sliding window in memory grants at most Requests checks in any      *)
(* Window seconds (_check_memory_sliding_window), however the checks of    *)
(* requests and of their responses fall.                                   *)
THEOREM SlidingBoundHolds == RateSpec => []SlidingBound
<1>1. SlidingInv => SlidingBound
    BY DEF SlidingInv
<1> QED
    BY SlidingInit, SlidingStep, <1>1, PTL DEF RateSpec

-----------------------------------------------------------------------------
(* Arithmetic of windows and tokens.                                       *)
LEMMA Multiples ==
    ASSUME NEW n \in Nat, NEW x \in Int, NEW y \in Int, x <= y
    PROVE  n * x <= n * y /\ n * x \in Int
    OBVIOUS

LEMMA Division ==
    ASSUME NEW a \in Int, NEW b \in Int, b > 0
    PROVE  /\ a \div b \in Int /\ b * (a \div b) <= a /\ a < b * (a \div b) + b
           /\ a >= 0 => a \div b >= 0
    OBVIOUS

LEMMA DivisionIsMonotone ==
    ASSUME NEW s \in Int, NEW t \in Int, s <= t
    PROVE  s \div Window <= t \div Window
<1>1. /\ s \div Window \in Int /\ Window * (s \div Window) <= s
      /\ t \div Window \in Int /\ t < Window * (t \div Window) + Window
    BY Division
<1> DEFINE p == s \div Window
           q == t \div Window
<1>2. SUFFICES ASSUME p >= q + 1 PROVE FALSE
    BY <1>1
<1>3. p \in Int /\ q \in Int /\ q + 1 \in Int
    BY <1>1
<1> HIDE DEF p, q
<1>4. Window * (q + 1) <= Window * p
    BY <1>2, <1>3, Multiples
<1>5. Window * (q + 1) = Window * q + Window
    BY <1>3
<1> QED
    BY <1>1, <1>4, <1>5 DEF p, q

LEMMA WindowOf ==
    ASSUME NEW t \in 0 .. MaxTime
    PROVE  t \div Window \in Windows
<1>1. t \div Window \in Int /\ t \div Window >= 0 /\ MaxTime \div Window \in Int
    BY Division
<1>2. t \div Window <= MaxTime \div Window
    BY DivisionIsMonotone
<1> QED
    BY <1>1, <1>2 DEF Windows

Bucket == [tokens: 0 .. Full, last: 0 .. MaxTime]

LEMMA FullType == Full \in Nat /\ Window <= Full /\ Full <= 2 * (Window * Requests)
<1>1. Window * 1 <= Window * Burst /\ Window * Burst <= Window * (2 * Requests)
    BY Multiples
<1>2. Window * Burst = Full /\ Window * (2 * Requests) = 2 * (Window * Requests)
    BY DEF Full
<1> QED
    BY <1>1, <1>2 DEF Full

(* A bucket is never over its burst, and one that Redis dropped was full.  *)
LEMMA RefilledType ==
    ASSUME now \in 0 .. MaxTime, NEW b \in Bucket, b.last <= now
    PROVE  Refilled(b) \in 0 .. Full /\ (Expired(b) => Refilled(b) = Full)
<1>1. b.tokens \in 0 .. Full /\ b.last \in 0 .. MaxTime
    BY DEF Bucket
<1> DEFINE d == now - b.last
           more == d * Requests
<1>2. d \in Nat /\ now \in Nat
    BY <1>1
<1>3. more \in Nat
    BY <1>2
<1>4. Full \in Nat /\ Full <= 2 * (Window * Requests)
    BY FullType
<1>5. Expired(b) => more >= Full
    <2> SUFFICES ASSUME Expired(b) PROVE more >= Full
        OBVIOUS
    <2>1. d >= 2 * Window
        BY <1>1, <1>2 DEF Expired
    <2> HIDE DEF d
    <2>2. Requests * (2 * Window) <= Requests * d
        BY <1>2, <2>1, Multiples
    <2>3. Requests * (2 * Window) = 2 * (Window * Requests) /\ Requests * d = more
        BY <1>2
    <2> QED
        BY <1>2, <1>4, <2>2, <2>3
<1>6. Refilled(b) = MinOf(Full, b.tokens + more)
    BY DEF Refilled
<1> HIDE DEF more
<1> QED
    BY <1>1, <1>3, <1>4, <1>5, <1>6 DEF MinOf

-----------------------------------------------------------------------------
(* Types, for every strategy and every store.                              *)

(* Grants, refills and refusals are in the past.                           *)
Clock ==
    /\ \A i \in DOMAIN grants : grants[i].time <= now
    /\ \A s \in Stores : bucket[s].last <= now
    /\ refused <= now

RateInv == RateTypeOK /\ Clock

LEMMA GrantsTyped ==
    ASSUME RateTypeOK
    PROVE  /\ DOMAIN grants = 1 .. Len(grants) /\ Len(grants) \in Nat
           /\ \A i \in DOMAIN grants : grants[i].time \in 0 .. MaxTime
<1> DEFINE R == [time: 0 .. MaxTime, for: {"request", "headers"}]
<1>1. grants \in Seq(R)
    BY DEF RateTypeOK
<1>2. \A r \in R : r.time \in 0 .. MaxTime
    OBVIOUS
<1> HIDE DEF R
<1> QED
    BY <1>1, <1>2

LEMMA RateInvInit == RateInit => RateInv
<1> SUFFICES ASSUME RateInit PROVE RateInv
    OBVIOUS
<1> USE DEF RateInit
<1>1. Full \in Nat
    BY FullType
<1>2. Cardinality(log) = 0
    BY FS_EmptySet
<1>3. RateTypeOK
    BY <1>1, <1>2 DEF RateTypeOK, Never, NoTime
<1>4. Clock
    BY DEF Clock, Stores, NoTime
<1> QED
    BY <1>3, <1>4 DEF RateInv

LEMMA ListStaysTyped ==
    ASSUME RateInv, NEW ok \in BOOLEAN, ok = (Cardinality(Live) < Requests),
           log' = IF ok THEN Live \cup {Len(grants) + 1} ELSE Live
    PROVE  /\ log' \subseteq DOMAIN grants \cup {Len(grants) + 1} /\ Cardinality(log') <= Requests
           /\ ~ok => log' \subseteq DOMAIN grants
<1>1. DOMAIN grants = 1 .. Len(grants) /\ Len(grants) \in Nat
    BY DEF RateInv, RateTypeOK
<1>2. IsFiniteSet(log) /\ log \subseteq DOMAIN grants /\ Cardinality(log) <= Requests
    <2>1. IsFiniteSet(DOMAIN grants)
        BY <1>1, FS_Interval
    <2> QED
        BY <2>1, FS_Subset DEF RateInv, RateTypeOK
<1>3. /\ IsFiniteSet(Live) /\ Live \subseteq log /\ Cardinality(Live) <= Cardinality(log)
      /\ Cardinality(Live) \in Nat /\ Cardinality(log) \in Nat
    BY <1>2, FS_Subset, FS_CardinalityType DEF Live
<1> DEFINE x == Len(grants) + 1
<1>4. /\ Cardinality(Live \cup {x}) = IF x \in Live THEN Cardinality(Live) ELSE Cardinality(Live) + 1
    <2> HIDE DEF x
    <2> QED
        BY <1>3, FS_AddElement
<1>5. CASE ok
    <2>1. Cardinality(Live) < Requests /\ log' = Live \cup {x}
        BY <1>5
    <2> HIDE DEF x
    <2>2. Cardinality(log') <= Requests
        <3>1. Cardinality(Live) < Requests
            BY <2>1
        <3>2. Cardinality(Live \cup {x}) <= Requests
            BY <1>3, <1>4, <3>1
        <3> QED
            BY <2>1, <3>2
    <2> QED
        BY <1>2, <1>3, <1>5, <2>1, <2>2 DEF x
<1>6. CASE ~ok
    BY <1>2, <1>3, <1>6
<1> QED
    BY <1>5, <1>6

(* Which limiters there are, and what each leaves alone.                   *)
LEMMA StoresStayTyped ==
    ASSUME RateInv, NEW s \in Stores, NEW ok \in BOOLEAN, Decides(s, ok)
    PROVE  /\ log' \subseteq DOMAIN grants \cup {Len(grants) + 1} /\ Cardinality(log') <= Requests
           /\ ~ok => log' \subseteq DOMAIN grants
           /\ zset' \subseteq 0 .. MaxTime
           /\ counter' \in [Stores -> [Windows -> Nat]]
           /\ bucket' \in [Stores -> Bucket]
           /\ \A r \in Stores : bucket'[r].last <= now
<1>1. /\ now \in 0 .. MaxTime /\ ThisWindow \in Windows
      /\ log \subseteq DOMAIN grants /\ Cardinality(log) <= Requests /\ zset \subseteq 0 .. MaxTime
      /\ counter \in [Stores -> [Windows -> Nat]] /\ bucket \in [Stores -> Bucket]
      /\ \A r \in Stores : bucket[r].last <= now
    BY WindowOf DEF RateInv, RateTypeOK, Clock, ThisWindow, Bucket
<1>2. CASE strategy = "sliding"
    <2>1. MemorySliding(ok) \/ RedisSliding(ok) \/ FallbackSliding(ok)
        BY <1>2 DEF Decides, InMemory, InRedis, Fallback
    <2>2. UNCHANGED <<counter, bucket>> /\ zset' \subseteq 0 .. MaxTime
        BY <1>1, <2>1 DEF MemorySliding, RedisSliding, FallbackSliding, LiveScores
    <2>3. UNCHANGED log \/ (/\ ok = (Cardinality(Live) < Requests)
                            /\ log' = IF ok THEN Live \cup {Len(grants) + 1} ELSE Live)
        BY <2>1 DEF MemorySliding, RedisSliding, FallbackSliding
    <2> QED
        BY <1>1, <2>2, <2>3, ListStaysTyped
<1>3. CASE strategy = "fixed"
    <2>1. Fixed("memory", ok) \/ Fixed("redis", ok) \/ FallbackFixed(ok)
        BY <1>3 DEF Decides, InMemory, InRedis, Fallback
    <2>2. \A c \in [Stores -> [Windows -> Nat]], r \in Stores :
             Counted(c, r) \in [Stores -> [Windows -> Nat]]
        BY <1>1 DEF Counted
    <2>3. counter' \in [Stores -> [Windows -> Nat]]
        BY <1>1, <2>1, <2>2 DEF Fixed, FallbackFixed, Stores
    <2> QED
        BY <1>1, <2>1, <2>3 DEF Fixed, FallbackFixed
<1>4. CASE strategy = "bucket"
    <2>1. MemoryBucket(ok) \/ RedisBucket(ok) \/ FallbackBucket(ok)
        BY <1>4 DEF Decides, InMemory, InRedis, Fallback
    <2>2. /\ \A r \in Stores : Refilled(bucket[r]) \in 0 .. Full
          /\ Full \in Nat /\ Window <= Full
        BY <1>1, RefilledType, FullType
    <2> DEFINE Written(n) == [tokens |-> IF n >= Window THEN n - Window ELSE n, last |-> now]
    <2>3. \A n \in 0 .. Full : Written(n) \in Bucket /\ Written(n).last <= now
        BY <1>1, <2>2 DEF Bucket
    <2>4. \A n \in 0 .. Full : n >= Window =>
             /\ [tokens |-> n - Window, last |-> now] \in Bucket
             /\ [tokens |-> n - Window, last |-> now].last <= now
        BY <1>1, <2>2 DEF Bucket
    <2> HIDE DEF Written
    <2>5. UNCHANGED <<log, zset, counter>>
        BY <2>1 DEF MemoryBucket, RedisBucket, FallbackBucket
    <2>6. CASE MemoryBucket(ok)
        <3>1. bucket' = [bucket EXCEPT !["memory"] = Written(Refilled(bucket["memory"]))]
            BY <2>6 DEF MemoryBucket, Written
        <3> QED
            BY <1>1, <2>2, <2>3, <2>5, <3>1 DEF Stores
    <2>7. CASE RedisBucket(ok)
        <3> DEFINE n == IF Expired(bucket["redis"]) THEN Full ELSE Refilled(bucket["redis"])
        <3>1. n \in 0 .. Full
            BY <2>2 DEF Stores
        <3>2. /\ ok = (n >= Window)
              /\ bucket' = IF ok THEN [bucket EXCEPT !["redis"] = [tokens |-> n - Window, last |-> now]]
                           ELSE bucket
            BY <2>7 DEF RedisBucket
        <3> HIDE DEF n
        <3> QED
            BY <1>1, <2>4, <2>5, <3>1, <3>2 DEF Stores
    <2>8. CASE FallbackBucket(ok)
        <3> DEFINE n == IF Expired(bucket["redis"]) THEN Full ELSE Refilled(bucket["redis"])
                   m == Refilled(bucket["memory"])
        <3>1. n \in 0 .. Full /\ m \in 0 .. Full
            BY <2>2 DEF Stores
        <3>2. \/ bucket' = [bucket EXCEPT !["memory"] = Written(m)]
              \/ /\ n >= Window
                 /\ bucket' = [memory |-> Written(m), redis |-> [tokens |-> n - Window, last |-> now]]
            BY <2>8 DEF FallbackBucket, Written
        <3> HIDE DEF n, m
        <3>3. CASE bucket' = [bucket EXCEPT !["memory"] = Written(m)]
            BY <1>1, <2>3, <2>5, <3>1, <3>3 DEF Stores
        <3>4. CASE /\ n >= Window
                   /\ bucket' = [memory |-> Written(m), redis |-> [tokens |-> n - Window, last |-> now]]
            <4>1. bucket' = [r \in Stores |-> IF r = "memory" THEN Written(m)
                                              ELSE [tokens |-> n - Window, last |-> now]]
                BY <3>4 DEF Stores
            <4> QED
                BY <1>1, <2>3, <2>4, <2>5, <3>1, <3>4, <4>1 DEF Stores
        <3> QED
            BY <3>2, <3>3, <3>4
    <2> QED
        BY <2>1, <2>6, <2>7, <2>8
<1>5. strategy \in {"sliding", "fixed", "bucket"}
    BY DEF RateInv, RateTypeOK
<1> QED
    BY <1>2, <1>3, <1>4, <1>5

(* No refusal names a time that is over.                                   *)
LEMMA RetryIsLater ==
    ASSUME RateInv, NEW s \in Stores, Decides(s, FALSE)
    PROVE  /\ RetryAfter(s) \in Nat
           /\ strategy = "sliding" => RetryAfter(s) = Window
           /\ strategy = "fixed" => now + RetryAfter(s) = (ThisWindow + 1) * Window
<1>1. now \in 0 .. MaxTime /\ strategy \in {"sliding", "fixed", "bucket"}
    BY DEF RateInv, RateTypeOK
<1>2. CASE strategy = "sliding"
    BY <1>2 DEF RetryAfter
<1>3. CASE strategy = "fixed"
    <2>1. ThisWindow \in Int /\ now < Window * ThisWindow + Window
        BY <1>1, Division DEF ThisWindow
    <2>2. (ThisWindow + 1) * Window = Window * ThisWindow + Window
        BY <2>1
    <2>3. RetryAfter(s) = (ThisWindow + 1) * Window - now
        BY <1>3 DEF RetryAfter
    <2> QED
        BY <1>1, <1>3, <2>1, <2>2, <2>3
<1>4. CASE strategy = "bucket"
    <2>1. bucket[s] \in Bucket /\ bucket[s].last <= now
        BY DEF RateInv, RateTypeOK, Clock, Bucket
    <2>2. Refilled(bucket[s]) \in 0 .. Full /\ Window <= Full /\ Full \in Nat
          /\ (Expired(bucket[s]) => Refilled(bucket[s]) = Full)
        BY <1>1, <2>1, RefilledType, FullType
    <2>3. ~(Refilled(bucket[s]) >= Window)
        <3>1. CASE s = "memory"
            <4>1. MemoryBucket(FALSE) \/ FallbackBucket(FALSE)
                BY <1>4, <3>1 DEF Decides, InMemory, Fallback
            <4> QED
                BY <3>1, <4>1 DEF MemoryBucket, FallbackBucket
        <3>2. CASE s = "redis"
            <4>1. RedisBucket(FALSE)
                BY <1>4, <3>2 DEF Decides, InRedis
            <4> QED
                BY <2>2, <3>2, <4>1 DEF RedisBucket
        <3> QED
            BY <3>1, <3>2 DEF Stores
    <2> DEFINE n == Window - Refilled(bucket[s])
    <2>4. n \in Int /\ n >= 0
        BY <2>2, <2>3
    <2>5. RetryAfter(s) = n \div Requests
        BY <1>4 DEF RetryAfter
    <2> HIDE DEF n
    <2>6. n \div Requests \in Nat
        BY <2>4, Division
    <2> QED
        BY <1>4, <2>5, <2>6
<1> QED
    BY <1>1, <1>2, <1>3, <1>4

LEMMA CheckKeepsTypes ==
    ASSUME RateInv, NEW purpose \in {"request", "headers"}, NEW ok \in BOOLEAN,
           Check(purpose, ok), inflight' \in 0 .. MaxInflight
    PROVE  RateInv'
<1>1. PICK s \in Stores : Decides(s, ok) /\ IF ok THEN Granted(purpose) ELSE RefusedBy(s)
    BY DEF Check
<1>2. UNCHANGED <<now, strategy, backend>>
    BY DEF Check
<1>3. /\ log' \subseteq DOMAIN grants \cup {Len(grants) + 1} /\ Cardinality(log') <= Requests
      /\ ~ok => log' \subseteq DOMAIN grants
      /\ zset' \subseteq 0 .. MaxTime
      /\ counter' \in [Stores -> [Windows -> Nat]]
      /\ bucket' \in [Stores -> Bucket]
      /\ \A r \in Stores : bucket'[r].last <= now
    BY <1>1, StoresStayTyped
<1>4. /\ now \in 0 .. MaxTime /\ told \in 0 .. Never
      /\ grants \in Seq([time: 0 .. MaxTime, for: {"request", "headers"}])
      /\ DOMAIN grants = 1 .. Len(grants) /\ Len(grants) \in Nat
      /\ \A i \in DOMAIN grants : grants[i].time <= now
      /\ Never \in Nat
    BY DEF RateInv, RateTypeOK, Clock, Never
<1>5. CASE ok
    <2>1. /\ grants' = Append(grants, [time |-> now, for |-> purpose])
          /\ told' = Never /\ refused' = NoTime
        BY <1>1, <1>5 DEF Granted
    <2>2. /\ grants' \in Seq([time: 0 .. MaxTime, for: {"request", "headers"}])
          /\ DOMAIN grants' = DOMAIN grants \cup {Len(grants) + 1}
          /\ \A i \in DOMAIN grants' : grants'[i].time <= now
        BY <1>4, <2>1
    <2> QED
        BY <1>2, <1>3, <1>4, <2>1, <2>2 DEF RateInv, RateTypeOK, Clock, Bucket, NoTime
<1>6. CASE ~ok
    <2>1. RefusedBy(s) /\ Decides(s, FALSE)
        BY <1>1, <1>6
    <2>2. told' = MinOf(told, now + RetryAfter(s)) /\ refused' = now /\ grants' = grants
        BY <2>1 DEF RefusedBy
    <2>3. RetryAfter(s) \in Nat
        BY <2>1, RetryIsLater
    <2>4. told' \in 0 .. Never
        BY <1>4, <2>2, <2>3 DEF MinOf
    <2> QED
        BY <1>2, <1>3, <1>4, <1>6, <2>2, <2>4 DEF RateInv, RateTypeOK, Clock, Bucket
<1> QED
    BY <1>5, <1>6

LEMMA RateInvStep == RateInv /\ [RateNext]_rateVars => RateInv'
<1> SUFFICES ASSUME RateInv, [RateNext]_rateVars PROVE RateInv'
    OBVIOUS
<1>0. inflight \in 0 .. MaxInflight
    BY DEF RateInv, RateTypeOK
<1>1. CASE Request
    <2>1. PICK ok \in BOOLEAN : Check("request", ok) /\ inflight' = IF ok THEN inflight + 1 ELSE inflight
        BY <1>1 DEF Request
    <2>2. inflight' \in 0 .. MaxInflight
        BY <1>0, <1>1, <2>1 DEF Request
    <2> QED
        BY <2>1, <2>2, CheckKeepsTypes
<1>2. CASE Response
    <2>1. PICK ok \in BOOLEAN : Check("headers", ok)
        BY <1>2 DEF Response
    <2>2. inflight' \in 0 .. MaxInflight
        BY <1>0, <1>2 DEF Response
    <2> QED
        BY <2>1, <2>2, CheckKeepsTypes
<1>3. CASE Second
    <2>1. /\ now' = now + 1 /\ now' \in 0 .. MaxTime /\ now \in Nat
          /\ UNCHANGED <<strategy, backend, grants, log, zset, counter, bucket, inflight, told, refused>>
        BY <1>3 DEF Second, stores, RateInv, RateTypeOK
    <2>2. /\ \A i \in DOMAIN grants : grants[i].time \in Int
          /\ \A s \in Stores : bucket[s].last \in Int
          /\ refused \in Int
        <3>1. \A i \in DOMAIN grants : grants[i].time \in Int
            BY GrantsTyped DEF RateInv
        <3>2. \A s \in Stores : bucket[s] \in Bucket
            BY DEF RateInv, RateTypeOK, Bucket
        <3> QED
            BY <3>1, <3>2 DEF Bucket, RateInv, RateTypeOK, NoTime
    <2>3. Clock'
        BY <2>1, <2>2 DEF RateInv, Clock
    <2>4. RateTypeOK'
        BY <2>1 DEF RateInv, RateTypeOK
    <2> QED
        BY <2>3, <2>4 DEF RateInv
<1>4. CASE UNCHANGED rateVars
    BY <1>4 DEF rateVars, stores, RateInv, RateTypeOK, Clock
<1> QED
    BY <1>1, <1>2, <1>3, <1>4 DEF RateNext

LEMMA RateInvHolds == RateSpec => []RateInv
    BY RateInvInit, RateInvStep, PTL DEF RateSpec

(* For every strategy and every store: the limiters only ever are in       *)
(* states of their type; a list never holds more than the limit, and a     *)
(* bucket never more than its burst.                                       *)
THEOREM RateTypeCorrect == RateSpec => []RateTypeOK
<1>1. RateInv => RateTypeOK
    BY DEF RateInv
<1> QED
    BY <1>1, RateInvHolds, PTL

(* What a check adds to the history, and that there is a first and a last  *)
(* of everything.                                                          *)
LEMMA GrantsGrow ==
    ASSUME RateInv, NEW purpose \in {"request", "headers"}, NEW ok \in BOOLEAN, Check(purpose, ok)
    PROVE  /\ ~ok => grants' = grants
           /\ ok => /\ DOMAIN grants' = DOMAIN grants \cup {Len(grants) + 1}
                    /\ Len(grants) + 1 \notin DOMAIN grants
                    /\ \A i \in DOMAIN grants : grants'[i] = grants[i]
                    /\ grants'[Len(grants) + 1].time = now
<1>1. /\ ok => grants' = Append(grants, [time |-> now, for |-> purpose])
      /\ ~ok => grants' = grants
    BY DEF Check, Granted, RefusedBy
<1> DEFINE R == [time: 0 .. MaxTime, for: {"request", "headers"}]
           e == [time |-> now, for |-> purpose]
<1>2. DOMAIN grants = 1 .. Len(grants) /\ Len(grants) \in Nat /\ grants \in Seq(R)
    BY GrantsTyped DEF RateInv, RateTypeOK
<1>3. e \in R /\ e.time = now
    BY DEF RateInv, RateTypeOK
<1> HIDE DEF R, e
<1>4. /\ DOMAIN Append(grants, e) = DOMAIN grants \cup {Len(grants) + 1}
      /\ Len(grants) + 1 \notin DOMAIN grants
      /\ \A i \in DOMAIN grants : Append(grants, e)[i] = grants[i]
      /\ Append(grants, e)[Len(grants) + 1] = e
    BY <1>2, <1>3
<1> QED
    BY <1>1, <1>3, <1>4 DEF e

LEMMA GrantsFinite ==
    ASSUME RateInv
    PROVE  \A S : S \subseteq DOMAIN grants => IsFiniteSet(S) /\ Cardinality(S) \in Nat
<1>1. IsFiniteSet(DOMAIN grants)
    BY GrantsTyped, FS_Interval DEF RateInv
<1> SUFFICES ASSUME NEW S, S \subseteq DOMAIN grants PROVE IsFiniteSet(S) /\ Cardinality(S) \in Nat
    OBVIOUS
<1>2. IsFiniteSet(S)
    BY <1>1, FS_Subset
<1> QED
    BY <1>2, FS_CardinalityType

-----------------------------------------------------------------------------
(* The fixed window.                                                       *)
GrantsIn(w) == {i \in DOMAIN grants : grants[i].time \div Window = w}
Allowed(s, w) == MinOf(counter[s][w], Requests)

(* A store has allowed at most as many checks in a window as it has        *)
(* counted, and no more than the limit; a store that is not used counts    *)
(* nothing.                                                                *)
FixedInv ==
    strategy = "fixed" =>
        /\ \A w \in Windows :
              Cardinality(GrantsIn(w)) <= Allowed("memory", w) + Allowed("redis", w)
        /\ backend = "memory" => \A w \in Windows : counter["redis"][w] = 0
        /\ backend = "redis" => \A w \in Windows : counter["memory"][w] = 0

LEMMA FixedCounts ==
    ASSUME RateInv, NEW s \in Stores, NEW ok \in BOOLEAN, Decides(s, ok), strategy = "fixed"
    PROVE  /\ ThisWindow \in Windows
           /\ \A r \in Stores, w \in Windows :
                 /\ counter'[r][w] \in Nat /\ counter[r][w] \in Nat /\ counter'[r][w] >= counter[r][w]
                 /\ w # ThisWindow => counter'[r][w] = counter[r][w]
                 /\ r \in Stores \ {s} /\ backend # "flaky" => counter'[r][w] = counter[r][w]
           /\ ok => counter[s][ThisWindow] < Requests
           /\ ~ok => counter[s][ThisWindow] >= Requests
           /\ counter'[s][ThisWindow] = counter[s][ThisWindow] + 1
           /\ backend = "memory" => s = "memory"
           /\ backend = "redis" => s = "redis"
<1>1. ThisWindow \in Windows /\ counter \in [Stores -> [Windows -> Nat]]
    BY WindowOf DEF RateInv, RateTypeOK, ThisWindow
<1>2. \/ Fixed(s, ok)
      \/ s = "memory" /\ backend = "flaky" /\ FallbackFixed(ok)
    BY DEF Decides, InMemory, InRedis, Fallback
<1>3. \A c \in [Stores -> [Windows -> Nat]], r \in Stores :
        /\ Counted(c, r) \in [Stores -> [Windows -> Nat]]
        /\ Counted(c, r)[r][ThisWindow] = c[r][ThisWindow] + 1
        /\ \A q \in Stores, w \in Windows : q # r \/ w # ThisWindow => Counted(c, r)[q][w] = c[q][w]
    BY <1>1 DEF Counted
<1>4. \/ counter' = Counted(counter, s)
      \/ s = "memory" /\ backend = "flaky" /\ counter' = Counted(Counted(counter, "redis"), "memory")
    BY <1>2 DEF Fixed, FallbackFixed
<1>5. /\ ok => counter[s][ThisWindow] < Requests
      /\ ~ok => counter[s][ThisWindow] >= Requests
    <2>1. ok = (counter[s][ThisWindow] < Requests)
        BY <1>2 DEF Fixed, FallbackFixed
    <2>2. counter[s][ThisWindow] \in Nat
        BY <1>1
    <2>3. (ok => counter[s][ThisWindow] < Requests) /\ (~ok => ~(counter[s][ThisWindow] < Requests))
        BY <2>1, Zenon
    <2> QED
        BY <2>2, <2>3
<1>6. /\ \A r \in Stores, w \in Windows :
           /\ counter'[r][w] \in Nat /\ counter[r][w] \in Nat /\ counter'[r][w] >= counter[r][w]
           /\ w # ThisWindow => counter'[r][w] = counter[r][w]
           /\ r \in Stores \ {s} /\ backend # "flaky" => counter'[r][w] = counter[r][w]
      /\ counter'[s][ThisWindow] = counter[s][ThisWindow] + 1
    <2>1. CASE counter' = Counted(counter, s)
        BY <1>1, <1>3, <2>1
    <2>2. CASE /\ s = "memory" /\ backend = "flaky"
               /\ counter' = Counted(Counted(counter, "redis"), "memory")
        <3> DEFINE c == Counted(counter, "redis")
        <3>1. /\ c \in [Stores -> [Windows -> Nat]] /\ c["redis"][ThisWindow] = counter["redis"][ThisWindow] + 1
              /\ \A q \in Stores, w \in Windows : q # "redis" \/ w # ThisWindow => c[q][w] = counter[q][w]
            BY <1>1, <1>3 DEF Stores
        <3> HIDE DEF c
        <3> QED
            BY <1>1, <1>3, <2>2, <3>1 DEF Stores, c
    <2> QED
        BY <1>4, <2>1, <2>2
<1>7. (backend = "memory" => s = "memory") /\ (backend = "redis" => s = "redis")
    BY DEF Decides
<1> QED
    BY <1>1, <1>5, <1>6, <1>7

LEMMA CheckKeepsFixed ==
    ASSUME RateInv, FixedInv, NEW purpose \in {"request", "headers"}, NEW ok \in BOOLEAN,
           Check(purpose, ok)
    PROVE  FixedInv'
<1>1. UNCHANGED <<now, strategy, backend>>
    BY DEF Check
<1> SUFFICES ASSUME strategy = "fixed" PROVE FixedInv'
    BY <1>1 DEF FixedInv
<1>2. PICK s \in Stores : Decides(s, ok)
    BY DEF Check
<1>3. /\ ThisWindow \in Windows
      /\ \A r \in Stores, w \in Windows :
            /\ counter'[r][w] \in Nat /\ counter[r][w] \in Nat /\ counter'[r][w] >= counter[r][w]
            /\ w # ThisWindow => counter'[r][w] = counter[r][w]
            /\ r \in Stores \ {s} /\ backend # "flaky" => counter'[r][w] = counter[r][w]
      /\ ok => counter[s][ThisWindow] < Requests
      /\ counter'[s][ThisWindow] = counter[s][ThisWindow] + 1
      /\ (backend = "memory" => s = "memory") /\ (backend = "redis" => s = "redis")
    BY <1>2, FixedCounts
<1>4. \A r \in Stores, w \in Windows :
        /\ Allowed(r, w) \in Nat /\ Allowed(r, w)' \in Nat /\ Allowed(r, w)' >= Allowed(r, w)
        /\ ok /\ r = s /\ w = ThisWindow => Allowed(r, w)' = Allowed(r, w) + 1
    BY <1>3 DEF Allowed, MinOf
<1>5. ASSUME NEW w \in Windows
      PROVE  Cardinality(GrantsIn(w)') <= Allowed("memory", w)' + Allowed("redis", w)'
    <2>1. Cardinality(GrantsIn(w)) <= Allowed("memory", w) + Allowed("redis", w)
        BY DEF FixedInv
    <2>2. "memory" \in Stores /\ "redis" \in Stores /\ s \in {"memory", "redis"}
        BY DEF Stores
    <2>3. IsFiniteSet(GrantsIn(w)) /\ Cardinality(GrantsIn(w)) \in Nat
        BY GrantsFinite DEF GrantsIn
    <2>4. CASE GrantsIn(w)' = GrantsIn(w)
        BY <1>4, <2>1, <2>2, <2>3, <2>4
    <2>5. CASE GrantsIn(w)' # GrantsIn(w)
        <3>1. ok
            BY <2>5, GrantsGrow DEF GrantsIn
        <3>2. w = ThisWindow /\ GrantsIn(w)' = GrantsIn(w) \cup {Len(grants) + 1}
              /\ Len(grants) + 1 \notin GrantsIn(w)
            BY <2>5, <3>1, GrantsGrow DEF GrantsIn, ThisWindow
        <3>3. Cardinality(GrantsIn(w)') = Cardinality(GrantsIn(w)) + 1
            BY <2>3, <3>2, FS_AddElement
        <3> QED
            BY <1>4, <2>1, <2>2, <2>3, <3>1, <3>2, <3>3
    <2> QED
        BY <2>4, <2>5
<1>6. /\ backend = "memory" => \A w \in Windows : counter'["redis"][w] = 0
      /\ backend = "redis" => \A w \in Windows : counter'["memory"][w] = 0
    BY <1>3 DEF FixedInv, Stores
<1> QED
    BY <1>1, <1>5, <1>6 DEF FixedInv

LEMMA FixedInvHolds == RateSpec => []FixedInv
<1>1. RateInit => FixedInv
    <2> SUFFICES ASSUME RateInit PROVE FixedInv
        OBVIOUS
    <2>1. \A w \in Windows : GrantsIn(w) = {}
        BY DEF RateInit, GrantsIn
    <2>2. Cardinality({}) = 0
        BY FS_EmptySet
    <2> QED
        <3>1. \A w \in Windows : /\ counter["redis"][w] = 0 /\ counter["memory"][w] = 0
                                 /\ Allowed("memory", w) = 0 /\ Allowed("redis", w) = 0
            BY DEF RateInit, Allowed, MinOf, Stores
        <3> QED
            <4>1. ASSUME NEW w \in Windows
                  PROVE  Cardinality(GrantsIn(w)) <= Allowed("memory", w) + Allowed("redis", w)
                <5>1. GrantsIn(w) = {}
                    BY <2>1
                <5>2. Cardinality(GrantsIn(w)) = 0
                    BY <2>2, <5>1
                <5> QED
                    BY <3>1, <5>2
            <4> QED
                BY <3>1, <4>1 DEF FixedInv
<1>2. RateInv /\ FixedInv /\ [RateNext]_rateVars => FixedInv'
    <2> SUFFICES ASSUME RateInv, FixedInv, [RateNext]_rateVars PROVE FixedInv'
        OBVIOUS
    <2>1. CASE Request \/ Response
        BY <2>1, CheckKeepsFixed DEF Request, Response
    <2>2. CASE Second \/ UNCHANGED rateVars
        BY <2>2 DEF Second, rateVars, stores, FixedInv, Allowed, GrantsIn
    <2> QED
        BY <2>1, <2>2 DEF RateNext
<1> QED
    BY <1>1, <1>2, RateInvHolds, PTL DEF RateSpec

(* For every limit and window: the fixed window grants no more than the    *)
(* limit in a window, and no more than twice the limit when Redis fails on *)
(* and off.                                                                *)
THEOREM FixedBoundHolds == RateSpec => []FixedBound
<1>1. RateInv /\ FixedInv => FixedBound
    <2> SUFFICES ASSUME RateInv, FixedInv, strategy = "fixed", NEW w \in Windows
                 PROVE  Cardinality({i \in DOMAIN grants : grants[i].time \div Window = w})
                          <= IF backend = "flaky" THEN 2 * Requests ELSE Requests
        BY DEF FixedBound
    <2>1. Cardinality(GrantsIn(w)) \in Nat
          /\ Cardinality(GrantsIn(w)) <= Allowed("memory", w) + Allowed("redis", w)
        BY GrantsFinite DEF FixedInv, GrantsIn
    <2>2. counter["memory"][w] \in Nat /\ counter["redis"][w] \in Nat
          /\ backend \in {"memory", "redis", "flaky"}
        BY DEF RateInv, RateTypeOK, Stores
    <2>3. /\ Allowed("memory", w) \in 0 .. Requests /\ Allowed("redis", w) \in 0 .. Requests
          /\ backend = "memory" => Allowed("redis", w) = 0
          /\ backend = "redis" => Allowed("memory", w) = 0
        BY <2>2 DEF FixedInv, Allowed, MinOf
    <2> QED
        BY <2>1, <2>2, <2>3 DEF GrantsIn
<1> QED
    BY <1>1, RateInvHolds, FixedInvHolds, PTL

-----------------------------------------------------------------------------
(* The token bucket.                                                       *)
GrantsFrom(t, u) == {i \in DOMAIN grants : grants[i].time \in t .. u}

(* The tokens there are now, in the stores that are used.                  *)
Left ==
    IF backend = "memory" THEN Refilled(bucket["memory"])
    ELSE IF backend = "redis" THEN Refilled(bucket["redis"])
    ELSE Refilled(bucket["memory"]) + Refilled(bucket["redis"])

Factor == IF backend = "flaky" THEN 2 ELSE 1

(* What was granted since any second and the tokens still there are no     *)
(* more than the burst and what the seconds since then have refilled.      *)
SpentInv ==
    strategy = "bucket" =>
        \A t \in 0 .. now : Window * Cardinality(GrantsFrom(t, now)) + Left
                              <= Factor * (Full + Requests * (now - t))

BucketInv == SpentInv /\ BucketBound

LEMMA LeftType ==
    ASSUME RateInv
    PROVE  /\ Left \in Nat /\ Left <= Factor * Full /\ Full \in Nat /\ Window <= Full
           /\ \A s \in Stores : /\ bucket[s] \in Bucket /\ Refilled(bucket[s]) \in 0 .. Full
                                /\ Expired(bucket[s]) => Refilled(bucket[s]) = Full
<1>1. /\ now \in 0 .. MaxTime
      /\ \A s \in Stores : bucket[s] \in Bucket /\ bucket[s].last <= now
    BY DEF RateInv, RateTypeOK, Clock, Bucket
<1>2. \A s \in Stores : /\ Refilled(bucket[s]) \in 0 .. Full
                        /\ Expired(bucket[s]) => Refilled(bucket[s]) = Full
    BY <1>1, RefilledType
<1>3. Full \in Nat /\ Window <= Full
    BY FullType
<1>4. backend \in {"memory", "redis", "flaky"} /\ "memory" \in Stores /\ "redis" \in Stores
    BY DEF RateInv, RateTypeOK, Stores
<1> QED
    BY <1>1, <1>2, <1>3, <1>4 DEF Left, Factor

(* What is written now has refilled nothing yet.                           *)
LEMMA WrittenNow ==
    ASSUME now \in Nat, NEW n \in 0 .. Full, Full \in Nat
    PROVE  MinOf(Full, n + (now - now) * Requests) = n
<1>1. (now - now) * Requests = 0
    OBVIOUS
<1> QED
    BY <1>1 DEF MinOf

LEMMA CheckSpends ==
    ASSUME RateInv, strategy = "bucket", NEW s \in Stores, NEW ok \in BOOLEAN,
           Decides(s, ok), UNCHANGED <<now, backend>>
    PROVE  Left' + (IF ok THEN Window ELSE 0) <= Left /\ Left' \in Nat
<1> DEFINE m == Refilled(bucket["memory"])
           r == Refilled(bucket["redis"])
           spent == IF ok THEN Window ELSE 0
           n == IF Expired(bucket["redis"]) THEN Full ELSE r
<1>0. /\ now \in Nat /\ Full \in Nat /\ m \in 0 .. Full /\ r \in 0 .. Full /\ n = r
      /\ bucket \in [Stores -> Bucket] /\ "memory" \in Stores /\ "redis" \in Stores
      /\ backend \in {"memory", "redis", "flaky"} /\ spent \in Nat
    <2>1. now \in Nat /\ bucket \in [Stores -> Bucket] /\ backend \in {"memory", "redis", "flaky"}
        BY DEF RateInv, RateTypeOK, Bucket
    <2>2. "memory" \in Stores /\ "redis" \in Stores /\ spent \in Nat
        BY DEF Stores
    <2> QED
        BY <2>1, <2>2, LeftType
<1>1. \A k \in 0 .. Full, q \in Stores :
        bucket'[q] = [tokens |-> k, last |-> now] => Refilled(bucket[q])' = k
    BY <1>0, WrittenNow DEF Refilled
<1>2. \A q \in Stores : bucket'[q] = bucket[q] => Refilled(bucket[q])' = Refilled(bucket[q])
    BY DEF Refilled
<1>3. CASE backend = "memory" \/ s = "redis"
    <2>1. CASE backend = "memory"
        <3>1. MemoryBucket(ok)
            BY <2>1 DEF Decides, InMemory
        <3>2. /\ ok = (m >= Window)
              /\ bucket'["memory"] = [tokens |-> IF m >= Window THEN m - Window ELSE m, last |-> now]
            BY <1>0, <3>1 DEF MemoryBucket
        <3> HIDE DEF m
        <3>3. (IF m >= Window THEN m - Window ELSE m) \in 0 .. Full
            BY <1>0
        <3>4. Refilled(bucket["memory"])' = IF m >= Window THEN m - Window ELSE m
            BY <1>0, <1>1, <3>2, <3>3
        <3>5. Refilled(bucket["memory"])' + spent = m
            <4>1. CASE ok
                <5>1. m >= Window /\ spent = Window
                    BY <3>2, <4>1, Zenon
                <5> HIDE DEF spent
                <5> QED
                    BY <1>0, <3>4, <5>1
            <4>2. CASE ~ok
                <5>1. ~(m >= Window) /\ spent = 0
                    BY <3>2, <4>2, Zenon
                <5> HIDE DEF spent
                <5> QED
                    BY <1>0, <3>4, <5>1
            <4> QED
                BY <4>1, <4>2
        <3> QED
            BY <1>0, <2>1, <3>3, <3>4, <3>5 DEF Left, m
    <2>2. CASE backend # "memory" /\ s = "redis"
        <3>1. RedisBucket(ok)
            BY <2>2 DEF Decides, InRedis
        <3>2. /\ ok = (n >= Window)
              /\ bucket' = IF ok THEN [bucket EXCEPT !["redis"] = [tokens |-> n - Window, last |-> now]]
                           ELSE bucket
            BY <3>1 DEF RedisBucket
        <3>3. bucket'["memory"] = bucket["memory"]
            BY <1>0, <3>2
        <3>4. Refilled(bucket["redis"])' + spent = r /\ Refilled(bucket["redis"])' \in Nat
            <4> HIDE DEF n, r
            <4>1. CASE ok
                <5>1. bucket'["redis"] = [tokens |-> n - Window, last |-> now] /\ n >= Window
                    BY <1>0, <3>2, <4>1
                <5>2. Refilled(bucket["redis"])' = n - Window
                    BY <1>0, <1>1, <5>1
                <5>3. spent = Window
                    BY <4>1
                <5> HIDE DEF spent
                <5> QED
                    BY <1>0, <5>1, <5>2, <5>3
            <4>2. CASE ~ok
                BY <1>0, <1>2, <3>2, <4>2 DEF r
            <4> QED
                BY <4>1, <4>2
        <3>5. Refilled(bucket["memory"])' = m
            BY <1>0, <1>2, <3>3
        <3>6. Left' = IF backend = "redis" THEN Refilled(bucket["redis"])'
                      ELSE Refilled(bucket["memory"])' + Refilled(bucket["redis"])'
            BY <2>2 DEF Left
        <3>7. Left = IF backend = "redis" THEN r ELSE m + r
            BY <2>2 DEF Left
        <3> HIDE DEF m, r, spent, n
        <3>8. Left' + spent <= Left /\ Left' \in Nat
            BY <1>0, <3>4, <3>5, <3>6, <3>7
        <3> QED
            BY <3>8 DEF spent
    <2> QED
        BY <1>3, <2>1, <2>2
<1>4. CASE backend = "flaky" /\ s = "memory"
    <2>1. FallbackBucket(ok)
        BY <1>4 DEF Decides, Fallback
    <2> DEFINE k == IF m >= Window THEN m - Window ELSE m
    <2>2. /\ ok = (m >= Window)
          /\ bucket'["memory"] = [tokens |-> k, last |-> now]
          /\ \/ bucket'["redis"] = bucket["redis"]
             \/ n >= Window /\ bucket'["redis"] = [tokens |-> n - Window, last |-> now]
        BY <1>0, <2>1 DEF FallbackBucket
    <2> HIDE DEF m, n
    <2>3. k \in 0 .. Full
        BY <1>0
    <2>4. Refilled(bucket["memory"])' = k
        BY <1>0, <1>1, <2>2, <2>3
    <2>5. Refilled(bucket["redis"])' \in Nat /\ Refilled(bucket["redis"])' <= r
        <3>1. CASE bucket'["redis"] = bucket["redis"]
            BY <1>0, <1>2, <3>1
        <3>2. CASE n >= Window /\ bucket'["redis"] = [tokens |-> n - Window, last |-> now]
            <4>1. n - Window \in 0 .. Full
                BY <1>0, <3>2
            <4>2. Refilled(bucket["redis"])' = n - Window
                BY <1>0, <1>1, <3>2, <4>1
            <4> QED
                BY <1>0, <4>1, <4>2
        <3> QED
            BY <2>2, <3>1, <3>2
    <2>6. k + spent = m
        <3>1. CASE ok
            <4>1. m >= Window /\ spent = Window
                BY <2>2, <3>1, Zenon
            <4> HIDE DEF spent
            <4> QED
                BY <1>0, <4>1
        <3>2. CASE ~ok
            <4>1. ~(m >= Window) /\ spent = 0
                BY <2>2, <3>2, Zenon
            <4> HIDE DEF spent
            <4> QED
                BY <1>0, <4>1
        <3> QED
            BY <3>1, <3>2
    <2> HIDE DEF k, spent, r
    <2> QED
        BY <1>0, <1>4, <2>3, <2>4, <2>5, <2>6 DEF Left, m, r, spent
<1> QED
    BY <1>0, <1>3, <1>4 DEF Decides, Stores

LEMMA SecondRefills ==
    ASSUME RateInv, now' = now + 1, UNCHANGED <<bucket, backend>>
    PROVE  Left' <= Left + Factor * Requests /\ Left' <= Factor * Full /\ Left' \in Nat
<1>1. ASSUME NEW s \in Stores
      PROVE  /\ Refilled(bucket[s])' \in Nat /\ Refilled(bucket[s])' <= Full
             /\ Refilled(bucket[s])' <= Refilled(bucket[s]) + Requests
    <2>1. /\ bucket[s].tokens \in Nat /\ bucket[s].last \in Nat /\ bucket[s].last <= now /\ now \in Nat
          /\ Full \in Nat
        BY LeftType DEF RateInv, RateTypeOK, Clock, Bucket
    <2> DEFINE d == now - bucket[s].last
               more == d * Requests
    <2>2. d \in Nat /\ more \in Nat
        <3>1. d \in Nat
            BY <2>1
        <3> HIDE DEF d
        <3> QED
            BY <3>1
    <2>3. (now' - bucket[s].last) * Requests = more + Requests
        <3>1. PICK n \in Int, x \in Int, k \in Int :
                 n = now /\ x = bucket[s].last /\ k = Requests
            BY <2>1, RateAssumption
        <3>2. (n + 1 - x) * k = (n - x) * k + k
            BY <3>1
        <3> QED
            BY <3>1, <3>2
    <2>4. Refilled(bucket[s])' = MinOf(Full, bucket[s].tokens + (more + Requests))
        <3>1. Refilled(bucket[s])' = MinOf(Full, bucket[s].tokens + (now' - bucket[s].last) * Requests)
            BY DEF Refilled
        <3> QED
            BY <2>3, <3>1
    <2>5. Refilled(bucket[s]) = MinOf(Full, bucket[s].tokens + more)
        BY DEF Refilled
    <2> HIDE DEF more
    <2> QED
        BY <2>1, <2>2, <2>4, <2>5 DEF MinOf
<1>2. /\ backend \in {"memory", "redis", "flaky"} /\ "memory" \in Stores /\ "redis" \in Stores
      /\ Full \in Nat /\ \A s \in Stores : Refilled(bucket[s]) \in Nat
    BY LeftType DEF RateInv, RateTypeOK, Stores
<1> DEFINE m == Refilled(bucket["memory"])
           r == Refilled(bucket["redis"])
           n == Refilled(bucket["memory"])'
           q == Refilled(bucket["redis"])'
<1>3. /\ n \in Nat /\ n <= Full /\ n <= m + Requests /\ m \in Nat
      /\ q \in Nat /\ q <= Full /\ q <= r + Requests /\ r \in Nat
    BY <1>1, <1>2
<1>4. Left' = IF backend = "memory" THEN n ELSE IF backend = "redis" THEN q ELSE n + q
    BY DEF Left
<1>5. Left = IF backend = "memory" THEN m ELSE IF backend = "redis" THEN r ELSE m + r
    BY DEF Left
<1> HIDE DEF m, r, n, q
<1> QED
    BY <1>2, <1>3, <1>4, <1>5 DEF Factor

LEMMA CheckKeepsBucket ==
    ASSUME RateInv, RateInv', BucketInv, NEW purpose \in {"request", "headers"}, NEW ok \in BOOLEAN,
           Check(purpose, ok)
    PROVE  BucketInv'
<1>1. UNCHANGED <<now, strategy, backend>>
    BY DEF Check
<1> SUFFICES ASSUME strategy = "bucket" PROVE BucketInv'
    BY <1>1 DEF BucketInv, SpentInv, BucketBound
<1>2. PICK s \in Stores : Decides(s, ok)
    BY DEF Check
<1> DEFINE spent == IF ok THEN Window ELSE 0
<1>3. Left' + spent <= Left /\ spent \in Nat /\ Left' \in Nat
    BY <1>1, <1>2, CheckSpends
<1>4. now \in 0 .. MaxTime /\ now \in Nat /\ Factor \in {1, 2} /\ Factor' = Factor /\ Full \in Nat
      /\ Left \in Nat
    BY <1>1, LeftType DEF RateInv, RateTypeOK, Factor
<1>5. /\ \A i \in DOMAIN grants : grants[i].time \in Nat /\ grants[i].time <= now
      /\ \A i \in DOMAIN grants' : grants'[i].time \in Nat /\ grants'[i].time <= now
    BY GrantsGrow, GrantsTyped, <1>4 DEF RateInv, Clock
<1>6. ASSUME NEW t \in 0 .. now
      PROVE  /\ Window * Cardinality(GrantsFrom(t, now)') + Left' <= Factor * (Full + Requests * (now - t))
             /\ Cardinality(GrantsFrom(t, now)') \in Nat
    <2> DEFINE g == Cardinality(GrantsFrom(t, now))
               h == Cardinality(GrantsFrom(t, now)')
    <2>1. IsFiniteSet(GrantsFrom(t, now)) /\ g \in Nat
        BY GrantsFinite DEF GrantsFrom
    <2>2. Window * g + Left <= Factor * (Full + Requests * (now - t))
        BY DEF BucketInv, SpentInv
    <2>3. h \in Nat /\ Window * h = Window * g + spent
        <3>1. CASE ok
            <4>1. /\ GrantsFrom(t, now)' = GrantsFrom(t, now) \cup {Len(grants) + 1}
                  /\ Len(grants) + 1 \notin GrantsFrom(t, now)
                <5>1. \A i : i \in GrantsFrom(t, now)' <=> i \in GrantsFrom(t, now) \cup {Len(grants) + 1}
                    <6>1. now \in t .. now
                        BY <1>4
                    <6> QED
                        BY <1>1, <3>1, <6>1, GrantsGrow DEF GrantsFrom
                <5>2. Len(grants) + 1 \notin GrantsFrom(t, now)
                    BY <3>1, GrantsGrow DEF GrantsFrom
                <5> QED
                    BY <5>1, <5>2
            <4>2. h = g + 1
                BY <2>1, <4>1, FS_AddElement
            <4>3. spent = Window
                BY <3>1
            <4> HIDE DEF g, h, spent
            <4> QED
                BY <2>1, <4>2, <4>3
        <3>2. CASE ~ok
            <4>1. GrantsFrom(t, now)' = GrantsFrom(t, now)
                BY <1>1, <3>2, GrantsGrow DEF GrantsFrom
            <4>2. h = g /\ spent = 0
                BY <3>2, <4>1
            <4> HIDE DEF g, h, spent
            <4> QED
                BY <2>1, <4>2
        <3> QED
            BY <3>1, <3>2
    <2>4. Window * g \in Int /\ Factor * (Full + Requests * (now - t)) \in Int
        BY <1>4, <2>1
    <2>5. PICK x \in Int, z \in Int, p \in Nat, l \in Nat, k \in Nat :
             /\ x = Window * g /\ z = Factor * (Full + Requests * (now - t))
             /\ p = spent /\ l = Left /\ k = Left'
        BY <1>3, <1>4, <2>4
    <2>6. x + l <= z /\ k + p <= l
        BY <1>3, <2>2, <2>5
    <2>7. (x + p) + k <= z
        BY <2>6
    <2> QED
        BY <2>3, <2>5, <2>7
<1>7. SpentInv'
    BY <1>1, <1>4, <1>6 DEF SpentInv
<1>8. ASSUME NEW t \in 0 .. MaxTime, NEW u \in 0 .. MaxTime, t <= u
      PROVE  Window * Cardinality(GrantsFrom(t, u)') <= Factor * (Full + Requests * (u - t))
    <2>1. CASE u < now
        <3>1. GrantsFrom(t, u)' = GrantsFrom(t, u)
            <4>1. CASE ok
                <5>1. \A i : i \in GrantsFrom(t, u)' <=> i \in GrantsFrom(t, u)
                    <6>1. now \notin t .. u
                        BY <1>4, <2>1
                    <6> QED
                        BY <4>1, <6>1, GrantsGrow DEF GrantsFrom
                <5> QED
                    BY <5>1
            <4>2. CASE ~ok
                BY <4>2, GrantsGrow DEF GrantsFrom
            <4> QED
                BY <4>1, <4>2
        <3> QED
            BY <1>8, <3>1 DEF BucketInv, BucketBound, GrantsFrom, Factor
    <2>2. CASE u >= now /\ t <= now
        <3>1. GrantsFrom(t, u)' = GrantsFrom(t, now)'
            BY <1>1, <1>4, <1>5, <2>2 DEF GrantsFrom
        <3>2. t \in 0 .. now
            BY <1>4, <2>2
        <3>3. Requests * (now - t) <= Requests * (u - t) /\ Requests * (now - t) \in Int
              /\ Requests * (u - t) \in Int
            BY <1>4, <2>2, Multiples
        <3>4. Factor * (Full + Requests * (now - t)) <= Factor * (Full + Requests * (u - t))
            BY <1>4, <3>3
        <3> DEFINE y == Window * Cardinality(GrantsFrom(t, now)')
        <3>5. y \in Int /\ y + Left' <= Factor * (Full + Requests * (now - t)) /\ Left' \in Nat
            BY <1>3, <1>6, <3>2
        <3>6. PICK v \in Int, w \in Int : /\ v = Factor * (Full + Requests * (now - t))
                                         /\ w = Factor * (Full + Requests * (u - t))
            BY <1>4, <3>3
        <3>7. PICK k \in Nat : k = Left'
            BY <3>5
        <3>8. PICK g \in Int : g = y
            BY <3>5
        <3>9. g + k <= v /\ v <= w
            BY <3>4, <3>5, <3>6, <3>7, <3>8
        <3>10. g <= w
            BY <3>9
        <3> QED
            BY <3>1, <3>6, <3>8, <3>10
    <2>3. CASE t > now
        <3>1. GrantsFrom(t, u)' = {}
            BY <1>4, <1>5, <2>3 DEF GrantsFrom
        <3>2. Cardinality(GrantsFrom(t, u)') = 0
            BY <3>1, FS_EmptySet
        <3>3. Requests * (u - t) >= 0 /\ Requests * (u - t) \in Int
            BY <1>8
        <3>4. Factor * (Full + Requests * (u - t)) >= 0
            BY <1>4, <3>3
        <3> QED
            BY <3>2, <3>4
    <2> QED
        BY <1>4, <2>1, <2>2, <2>3
<1>9. BucketBound'
    BY <1>1, <1>8 DEF BucketBound, GrantsFrom, Factor
<1> QED
    BY <1>7, <1>9 DEF BucketInv

LEMMA BucketInvHolds == RateSpec => []BucketInv
<1>1. RateInit => BucketInv
    <2> SUFFICES ASSUME RateInit PROVE BucketInv
        OBVIOUS
    <2>1. RateInv /\ now = 0 /\ Factor \in {1, 2}
        BY RateInvInit DEF RateInit, Factor
    <2>2. Left \in Nat /\ Left <= Factor * Full /\ Full \in Nat
        BY <2>1, LeftType
    <2>3. ASSUME NEW t, NEW u PROVE Cardinality(GrantsFrom(t, u)) = 0
        <3>1. GrantsFrom(t, u) = {}
            BY DEF RateInit, GrantsFrom
        <3> QED
            BY <3>1, FS_EmptySet
    <2>4. SpentInv
        <3>1. \A t \in 0 .. now : Factor * (Full + Requests * (now - t)) = Factor * Full
            BY <2>1, <2>2
        <3> QED
            BY <2>1, <2>2, <2>3, <3>1 DEF SpentInv
    <2>5. BucketBound
        <3> SUFFICES ASSUME NEW t \in 0 .. MaxTime, NEW u \in 0 .. MaxTime, t <= u
                     PROVE  Window * Cardinality(GrantsFrom(t, u)) <= Factor * (Full + Requests * (u - t))
            BY DEF BucketBound, GrantsFrom, Factor
        <3>1. Requests * (u - t) >= 0 /\ Requests * (u - t) \in Int
            OBVIOUS
        <3>2. Factor * (Full + Requests * (u - t)) >= 0
            BY <2>1, <2>2, <3>1
        <3> QED
            BY <2>3, <3>2
    <2> QED
        BY <2>4, <2>5 DEF BucketInv
<1>2. RateInv /\ RateInv' /\ BucketInv /\ [RateNext]_rateVars => BucketInv'
    <2> SUFFICES ASSUME RateInv, RateInv', BucketInv, [RateNext]_rateVars PROVE BucketInv'
        OBVIOUS
    <2>1. CASE Request \/ Response
        BY <2>1, CheckKeepsBucket DEF Request, Response
    <2>2. CASE Second
        <3>1. now' = now + 1 /\ UNCHANGED <<strategy, backend, grants, bucket>>
            BY <2>2 DEF Second, stores
        <3>2. BucketBound'
            BY <3>1 DEF BucketInv, BucketBound
        <3>3. SpentInv'
            <4> SUFFICES ASSUME strategy = "bucket", NEW t \in 0 .. now'
                         PROVE  Window * Cardinality(GrantsFrom(t, now)') + Left'
                                  <= Factor * (Full + Requests * (now' - t))
                <5>1. Factor' = Factor
                    BY <3>1 DEF Factor
                <5> QED
                    BY <3>1, <5>1 DEF SpentInv
            <4>1. /\ Left' <= Left + Factor * Requests /\ Left' <= Factor * Full /\ Left' \in Nat
                  /\ Left \in Nat /\ Full \in Nat /\ Factor \in {1, 2} /\ now \in Nat
                BY <3>1, SecondRefills, LeftType DEF Factor, RateInv, RateTypeOK
            <4>2. \A i \in DOMAIN grants : grants[i].time \in Nat /\ grants[i].time <= now
                BY GrantsTyped DEF RateInv, Clock
            <4>3. CASE t \in 0 .. now
                <5>1. GrantsFrom(t, now)' = GrantsFrom(t, now)
                    <6>1. \A i \in DOMAIN grants : grants[i].time \in t .. now + 1 <=> grants[i].time \in t .. now
                        BY <4>1, <4>2, <4>3
                    <6> QED
                        BY <3>1, <6>1 DEF GrantsFrom
                <5> DEFINE y == Window * Cardinality(GrantsFrom(t, now))
                           v == Requests * (now - t)
                <5>2. y + Left <= Factor * (Full + v) /\ y \in Int /\ v \in Int
                    <6>1. Cardinality(GrantsFrom(t, now)) \in Nat
                        BY GrantsFinite DEF GrantsFrom
                    <6> QED
                        BY <4>1, <4>3, <6>1 DEF BucketInv, SpentInv
                <5>3. Requests * (now' - t) = v + Requests
                    BY <3>1, <4>1, <4>3
                <5>4. PICK x \in Int, n \in Int, l \in Nat, k \in Nat, f \in {1, 2} :
                         x = y /\ n = v /\ l = Left /\ k = Left' /\ f = Factor
                    BY <4>1, <5>2
                <5>5. x + l <= f * (Full + n) /\ k <= l + f * Requests
                    BY <4>1, <5>2, <5>4
                <5>6. x + k <= f * (Full + (n + Requests))
                    BY <4>1, <5>5
                <5> QED
                    BY <5>1, <5>3, <5>4, <5>6
            <4>4. CASE t = now + 1
                <5>1. GrantsFrom(t, now)' = {}
                    <6>1. \A i \in DOMAIN grants : grants[i].time \notin t .. now + 1
                        BY <4>1, <4>2, <4>4
                    <6> QED
                        BY <3>1, <6>1 DEF GrantsFrom
                <5>2. Cardinality(GrantsFrom(t, now)') = 0
                    BY <5>1, FS_EmptySet
                <5>3. Requests * (now' - t) = 0
                    BY <3>1, <4>1, <4>4
                <5>4. Window * Cardinality(GrantsFrom(t, now)') = 0
                    BY <5>2
                <5>5. Factor * (Full + Requests * (now' - t)) = Factor * Full
                    BY <4>1, <5>3
                <5> QED
                    BY <4>1, <5>4, <5>5
            <4> QED
                BY <3>1, <4>1, <4>3, <4>4
        <3> QED
            BY <3>2, <3>3 DEF BucketInv
    <2>3. CASE UNCHANGED rateVars
        BY <2>3 DEF rateVars, stores, BucketInv, SpentInv, BucketBound, Left, Refilled, Factor, GrantsFrom
    <2> QED
        BY <2>1, <2>2, <2>3 DEF RateNext
<1> QED
    BY <1>1, <1>2, RateInvHolds, PTL DEF RateSpec

(* For every rate and every burst the code allows: between any two seconds *)
(* the token bucket grants no more than its burst and what they refill,    *)
(* and with the fixed window's bound the two strategies that keep counts   *)
(* and not times keep their bounds, in every store.                        *)
THEOREM CountsBoundHolds == RateSpec => []CountsBound
<1>1. BucketInv => BucketBound
    BY DEF BucketInv
<1>2. BucketBound /\ FixedBound => CountsBound
    BY DEF CountsBound
<1> QED
    BY <1>1, <1>2, BucketInvHolds, FixedBoundHolds, PTL

-----------------------------------------------------------------------------
(* Retry-After.                                                            *)

(* Since the last grant no refusal was given at or after the time the      *)
(* first of them named.  Fixed window: that time is the end of the window  *)
(* of the refusals, and whoever is first in a later window is granted, its *)
(* counter being zero.  Sliding window: at that time no grant is left in   *)
(* the window.                                                             *)
RetryFixed ==
    strategy = "fixed" =>
        /\ \A s \in Stores, w \in Windows : w > ThisWindow => counter[s][w] = 0
        /\ refused # NoTime =>
              /\ told = (refused \div Window + 1) * Window
              /\ \A s \in Stores : counter[s][ThisWindow] > 0 => refused \div Window = ThisWindow

RetrySliding ==
    strategy = "sliding" /\ backend # "flaky" =>
        /\ \A t \in zset : t <= now
        /\ refused # NoTime =>
              /\ refused < told /\ told <= now + Window
              /\ \A i \in DOMAIN grants : grants[i].time <= told - Window
              /\ \A t \in zset : t <= told - Window

RetryInv == RetryFixed /\ RetrySliding /\ (refused = NoTime => told = Never)

(* A refusal of the fixed window names the end of the window it falls in.  *)
LEMMA FixedRefusal ==
    ASSUME RateInv, RetryInv, strategy = "fixed", NEW s \in Stores, Decides(s, FALSE), RefusedBy(s),
           now' = now, strategy' = strategy
    PROVE  RetryFixed'
<1>1. /\ now \in 0 .. MaxTime /\ refused \in (0 .. MaxTime) \cup {NoTime} /\ ThisWindow \in Windows
      /\ ThisWindow \in Nat /\ ThisWindow' = ThisWindow
    <2>1. now \in 0 .. MaxTime /\ refused \in (0 .. MaxTime) \cup {NoTime}
        BY DEF RateInv, RateTypeOK
    <2>2. now \div Window \in Windows /\ now \div Window \in Int /\ now \div Window >= 0
        <3>1. now \in Int /\ now >= 0 /\ Window \in Int /\ Window > 0
            BY <2>1
        <3> QED
            BY <2>1, <3>1, WindowOf, Division
    <2> QED
        BY <2>1, <2>2 DEF ThisWindow
<1>2. /\ told' = MinOf(told, (ThisWindow + 1) * Window) /\ refused' = now
    BY RetryIsLater DEF RefusedBy
<1>3. /\ \A r \in Stores, w \in Windows : w # ThisWindow => counter'[r][w] = counter[r][w]
      /\ counter[s][ThisWindow] > 0
    <2>1. counter[s][ThisWindow] \in Nat
        BY <1>1 DEF RateInv, RateTypeOK
    <2> QED
        <3>1. counter[s][ThisWindow] >= Requests
              /\ \A r \in Stores, w \in Windows : w # ThisWindow => counter'[r][w] = counter[r][w]
            BY FixedCounts
        <3> QED
            BY <2>1, <3>1
<1>4. told' = (ThisWindow + 1) * Window
    <2> DEFINE e == (ThisWindow + 1) * Window
    <2>1. e \in Int /\ e <= now + Window
        <3>1. now < Window * ThisWindow + Window /\ Window * ThisWindow <= now
            BY <1>1, Division DEF ThisWindow
        <3>2. e = Window * ThisWindow + Window
            BY <1>1
        <3> HIDE DEF e
        <3>3. Window * ThisWindow \in Int
            BY <1>1
        <3> QED
            BY <1>1, <3>1, <3>2, <3>3
    <2>2. told = Never \/ told = e
        <3>1. CASE refused = NoTime
            BY <3>1 DEF RetryInv
        <3>2. CASE refused # NoTime
            BY <1>3, <3>2 DEF RetryInv, RetryFixed
        <3> QED
            BY <3>1, <3>2
    <2>3. told' = MinOf(told, e)
        BY <1>2
    <2> HIDE DEF e
    <2> QED
        <3>1. e <= Never /\ Never \in Int
            BY <1>1, <2>1 DEF Never
        <3>2. told' = e
            BY <2>1, <2>2, <2>3, <3>1 DEF MinOf
        <3> QED
            BY <3>2 DEF e
<1>5. refused' \div Window = ThisWindow
    BY <1>2 DEF ThisWindow
<1> QED
    BY <1>1, <1>3, <1>4, <1>5 DEF RetryInv, RetryFixed

(* A refusal of the sliding window finds a grant that is still in it.      *)
LEMMA SlidingRefusal ==
    ASSUME RateInv, RetryInv, strategy = "sliding", backend # "flaky",
           NEW s \in Stores, Decides(s, FALSE), RefusedBy(s),
           UNCHANGED <<now, strategy, backend>>
    PROVE  RetrySliding'
<1>1. /\ now \in 0 .. MaxTime /\ refused \in (0 .. MaxTime) \cup {NoTime} /\ Never \in Int
      /\ told \in 0 .. Never /\ zset \subseteq 0 .. MaxTime
      /\ log \subseteq DOMAIN grants
    BY DEF RateInv, RateTypeOK, Never
<1>2. /\ told' = MinOf(told, now + Window) /\ refused' = now /\ grants' = grants
    BY RetryIsLater DEF RefusedBy
<1>3. /\ \A i \in DOMAIN grants : grants[i].time \in 0 .. MaxTime /\ grants[i].time <= now
      /\ \A t \in zset : t <= now
    BY GrantsTyped DEF RateInv, Clock, RetryInv, RetrySliding
<1>4. MemorySliding(FALSE) \/ RedisSliding(FALSE)
    BY DEF Decides, InMemory, InRedis
<1>5. zset' \subseteq zset
    BY <1>4 DEF MemorySliding, RedisSliding, LiveScores
<1>6. Live # {} \/ LiveScores # {}
    <2>1. CASE MemorySliding(FALSE)
        <3>1. ~(Cardinality(Live) < Requests)
            BY <2>1 DEF MemorySliding
        <3> QED
            BY <3>1, FS_EmptySet
    <2>2. CASE RedisSliding(FALSE)
        <3>1. ~(Cardinality(LiveScores) < Requests)
            BY <2>2 DEF RedisSliding
        <3> QED
            BY <3>1, FS_EmptySet
    <2> QED
        BY <1>4, <2>1, <2>2
<1>7. CASE refused = NoTime
    <2>1. told' = now + Window
        BY <1>1, <1>2, <1>7 DEF RetryInv, MinOf, Never
    <2> QED
        BY <1>1, <1>2, <1>3, <1>5, <2>1 DEF RetrySliding
<1>8. CASE refused # NoTime
    <2>1. /\ told <= now + Window
          /\ \A i \in DOMAIN grants : grants[i].time <= told - Window
          /\ \A t \in zset : t <= told - Window
        BY <1>8 DEF RetryInv, RetrySliding
    <2>2. told' = told
        BY <1>1, <1>2, <2>1 DEF MinOf
    <2>3. now < told
        <3>1. CASE Live # {}
            <4>1. PICK i \in DOMAIN grants : grants[i].time > now - Window
                BY <1>1, <3>1 DEF Live
            <4> QED
                BY <1>1, <1>3, <2>1, <4>1
        <3>2. CASE LiveScores # {}
            <4>1. PICK t \in zset : t > now - Window
                BY <3>2 DEF LiveScores
            <4> QED
                BY <1>1, <2>1, <4>1
        <3> QED
            BY <1>6, <3>1, <3>2
    <2> QED
        BY <1>1, <1>2, <1>3, <1>5, <2>1, <2>2, <2>3 DEF RetrySliding
<1> QED
    BY <1>7, <1>8

LEMMA CheckKeepsRetry ==
    ASSUME RateInv, RetryInv, NEW purpose \in {"request", "headers"}, NEW ok \in BOOLEAN,
           Check(purpose, ok)
    PROVE  RetryInv'
<1>1. UNCHANGED <<now, strategy, backend>> /\ now \in 0 .. MaxTime /\ now \in Nat
    BY DEF Check, RateInv, RateTypeOK
<1>2. PICK s \in Stores : Decides(s, ok) /\ IF ok THEN Granted(purpose) ELSE RefusedBy(s)
    BY DEF Check
<1>3. CASE ok
    <2>1. told' = Never /\ refused' = NoTime
        BY <1>2, <1>3 DEF Granted
    <2>2. RetryFixed'
        <3> SUFFICES ASSUME strategy = "fixed" PROVE RetryFixed'
            BY <1>1 DEF RetryFixed
        <3>1. /\ ThisWindow' = ThisWindow /\ ThisWindow \in Windows
              /\ \A r \in Stores, w \in Windows : w # ThisWindow => counter'[r][w] = counter[r][w]
            BY <1>1, <1>2, FixedCounts DEF ThisWindow
        <3>2. \A w \in Windows : w > ThisWindow => w # ThisWindow
            BY <3>1 DEF Windows
        <3> QED
            BY <2>1, <3>1, <3>2 DEF RetryInv, RetryFixed
    <2>3. RetrySliding'
        <3> SUFFICES ASSUME strategy = "sliding", backend # "flaky" PROVE RetrySliding'
            BY <1>1 DEF RetrySliding
        <3>1. MemorySliding(ok) \/ RedisSliding(ok)
            BY <1>2 DEF Decides, InMemory, InRedis
        <3>2. zset' \subseteq zset \cup {now}
            BY <3>1 DEF MemorySliding, RedisSliding, LiveScores
        <3> QED
            BY <1>1, <2>1, <3>2 DEF RetryInv, RetrySliding
    <2> QED
        BY <2>1, <2>2, <2>3 DEF RetryInv
<1>4. CASE ~ok
    <2>1. Decides(s, FALSE) /\ RefusedBy(s)
        BY <1>2, <1>4
    <2>2. refused' # NoTime
        BY <1>1, <2>1 DEF RefusedBy, NoTime
    <2>3. RetryFixed'
        BY <1>1, <2>1, FixedRefusal DEF RetryFixed
    <2>4. RetrySliding'
        BY <1>1, <2>1, SlidingRefusal DEF RetrySliding
    <2> QED
        BY <2>2, <2>3, <2>4 DEF RetryInv, NoTime
<1> QED
    BY <1>3, <1>4

(* A second later: the window is the same, or the next and not yet used.   *)
LEMMA SecondKeepsRetry ==
    ASSUME RateInv, RetryInv, Second PROVE RetryInv'
<1>1. /\ now' = now + 1 /\ now \in Nat /\ now' \in 0 .. MaxTime
      /\ UNCHANGED <<strategy, backend, grants, log, zset, counter, bucket, inflight, told, refused>>
      /\ zset \subseteq 0 .. MaxTime /\ told \in Int
    BY DEF Second, stores, RateInv, RateTypeOK, Never
<1>2. /\ ThisWindow \in Int /\ ThisWindow' \in Windows /\ ThisWindow' >= ThisWindow
      /\ ThisWindow' \in Int
    <2>1. now \div Window \in Int /\ now' \div Window \in Int /\ now' \div Window \in Windows
        <3>1. now \in Int /\ now' \in Int /\ Window \in Int /\ Window > 0
            BY <1>1
        <3>2. now' \div Window \in Windows
            BY <1>1, WindowOf
        <3> QED
            BY <3>1, <3>2, Division
    <2>2. now \div Window <= now' \div Window
        <3>1. now \in Int /\ now + 1 \in Int /\ now <= now + 1
            BY <1>1
        <3>2. now \div Window <= (now + 1) \div Window
            BY <3>1, DivisionIsMonotone
        <3> QED
            BY <1>1, <3>2
    <2> QED
        BY <2>1, <2>2 DEF ThisWindow
<1>3. counter \in [Stores -> [Windows -> Nat]]
    BY DEF RateInv, RateTypeOK
<1>4. RetryFixed'
    <2> SUFFICES ASSUME strategy = "fixed" PROVE RetryFixed'
        BY <1>1 DEF RetryFixed
    <2>1. \A w \in Windows : w > ThisWindow' => w > ThisWindow
        BY <1>2 DEF Windows
    <2>2. CASE ThisWindow' = ThisWindow
        BY <1>1, <2>1, <2>2 DEF RetryInv, RetryFixed
    <2>3. CASE ThisWindow' > ThisWindow
        <3>1. \A s \in Stores : counter[s][ThisWindow'] = 0
            BY <1>2, <2>3 DEF RetryInv, RetryFixed
        <3> QED
            BY <1>1, <2>1, <3>1 DEF RetryInv, RetryFixed
    <2> QED
        BY <1>2, <2>2, <2>3 DEF Windows
<1>5. RetrySliding'
    BY <1>1 DEF RetryInv, RetrySliding
<1> QED
    BY <1>1, <1>4, <1>5 DEF RetryInv

LEMMA RetryInvHolds == RateSpec => []RetryInv
<1>1. RateInit => RetryInv
    <2> SUFFICES ASSUME RateInit PROVE RetryInv
        OBVIOUS
    <2>1. \A s \in Stores, w \in Windows : counter[s][w] = 0
        BY DEF RateInit
    <2> QED
        BY <2>1 DEF RateInit, RetryInv, RetryFixed, RetrySliding
<1>2. RateInv /\ RetryInv /\ [RateNext]_rateVars => RetryInv'
    <2> SUFFICES ASSUME RateInv, RetryInv, [RateNext]_rateVars PROVE RetryInv'
        OBVIOUS
    <2>1. CASE Request \/ Response
        BY <2>1, CheckKeepsRetry DEF Request, Response
    <2>2. CASE Second
        BY <2>2, SecondKeepsRetry
    <2>3. CASE UNCHANGED rateVars
        BY <2>3 DEF rateVars, stores, RetryInv, RetryFixed, RetrySliding, ThisWindow
    <2> QED
        BY <2>1, <2>2, <2>3 DEF RateNext
<1> QED
    BY <1>1, <1>2, RateInvHolds, PTL DEF RateSpec

(* For every limit and window: with the fixed window, in any store and     *)
(* with a Redis that fails, and with the sliding window in a store that    *)
(* does not, the Retry-After of the first refusal is honoured: nothing     *)
(* being granted meanwhile, no request is refused at that time or later.   *)
THEOREM RetryHonouredHolds == RateSpec => []RetryHonoured
<1>1. RateInv /\ RetryInv => RetryHonoured
    <2> SUFFICES ASSUME RateInv, RetryInv,
                        strategy = "fixed" \/ (strategy = "sliding" /\ backend # "flaky")
                 PROVE  refused < told
        BY DEF RetryHonoured
    <2>1. refused \in (0 .. MaxTime) \cup {NoTime}
        BY DEF RateInv, RateTypeOK
    <2>2. CASE refused = NoTime
        BY <2>2 DEF RetryInv, Never, NoTime
    <2>3. CASE refused # NoTime /\ strategy = "sliding" /\ backend # "flaky"
        BY <2>3 DEF RetryInv, RetrySliding
    <2>4. CASE refused # NoTime /\ strategy = "fixed"
        <3>1. told = (refused \div Window + 1) * Window
            BY <2>4 DEF RetryInv, RetryFixed
        <3>2. refused \in Int /\ refused < Window * (refused \div Window) + Window
              /\ refused \div Window \in Int
            BY <2>1, Division DEF NoTime
        <3>3. (refused \div Window + 1) * Window = Window * (refused \div Window) + Window
            <4>1. PICK q \in Int : q = refused \div Window
                BY <3>2
            <4> QED
                BY <4>1
        <3> QED
            BY <3>1, <3>2, <3>3
    <2> QED
        BY <2>2, <2>3, <2>4
<1> QED
    BY <1>1, RateInvHolds, RetryInvHolds, PTL
=============================================================================
