------------------------------ MODULE RateLimit ------------------------------
(***************************************************************************)
(* security/rate_limit.py: one rule of the RateLimitManager and one        *)
(* identifier, under each of the three limiters, with the store in memory  *)
(* or in Redis, and the middleware that applies the rule to requests.      *)
(*                                                                         *)
(* Time is in seconds.  Tokens are counted in units of 1/Window, so that a *)
(* second adds Requests of them and a request takes Window.                *)
(***************************************************************************)
EXTENDS Integers, Sequences, FiniteSets

CONSTANTS
    Requests,    \* limit.requests
    Window,      \* limit.window
    Burst,       \* limit.burst or limit.requests
    Strategies,  \* strategies the rule may have
    Backends,    \* "memory", "redis", or "flaky": a Redis whose calls may fail
    MaxTime,     \* bound: seconds in a behaviour
    MaxGrants,   \* bound: checks allowed in a behaviour
    MaxCount,    \* bound: what a window's counter counts
    MaxInflight  \* bound: requests between their two checks

(* Redis keeps a bucket for two windows after its last grant; with a burst *)
(* that takes longer to refill, a bucket it dropped would refill too soon. *)
ASSUME RateAssumption ==
    /\ Requests \in Nat \ {0} /\ Window \in Nat \ {0}
    /\ Burst \in 1 .. (2 * Requests)
    /\ Strategies \subseteq {"sliding", "fixed", "bucket"}
    /\ Backends \subseteq {"memory", "redis", "flaky"}
    /\ MaxTime \in Nat /\ MaxGrants \in Nat /\ MaxCount \in Nat /\ MaxInflight \in Nat

VARIABLES
    now,       \* time.time()
    strategy,  \* strategy of the rule
    backend,   \* where the limiter keeps its state
    grants,    \* history: every check allowed, with its time
    log,       \* memory, sliding window: which grants the key's list holds
    zset,      \* Redis, sliding window: the members of the key's sorted set
    counter,   \* fixed window: the counter of each window, in each store
    bucket,    \* token bucket: tokens and last_refill, in each store
    inflight,  \* requests let through by the middleware, without a response yet
    told,      \* since the last grant: the earliest time a refusal named
    refused    \* since the last grant: the time of the last refusal

stores == <<log, zset, counter, bucket>>
rateVars == <<now, strategy, backend, grants, stores, inflight, told, refused>>

Stores == {"memory", "redis"}
Windows == 0 .. (MaxTime \div Window)
Full == Burst * Window
Never == MaxTime + Window + 1
NoTime == -1

MinOf(a, b) == IF a < b THEN a ELSE b

RateInit ==
    /\ now = 0
    /\ strategy \in Strategies /\ backend \in Backends
    /\ grants = <<>>
    /\ log = {} /\ zset = {}
    /\ counter = [s \in Stores |-> [w \in Windows |-> 0]]
    /\ bucket = [s \in Stores |-> [tokens |-> Full, last |-> 0]]
    /\ inflight = 0
    /\ told = Never /\ refused = NoTime

-----------------------------------------------------------------------------
(* SlidingWindowRateLimiter.  In memory: the list of the times granted.    *)
Live == {i \in log : grants[i].time > now - Window}

(* Faults for MemorySliding: one request too many; the window one second   *)
(* too long.                                                               *)
MemorySlidingOneMore(ok) ==
    /\ ok = (Cardinality(Live) <= Requests)
    /\ log' = IF ok THEN Live \cup {Len(grants) + 1} ELSE Live
    /\ UNCHANGED <<zset, counter, bucket>>

MemorySlidingClosed(ok) ==
    LET live == {i \in log : grants[i].time >= now - Window}
    IN  /\ ok = (Cardinality(live) < Requests)
        /\ log' = IF ok THEN live \cup {Len(grants) + 1} ELSE live
        /\ UNCHANGED <<zset, counter, bucket>>

MemorySliding(ok) ==
    /\ ok = (Cardinality(Live) < Requests)
    /\ log' = IF ok THEN Live \cup {Len(grants) + 1} ELSE Live
    /\ UNCHANGED <<zset, counter, bucket>>

(* In Redis: a sorted set whose member is the second itself, added before  *)
(* the count is looked at and removed again when the request is refused.   *)
LiveScores == {t \in zset : t > now - Window}

RedisSliding(ok) ==
    /\ ok = (Cardinality(LiveScores) < Requests)
    /\ zset' = IF ok THEN LiveScores \cup {now} ELSE LiveScores \ {now}
    /\ UNCHANGED <<log, counter, bucket>>

(* The pipeline fails, or what follows it does: memory decides.            *)
FallbackSliding(ok) ==
    /\ \/ zset' = zset
       \/ zset' = LiveScores \cup {now}
    /\ ok = (Cardinality(Live) < Requests)
    /\ log' = IF ok THEN Live \cup {Len(grants) + 1} ELSE Live
    /\ UNCHANGED <<counter, bucket>>

-----------------------------------------------------------------------------
(* FixedWindowRateLimiter: one counter per window, which counts refused    *)
(* requests too; Redis may have counted a request whose answer is lost.    *)
ThisWindow == now \div Window
Counted(c, s) == [c EXCEPT ![s][ThisWindow] = @ + 1]

(* Fault for Fixed: the limit is reached one request late.                 *)
FixedOneMore(s, ok) ==
    /\ counter' = Counted(counter, s)
    /\ ok = (counter[s][ThisWindow] <= Requests)
    /\ UNCHANGED <<log, zset, bucket>>

Fixed(s, ok) ==
    /\ counter' = Counted(counter, s)
    /\ ok = (counter[s][ThisWindow] < Requests)
    /\ UNCHANGED <<log, zset, bucket>>

FallbackFixed(ok) ==
    /\ \/ counter' = Counted(counter, "memory")
       \/ counter' = Counted(Counted(counter, "redis"), "memory")
    /\ ok = (counter["memory"][ThisWindow] < Requests)
    /\ UNCHANGED <<log, zset, bucket>>

-----------------------------------------------------------------------------
(* TokenBucketRateLimiter.  Memory writes a refill back even when it       *)
(* refuses; Redis writes only what it grants, and forgets a bucket two     *)
(* windows after that.                                                     *)
Refilled(b) == MinOf(Full, b.tokens + (now - b.last) * Requests)
Expired(b) == now >= b.last + 2 * Window

(* Fault for MemoryBucket: last_refill is written only with a grant.       *)
MemoryBucketStale(ok) ==
    LET tokens == Refilled(bucket["memory"])
    IN  /\ ok = (tokens >= Window)
        /\ bucket' = [bucket EXCEPT !["memory"] =
                        [tokens |-> IF ok THEN tokens - Window ELSE tokens,
                         last |-> IF ok THEN now ELSE @.last]]
        /\ UNCHANGED <<log, zset, counter>>

MemoryBucket(ok) ==
    LET tokens == Refilled(bucket["memory"])
    IN  /\ ok = (tokens >= Window)
        /\ bucket' = [bucket EXCEPT !["memory"] =
                        [tokens |-> IF ok THEN tokens - Window ELSE tokens, last |-> now]]
        /\ UNCHANGED <<log, zset, counter>>

RedisBucket(ok) ==
    LET tokens == IF Expired(bucket["redis"]) THEN Full ELSE Refilled(bucket["redis"])
    IN  /\ ok = (tokens >= Window)
        /\ bucket' = IF ok THEN [bucket EXCEPT !["redis"] =
                                   [tokens |-> tokens - Window, last |-> now]]
                           ELSE bucket
        /\ UNCHANGED <<log, zset, counter>>

(* hgetall, hset or expire fails; the grant may have been written, and     *)
(* memory decides again.                                                   *)
FallbackBucket(ok) ==
    LET tokens == Refilled(bucket["memory"])
        written == [tokens |-> IF tokens >= Window THEN tokens - Window ELSE tokens,
                    last |-> now]
        left == IF Expired(bucket["redis"]) THEN Full ELSE Refilled(bucket["redis"])
    IN  /\ ok = (tokens >= Window)
        /\ \/ bucket' = [bucket EXCEPT !["memory"] = written]
           \/ /\ left >= Window
              /\ bucket' = [memory |-> written,
                            redis |-> [tokens |-> left - Window, last |-> now]]
        /\ UNCHANGED <<log, zset, counter>>

-----------------------------------------------------------------------------
(* RateLimitManager.check_rate_limit: the limiter of the rule's strategy.  *)
InMemory(ok) ==
    \/ strategy = "sliding" /\ MemorySliding(ok)
    \/ strategy = "fixed" /\ Fixed("memory", ok)
    \/ strategy = "bucket" /\ MemoryBucket(ok)

InRedis(ok) ==
    \/ strategy = "sliding" /\ RedisSliding(ok)
    \/ strategy = "fixed" /\ Fixed("redis", ok)
    \/ strategy = "bucket" /\ RedisBucket(ok)

Fallback(ok) ==
    \/ strategy = "sliding" /\ FallbackSliding(ok)
    \/ strategy = "fixed" /\ FallbackFixed(ok)
    \/ strategy = "bucket" /\ FallbackBucket(ok)

(* Which store decides.                                                    *)
Decides(s, ok) ==
    \/ s = "memory" /\ backend = "memory" /\ InMemory(ok)
    \/ s = "memory" /\ backend = "flaky" /\ Fallback(ok)
    \/ s = "redis" /\ backend \in {"redis", "flaky"} /\ InRedis(ok)

(* retry_after of a refusal.  The token bucket rounds it down.             *)
RetryAfter(s) ==
    CASE strategy = "sliding" -> Window
      [] strategy = "fixed" -> (ThisWindow + 1) * Window - now
      [] strategy = "bucket" -> (Window - Refilled(bucket[s])) \div Requests

Granted(purpose) ==
    /\ grants' = Append(grants, [time |-> now, for |-> purpose])
    /\ told' = Never /\ refused' = NoTime

RefusedBy(s) ==
    /\ told' = MinOf(told, now + RetryAfter(s))
    /\ refused' = now
    /\ UNCHANGED grants

Check(purpose, ok) ==
    /\ \E s \in Stores :
          /\ Decides(s, ok)
          /\ IF ok THEN Granted(purpose) ELSE RefusedBy(s)
    /\ UNCHANGED <<now, strategy, backend>>

(* RateLimitMiddleware: a request is checked, answered 429 or passed on;   *)
(* its response is checked once more, for the headers.                     *)
WithinBounds ==
    Len(grants) < MaxGrants /\ \A s \in Stores : counter[s][ThisWindow] < MaxCount

Request ==
    /\ WithinBounds /\ inflight < MaxInflight
    /\ \E ok \in BOOLEAN :
          /\ Check("request", ok)
          /\ inflight' = IF ok THEN inflight + 1 ELSE inflight

Response ==
    /\ WithinBounds /\ inflight > 0
    /\ \E ok \in BOOLEAN : Check("headers", ok)
    /\ inflight' = inflight - 1

Second ==
    /\ now < MaxTime
    /\ now' = now + 1
    /\ UNCHANGED <<strategy, backend, grants, stores, inflight, told, refused>>

RateNext == Request \/ Response \/ Second

RateSpec == RateInit /\ [][RateNext]_rateVars

-----------------------------------------------------------------------------
(* Every variable has its type; a list never holds more than the limit, and *)
(* a bucket never more than its burst.                                     *)
RateTypeOK ==
    /\ now \in 0 .. MaxTime
    /\ strategy \in Strategies /\ backend \in Backends
    /\ grants \in Seq([time: 0 .. MaxTime, for: {"request", "headers"}])
    /\ log \subseteq DOMAIN grants /\ Cardinality(log) <= Requests
    /\ zset \subseteq 0 .. MaxTime
    /\ counter \in [Stores -> [Windows -> Nat]]
    /\ bucket \in [Stores -> [tokens: 0 .. Full, last: 0 .. MaxTime]]
    /\ inflight \in 0 .. MaxInflight
    /\ told \in 0 .. Never /\ refused \in (0 .. MaxTime) \cup {NoTime}

(* What was granted in the Window seconds that end with second t.          *)
GrantsUpTo(t) == {i \in DOMAIN grants : t - Window < grants[i].time /\ grants[i].time <= t}

(* The sliding window in memory never grants more than the limit in any    *)
(* Window seconds, wherever they begin.                                    *)
SlidingBound ==
    strategy = "sliding" /\ backend = "memory" =>
        \A t \in 0 .. MaxTime : Cardinality(GrantsUpTo(t)) <= Requests

(* The fixed window never grants more than the limit in a window, and not  *)
(* more than twice the limit when Redis fails on and off.                  *)
FixedBound ==
    strategy = "fixed" =>
        \A w \in Windows :
            Cardinality({i \in DOMAIN grants : grants[i].time \div Window = w})
                <= IF backend = "flaky" THEN 2 * Requests ELSE Requests

(* The token bucket grants, from any second to any later one, at most its  *)
(* burst and what the seconds between them refill; twice that when Redis   *)
(* fails on and off.                                                       *)
BucketBound ==
    strategy = "bucket" =>
        \A t, u \in 0 .. MaxTime :
            t <= u => Window * Cardinality({i \in DOMAIN grants : grants[i].time \in t .. u})
                        <= (IF backend = "flaky" THEN 2 ELSE 1) * (Full + Requests * (u - t))

(* The two strategies that keep counts and not times keep their bounds.    *)
CountsBound == FixedBound /\ BucketBound

(* A caller who comes back when a refusal told it to, nothing being granted *)
(* meanwhile, is not refused again (RateLimitError.retry_after).           *)
RetryHonoured ==
    strategy = "fixed" \/ (strategy = "sliding" /\ backend # "flaky") => refused < told

(* Whatever the store, the sliding window keeps to the rule (manager's     *)
(* rules: "5 attempts per 5 minutes").                                     *)
RuleKept ==
    strategy = "sliding" =>
        \A t \in 0 .. MaxTime : Cardinality(GrantsUpTo(t)) <= Requests
=============================================================================
