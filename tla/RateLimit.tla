----------------------------- MODULE RateLimit ------------------------------
(***************************************************************************)
(* The limiter of src/ratelimit.ts over one key of one of its stores: the  *)
(* counter of MemoryStore, the bucket of TokenBucketStore, or the sorted   *)
(* set of RedisRateLimitStore, which several processes share and whose     *)
(* transactions arrive with the time they were sent.  Keys (a tenant's are *)
(* prefixed) share nothing.  Tokens are counted in parts of 1/WindowMs, so *)
(* that a tick refills Limit of them; JavaScript's rounding is left out.   *)
(***************************************************************************)
EXTENDS Integers, FiniteSets

CONSTANTS
  Store,      \* the stores used: a subset of {"memory", "bucket", "redis"}
  Limit,      \* options.max
  WindowMs,   \* options.windowMs, in ticks
  MaxAge,     \* idle time after which cleanup() drops an entry, in ticks
  Lag,        \* bound on the time a Redis transaction is on its way
  Requests,   \* bound on the requests
  MaxClock    \* bound on the clock

VARIABLES
  kind,      \* the store in use
  clock,     \* Date.now()
  count, startTime,     \* MemoryStore's entry; count = 0 when there is none
  tokens, lastRefill,   \* TokenBucketStore's entry, or None
  members,   \* the sorted set: <<request, score>>
  sent,      \* Redis transactions on their way
  asked,     \* requests made so far
  admitted   \* history: <<request, time>> of those let through

entries == <<count, startTime, tokens, lastRefill, members>>
limitVars == <<kind, clock, entries, sent, asked, admitted>>

None == -1
Full == Limit * WindowMs

Init ==
  /\ kind \in Store
  /\ clock = 0 /\ count = 0 /\ startTime = 0
  /\ tokens = None /\ lastRefill = None
  /\ members = {} /\ sent = {} /\ asked = 0
  /\ admitted = {}

\* rateLimitMiddleware(): a negative `remaining` refuses the request.
Answer(n, at, remaining) ==
  admitted' = IF remaining < 0 THEN admitted ELSE admitted \cup {<<n, at>>}

-----------------------------------------------------------------------------
\* MemoryStore.increment(): the first request of a window starts it.
MemoryExpired == count = 0 \/ clock - startTime >= WindowMs

MemoryIncrement ==
  /\ kind = "memory" /\ asked < Requests
  /\ asked' = asked + 1
  /\ IF MemoryExpired
     THEN count' = 1 /\ startTime' = clock
     ELSE count' = count + 1 /\ UNCHANGED startTime
  /\ Answer(asked', clock, Limit - count')
  /\ UNCHANGED <<kind, clock, tokens, lastRefill, members, sent>>

\* TokenBucketStore.increment(): refill, then take a token, from a refused
\* request too.
Least(a, b) == IF a < b THEN a ELSE b

RefilledUncapped == tokens + (clock - lastRefill) * Limit
Refilled == Least(Full, tokens + (clock - lastRefill) * Limit)

BucketIncrement ==
  /\ kind = "bucket" /\ asked < Requests
  /\ asked' = asked + 1
  /\ tokens' = (IF lastRefill = None THEN Full ELSE Refilled) - WindowMs
  /\ lastRefill' = clock
  /\ Answer(asked', clock, tokens')
  /\ UNCHANGED <<kind, clock, count, startTime, members, sent>>

\* RedisRateLimitStore.increment(): the time is read, then a MULTI is sent.
RedisSend ==
  /\ kind = "redis" /\ asked < Requests
  /\ asked' = asked + 1
  /\ sent' = sent \cup {<<asked', clock>>}
  /\ UNCHANGED <<kind, clock, entries, admitted>>

\* ZREMRANGEBYSCORE, ZADD, ZCARD: a refused request stays counted.
RedisExec(r) ==
  /\ r \in sent
  /\ sent' = sent \ {r}
  /\ members' = {m \in members : m[2] > r[2] - WindowMs} \cup {r}
  /\ Answer(r[1], r[2], Limit - Cardinality(members'))
  /\ UNCHANGED <<kind, clock, count, startTime, tokens, lastRefill, asked>>

\* cleanup() of the stores in memory, and the TTL of the sorted set.
Cleanup ==
  /\ \/ /\ kind = "memory" /\ count > 0 /\ clock - startTime > MaxAge
        /\ count' = 0
        /\ UNCHANGED <<startTime, tokens, lastRefill, members>>
     \/ /\ kind = "bucket" /\ lastRefill # None /\ clock - lastRefill > MaxAge
        /\ tokens' = None /\ lastRefill' = None
        /\ UNCHANGED <<count, startTime, members>>
     \/ /\ kind = "redis" /\ members # {}
        /\ \A m \in members : clock - m[2] > MaxAge
        /\ members' = {}
        /\ UNCHANGED <<count, startTime, tokens, lastRefill>>
  /\ UNCHANGED <<kind, clock, sent, asked, admitted>>

\* reset(): the key starts afresh, and so does what is said of it.
Reset ==
  /\ admitted # {}
  /\ count' = 0 /\ tokens' = None /\ lastRefill' = None /\ members' = {}
  /\ admitted' = {}
  /\ UNCHANGED <<kind, clock, startTime, sent, asked>>

Tick ==
  /\ clock < MaxClock
  /\ \A r \in sent : clock - r[2] < Lag
  /\ clock' = clock + 1
  /\ UNCHANGED <<kind, entries, sent, asked, admitted>>

Next ==
  \/ MemoryIncrement \/ BucketIncrement \/ RedisSend
  \/ \E r \in sent : RedisExec(r)
  \/ Cleanup \/ Reset \/ Tick

Spec == Init /\ [][Next]_limitVars

-----------------------------------------------------------------------------
\* What a store lets through in a stretch of WindowMs: a counter two windows'
\* worth, a bucket what it holds and what drips in meanwhile.  The sorted set
\* keeps to the limit in stretches shorter by what a transaction is late: one
\* that overtakes another has removed members the other should count.
Allowance ==
  CASE kind = "memory" -> 2 * Limit
    [] kind = "bucket" -> (Full + (WindowMs - 1) * Limit) \div WindowMs
    [] kind = "redis" -> Limit
Stretch == IF kind = "redis" THEN WindowMs - Lag ELSE WindowMs

\* However requests, refills, cleanups of idle entries and late Redis
\* transactions fall, no stretch of time lets more through than the store
\* allows; a cleanup never forgets requests that still count.
RateBounded ==
  \A a \in admitted :
    Cardinality({b \in admitted : b[2] >= a[2] /\ b[2] < a[2] + Stretch}) <= Allowance
=============================================================================
