----------------------------- MODULE Ratelimit -----------------------------
(***************************************************************************)
(* The rate limiting middleware (ratelimit/ratelimit.go): concurrent       *)
(* requests, on any number of service instances, that share one Redis.     *)
(* A request runs Middleware, which calls Limiter.Check: count the request *)
(* in Redis (one Lua script, or INCR and then EXPIRE when the client has   *)
(* no Eval), read the TTL, decide, and answer.  Every Redis command and    *)
(* every reading of the clock is a step of its own, so the steps of        *)
(* different requests and the passing of time interleave freely.           *)
(*                                                                         *)
(* Time is discrete: TicksPerSecond ticks make a second, and Redis expires *)
(* a counter at the tick at which its TTL runs out.  The services' clocks   *)
(* agree; phase is how far they are into the current second.               *)
(***************************************************************************)
EXTENDS Integers, FiniteSets

CONSTANTS
    Requests,        \* the requests, each handled once
    Limiters,        \* the *Limiter values; each route is guarded by one
    Keys,            \* what KeyFunc may return
    Limit, Burst,    \* Config.Limit and Config.BurstAllowance of a limiter
    Window,          \* Config.Window of a limiter, in ticks
    Prefix,          \* Config.KeyPrefix of a limiter
    TicksPerSecond,  \* how finely time is modelled
    EvalLimiters,    \* those whose client implements RedisClientWithEval
    Faults,          \* the Redis commands that may return an error
    Crashes          \* may the process that handles a request die?

ASSUME RatelimitAssumption ==
    /\ Limit \in [Limiters -> Nat]
    /\ Burst \in [Limiters -> Nat]
    /\ Window \in [Limiters -> Nat \ {0}]
    /\ TicksPerSecond \in Nat \ {0}
    /\ EvalLimiters \subseteq Limiters
    /\ Faults \subseteq {"count", "expire", "ttl"}
    /\ Crashes \in BOOLEAN
    /\ IsFiniteSet(Requests)

VARIABLES
    store,   \* Redis: the counter under each full key
    via,     \* the limiter that guards the route of each request
    key,     \* what KeyFunc returns for each request
    pc,      \* where each request is in Middleware
    cnt,     \* the count Check holds for each request, 0 if it has none
    hit,     \* history: the life of the counter that counted the request
    reset,   \* ticks from now to the resetAt of each request, at least -TicksPerSecond
    retry,   \* ticks from now until the Retry-After of a rejection is over
    phase    \* ticks since the last full second of the wall clock

vars == <<store, via, key, pc, cnt, hit, reset, retry, phase>>

-----------------------------------------------------------------------------
\* Limiters.

\* NewLimiter adds the burst allowance to the limit.
LimitOf(l) == Limit[l] + Burst[l]

\* Mutation: the key prefix is forgotten.
FullKeyNoPrefix(l, k) == <<"ratelimit", k>>

\* Check counts under "prefix:key"; the pair stands for that string.
FullKey(l, k) == <<Prefix[l], k>>

FullKeys == {FullKey(l, k) : l \in Limiters, k \in Keys}

\* int64(d.Seconds()) cuts towards zero; the result is in ticks again.
WholeSeconds(t) ==
    IF t >= 0 THEN (t \div TicksPerSecond) * TicksPerSecond
              ELSE -(((-t) \div TicksPerSecond) * TicksPerSecond)

\* checkAtomic passes int64(window.Seconds()) to EXPIRE.
ScriptExpiry(l) == WholeSeconds(Window[l])

Target(r) == FullKey(via[r], key[r])

\* Mutation: one request too many.
AllowedOneMore(r) == cnt[r] <= LimitOf(via[r]) + 1

Allowed(r) == cnt[r] <= LimitOf(via[r])

-----------------------------------------------------------------------------
\* Redis.  A counter is absent (count 0, TTL reply -2), has no expiry (TTL
\* reply -1), or has a positive TTL.  life numbers the successive lives of
\* the counter under one key: what the limiter calls a window.

NoKey == -2
NoExpiry == -1

Counter == [count : Nat, ttl : Int, life : Nat \ {0}]

Absent(n) == [count |-> 0, ttl |-> NoKey, life |-> n]

Deleted(c) == Absent(c.life + 1)

WithTTL(c, d) == [count |-> c.count, ttl |-> d, life |-> c.life]

Incr(c) == [count |-> c.count + 1,
            ttl   |-> IF c.ttl = NoKey THEN NoExpiry ELSE c.ttl,
            life  |-> c.life]

Expire(c, d) ==
    IF c.count = 0 THEN c
    ELSE IF d > 0 THEN WithTTL(c, d) ELSE Deleted(c)

\* Mutation: the script never sets the expiry.
IncrNoExpire(c, d) == Incr(c)

\* Mutation: every increment sets the expiry anew.
IncrAlwaysExpire(c, d) == Expire(Incr(c), d)

\* incrWithExpireScript: INCR, and EXPIRE when the count becomes 1.
IncrWithExpire(c, d) ==
    IF Incr(c).count = 1 THEN Expire(Incr(c), d) ELSE Incr(c)

\* One tick of the clock of Redis.
Aged(c) == IF c.ttl = 1 THEN Deleted(c)
           ELSE IF c.ttl > 1 THEN WithTTL(c, c.ttl - 1) ELSE c

-----------------------------------------------------------------------------

Steps == {"count", "expire", "ttl", "decide", "reject", "rejected", "served", "dead"}

TypeOK ==
    /\ store \in [FullKeys -> Counter]
    /\ via \in [Requests -> Limiters]
    /\ key \in [Requests -> Keys]
    /\ pc \in [Requests -> Steps]
    /\ cnt \in [Requests -> Nat]
    /\ hit \in [Requests -> Nat]
    /\ reset \in [Requests -> Int]
    /\ retry \in [Requests -> Nat]
    /\ phase \in 0..(TicksPerSecond - 1)

Init ==
    /\ store = [x \in FullKeys |-> Absent(1)]
    /\ via \in [Requests -> Limiters]
    /\ key \in [Requests -> Keys]
    /\ pc = [r \in Requests |-> "count"]
    /\ cnt = [r \in Requests |-> 0]
    /\ hit = [r \in Requests |-> 0]
    /\ reset = [r \in Requests |-> 0]
    /\ retry = [r \in Requests |-> 0]
    /\ phase \in 0..(TicksPerSecond - 1)

-----------------------------------------------------------------------------
\* Steps of a request.

Goto(r, step) == pc' = [pc EXCEPT ![r] = step]

\* SkipFunc holds for the request.
Skip(r) ==
    /\ pc[r] = "count"
    /\ Goto(r, "served")
    /\ UNCHANGED <<store, via, key, cnt, hit, reset, retry, phase>>

\* Redis executes c as the counting command of request r.
Counted(r, c) ==
    /\ store' = [store EXCEPT ![Target(r)] = c]
    /\ hit' = [hit EXCEPT ![r] = store[Target(r)].life]

\* The counting command replies with the new count.
CountReply(r, c) ==
    /\ pc[r] = "count"
    /\ Counted(r, c)
    /\ cnt' = [cnt EXCEPT ![r] = store[Target(r)].count + 1]
    /\ UNCHANGED <<via, key, reset, retry, phase>>

Eval(r) ==
    /\ via[r] \in EvalLimiters
    /\ CountReply(r, IncrWithExpire(store[Target(r)], ScriptExpiry(via[r])))
    /\ Goto(r, "ttl")

\* Without Eval, only the request that created the counter goes on to EXPIRE.
IncrOnly(r) ==
    /\ via[r] \notin EvalLimiters
    /\ CountReply(r, Incr(store[Target(r)]))
    /\ Goto(r, IF cnt'[r] = 1 THEN "expire" ELSE "ttl")

CountingCommand(r) ==
    IF via[r] \in EvalLimiters THEN IncrWithExpire(store[Target(r)], ScriptExpiry(via[r]))
                               ELSE Incr(store[Target(r)])

\* The counting command fails, or only its reply is lost; Check answers
\* (0, limit, now + window, true) and the request goes on.
FailOpen(r) ==
    /\ "count" \in Faults
    /\ pc[r] = "count"
    /\ \/ Counted(r, CountingCommand(r))
       \/ UNCHANGED <<store, hit>>
    /\ reset' = [reset EXCEPT ![r] = Window[via[r]]]
    /\ Goto(r, "served")
    /\ UNCHANGED <<via, key, cnt, retry, phase>>

\* EXPIRE of the fallback path; its error is ignored.
ExpireKey(r) ==
    /\ pc[r] = "expire"
    /\ \/ store' = [store EXCEPT ![Target(r)] = Expire(@, Window[via[r]])]
       \/ "expire" \in Faults /\ UNCHANGED store
    /\ Goto(r, "ttl")
    /\ UNCHANGED <<via, key, cnt, hit, reset, retry, phase>>

\* Mutation: the TTL is cut to whole seconds.
TTLCut(r) ==
    IF store[Target(r)].ttl <= 0 THEN Window[via[r]] ELSE WholeSeconds(store[Target(r)].ttl)

\* calculateResult: the TTL reply, or the window when there is none.
TTLOrWindow(r) ==
    IF store[Target(r)].ttl <= 0 THEN Window[via[r]] ELSE store[Target(r)].ttl

ReadTTL(r) ==
    /\ pc[r] = "ttl"
    /\ \/ reset' = [reset EXCEPT ![r] = TTLOrWindow(r)]
       \/ "ttl" \in Faults /\ reset' = [reset EXCEPT ![r] = Window[via[r]]]
    /\ Goto(r, "decide")
    /\ UNCHANGED <<store, via, key, cnt, hit, retry, phase>>

\* Mutation: the verdict of Check is ignored.
DecideServes(r) ==
    /\ pc[r] = "decide"
    /\ Goto(r, "served")
    /\ UNCHANGED <<store, via, key, cnt, hit, reset, retry, phase>>

\* calculateResult reads the clock (resetAt is reset ticks from this step),
\* compares the count with the limit, and Middleware serves or rejects.
Decide(r) ==
    /\ pc[r] = "decide"
    /\ Goto(r, IF Allowed(r) THEN "served" ELSE "reject")
    /\ UNCHANGED <<store, via, key, cnt, hit, reset, retry, phase>>

\* Mutation: Retry-After counts in units of two seconds.
RetryAfterCoarse(t) == IF t < 0 THEN 0 ELSE 2 * WholeSeconds(t \div 2)

\* Mutation: a reset instant in the past gives a negative Retry-After.
RetryAfterUnclamped(t) == WholeSeconds(t)

\* Retry-After of a reset instant t ticks away: never negative.
RetryAfter(t) == IF WholeSeconds(t) < 0 THEN 0 ELSE WholeSeconds(t)

\* writeRateLimitError reads the clock once more for Retry-After.
WriteRateLimitError(r) ==
    /\ pc[r] = "reject"
    /\ retry' = [retry EXCEPT ![r] = RetryAfter(reset[r])]
    /\ Goto(r, "rejected")
    /\ UNCHANGED <<store, via, key, cnt, hit, reset, phase>>

\* The process dies between two steps of the request.
Crash(r) ==
    /\ Crashes
    /\ pc[r] \in {"expire", "ttl", "decide", "reject"}
    /\ Goto(r, "dead")
    /\ UNCHANGED <<store, via, key, cnt, hit, reset, retry, phase>>

Answered(r) == pc[r] \in {"served", "reject", "rejected"}

\* Ticks from now to the instant X-RateLimit-Reset names: resetAt.Unix() is the
\* full second that resetAt is in.
Announced(r) == ((phase + reset[r]) \div TicksPerSecond) * TicksPerSecond - phase

\* One tick later, t ticks away is t - 1; more than a second ago is all one.
Later(t) == IF t > -TicksPerSecond THEN t - 1 ELSE t

\* Time passes.  resetAt is a fixed instant once calculateResult has read
\* the clock; until then reset is a duration and does not shrink.
Tick ==
    /\ store' = [x \in FullKeys |-> Aged(store[x])]
    /\ reset' = [r \in Requests |-> IF Answered(r) THEN Later(reset[r]) ELSE reset[r]]
    /\ retry' = [r \in Requests |-> IF retry[r] > 0 THEN retry[r] - 1 ELSE 0]
    /\ phase' = (phase + 1) % TicksPerSecond
    /\ UNCHANGED <<via, key, pc, cnt, hit>>

\* What the code does for request r once it has arrived.
Step(r) ==
    \/ Eval(r) \/ IncrOnly(r) \/ FailOpen(r)
    \/ ExpireKey(r) \/ ReadTTL(r) \/ Decide(r) \/ WriteRateLimitError(r)

Next ==
    \/ \E r \in Requests : Skip(r) \/ Step(r) \/ Crash(r)
    \/ Tick

Spec == Init /\ [][Next]_vars

\* Goroutines that are running keep running and time passes.
FairSpec == Spec /\ WF_vars(Tick) /\ \A r \in Requests : WF_vars(Step(r))

-----------------------------------------------------------------------------
\* Properties.

Rejected(r) == pc[r] \in {"reject", "rejected"}

SameBucket(q, r) == via[q] = via[r] /\ key[q] = key[r]

\* The requests counted in the same window of the same bucket as r.
Peers(r) == {q \in Requests : SameBucket(q, r) /\ hit[q] = hit[r]}

\* Of the requests that one life of a counter has counted, at most the limit
\* plus the burst allowance are served on the strength of their count,
\* however their commands interleave (Check: allowed := count <= limit).
AtMostLimitPerWindow ==
    \A r \in Requests :
        Cardinality({q \in Peers(r) : pc[q] = "served" /\ cnt[q] > 0}) <= LimitOf(via[r])

\* A request is rejected only if the limit was already used up in its window
\* by other requests of the same limiter and key: another limiter's traffic,
\* another client, or an earlier window never costs it its place.
RejectedOnlyByOwnTraffic ==
    \A r \in Requests :
        Rejected(r) => Cardinality(Peers(r) \ {r}) >= LimitOf(via[r])

-----------------------------------------------------------------------------
\* The inductive invariant behind the two counting properties (its proof is in
\* RatelimitProofs).

\* A request that has not been counted holds no count.
Fresh(r) == pc[r] = "count" => cnt[r] = 0 /\ hit[r] = 0

\* What r was told is at most what its counter shows, while that life lasts.
CountBound(r) ==
    /\ hit[r] <= store[Target(r)].life
    /\ hit[r] = store[Target(r)].life => cnt[r] <= store[Target(r)].count

\* No two requests counted in one life of a counter are told the same count.
CountsDistinct(q, r) ==
    /\ q # r /\ Target(q) = Target(r) /\ hit[q] = hit[r]
    /\ cnt[q] > 0 /\ cnt[r] > 0
    => cnt[q] # cnt[r]

\* The middleware acts on the comparison of the count with the limit.
Decided(r) ==
    /\ pc[r] = "served" /\ cnt[r] > 0 => Allowed(r)
    /\ pc[r] \in {"reject", "rejected"} => ~Allowed(r)

\* The requests counted in life n of the counter under x.
CountedIn(x, n) == {r \in Requests : Target(r) = x /\ hit[r] = n}

\* The counter shows how many requests its life has counted ...
CounterExact(x) == store[x].count = Cardinality(CountedIn(x, store[x].life))

\* ... and what a request is told is never more than that.
CountEarned(r) ==
    cnt[r] > 0 => hit[r] > 0 /\ cnt[r] <= Cardinality(CountedIn(Target(r), hit[r]))

CountingExact ==
    /\ \A r \in Requests : CountBound(r) /\ CountEarned(r)
    /\ \A q, r \in Requests : CountsDistinct(q, r)
    /\ \A x \in FullKeys : CounterExact(x)

\* Counting is exact, whatever the order of the commands, faults and
\* expiries: no count is handed out twice or invented, and the middleware
\* acts on the count it was given.
IInv ==
    /\ TypeOK
    /\ \A r \in Requests : Fresh(r) /\ Decided(r)
    /\ CountingExact

-----------------------------------------------------------------------------
\* Time, liveness and refinement.

\* Once the instant announced in X-RateLimit-Reset has come, the window that
\* counted the request is over or has less than a second left: resetAt.Unix()
\* cuts off less than a second, and resetAt itself is never early, since the
\* clock is read after the TTL.
ResetUnderASecondEarly ==
    \A r \in Requests :
        Answered(r) /\ Announced(r) <= 0 /\ store[Target(r)].life = hit[r]
            => store[Target(r)].ttl < TicksPerSecond

\* Retry-After is cut to whole seconds and read later than resetAt, but a
\* client that waits it out is at most a second early.
RetryAfterUnderASecondEarly ==
    \A r \in Requests :
        pc[r] = "rejected" /\ retry[r] = 0 /\ store[Target(r)].life = hit[r]
            => store[Target(r)].ttl < TicksPerSecond

\* The counters only scripts count in.
ScriptKeys ==
    {x \in FullKeys : \A l \in Limiters : Prefix[l] = x[1] => l \in EvalLimiters}

\* A counter that the script counts in eventually goes away, whatever fails or
\* crashes, so that a key at its limit is let in again.
CounterEventuallyResets ==
    \A x \in ScriptKeys : store[x].count > 0 ~> store[x].count = 0

\* Whether or not the EXPIRE of a counter fails, the key goes on working ("the
\* key will still work, just may persist longer"): after a rejection its counter
\* is below the limit again some time.
KeysKeepWorking ==
    \A r \in Requests : Rejected(r) ~> store[Target(r)].count < LimitOf(via[r])

\* The limiter is a fixed window counter: the life of a counter is a window
\* of exactly the configured length, and counting is the atomic decision.
FW == INSTANCE FixedWindow WITH
    Buckets <- Limiters \X Keys,
    Quota   <- [b \in Limiters \X Keys |-> LimitOf(b[1])],
    Length  <- [b \in Limiters \X Keys |-> Window[b[1]]],
    bucket  <- [r \in Requests |-> <<via[r], key[r]>>],
    used    <- [b \in Limiters \X Keys |->
                  IF store[FullKey(b[1], b[2])].count < LimitOf(b[1])
                  THEN store[FullKey(b[1], b[2])].count ELSE LimitOf(b[1])],
    left    <- [b \in Limiters \X Keys |->
                  IF store[FullKey(b[1], b[2])].count = 0
                  THEN 0 ELSE store[FullKey(b[1], b[2])].ttl],
    verdict <- [r \in Requests |->
                  IF cnt[r] > 0 THEN IF Allowed(r) THEN "admitted" ELSE "rejected"
                  ELSE IF pc[r] = "served" THEN "bypassed" ELSE "none"]

\* Check behaves as the abstract fixed window counter does, step by step.
ImplementsFixedWindow == FW!FWSpec

=============================================================================
