----------------------- MODULE RatelimitWindowProofs -----------------------
(***************************************************************************)
(* Proofs about time in Ratelimit: the instants announced to clients, and  *)
(* the fixed window counter that Check implements.  They hold of services  *)
(* whose limiters all count with the script and have prefixes of their     *)
(* own.  The argument: a counter exists just as long as it has time left,  *)
(* and what a request was told of that time is never less than what is     *)
(* left, because the clock is read after the TTL.                          *)
(***************************************************************************)
EXTENDS RatelimitProofs

\* Every limiter counts with the script, in counters of its own.
OwnScripts == EvalLimiters = Limiters /\ PrefixesDiffer

\* A counter exists just as long as it has time left, and that is at most the
\* window of its limiter.
Lasting(c) ==
    /\ c.count = 0 => c.ttl = NoKey
    /\ c.count > 0 => c.ttl > 0

LastsAWindow(x) ==
    /\ Lasting(store[x])
    /\ \A l \in Limiters : Prefix[l] = x[1] => store[x].ttl <= Window[l]

\* While the life that counted r lasts, r was told at least what is left of it.
ToldEnough(r) ==
    hit[r] = store[Target(r)].life =>
        /\ pc[r] = "decide" \/ Answered(r) => store[Target(r)].ttl <= reset[r]
        /\ pc[r] = "rejected" => store[Target(r)].ttl < retry[r] + TicksPerSecond

\* A request beyond the counting command has its count, and none is on the
\* fallback path.
Counting(r) == pc[r] \in {"count", "served"} \/ (pc[r] # "expire" /\ cnt[r] > 0)

Timed ==
    /\ \A x \in FullKeys : LastsAWindow(x)
    /\ \A r \in Requests : ToldEnough(r) /\ Counting(r)

-----------------------------------------------------------------------------
\* Durations and counters.

\* A positive duration is cut by less than a second.
LEMMA WholeSecondsBounds ==
    ASSUME NEW t \in Nat
    PROVE  /\ WholeSeconds(t) \in Nat
           /\ WholeSeconds(t) <= t /\ t < WholeSeconds(t) + TicksPerSecond
<1> DEFINE n == TicksPerSecond
           q == t \div n
<1>1. n \in Nat \ {0}
    BY RatelimitAssumption
<1>2. q \in Nat /\ q * n <= t /\ t < q * n + n
    BY <1>1, Z3
<1>3. WholeSeconds(t) = q * n
    BY DEF WholeSeconds
<1>4. q * n \in Nat
    BY <1>1, <1>2
<1> QED
    BY <1>2, <1>3, <1>4

\* The script counts in a counter that lasts; if there is none it makes one
\* that lasts for the window in whole seconds, and none if that is zero.
LEMMA ScriptOnLasting ==
    ASSUME NEW c \in Counter, Lasting(c), NEW d \in Nat,
           NEW e, e = IncrWithExpire(c, d)
    PROVE  /\ e \in Counter /\ Lasting(e)
           /\ c.count > 0 =>
                e.count = c.count + 1 /\ e.ttl = c.ttl /\ e.life = c.life
           /\ c.count = 0 /\ d > 0 =>
                e.count = 1 /\ e.ttl = d /\ e.life = c.life
           /\ c.count = 0 /\ d = 0 =>
                e.count = 0 /\ e.ttl = NoKey /\ e.life = c.life + 1
BY DEF Counter, Lasting, IncrWithExpire, Incr, Expire, WithTTL, Deleted, Absent, NoKey, NoExpiry

\* A tick takes one tick from a counter that lasts, or ends its life.
LEMMA AgedLasting ==
    ASSUME NEW c \in Counter, Lasting(c), NEW e, e = Aged(c)
    PROVE  /\ e \in Counter /\ Lasting(e) /\ e.ttl <= c.ttl
           /\ c.count = 0 => e = c
           /\ c.ttl = 1 => e.count = 0 /\ e.ttl = NoKey /\ e.life = c.life + 1
           /\ c.count > 0 /\ c.ttl # 1 =>
                e.count = c.count /\ e.ttl = c.ttl - 1 /\ e.life = c.life
BY DEF Counter, Lasting, Aged, WithTTL, Deleted, Absent, NoKey

\* The life that counted a request has counted somebody.
LEMMA LifeHasCounted ==
    ASSUME IInv, NEW r \in Requests, hit[r] = store[Target(r)].life
    PROVE  store[Target(r)].count > 0
<1> DEFINE S == CountedIn(Target(r), hit[r])
<1>1. r \in S /\ IsFiniteSet(S) /\ Cardinality(S) \in Nat
    BY CountedInFinite DEF CountedIn
<1>2. Cardinality(S) # 0
    BY <1>1, FS_EmptySet
<1>3. store[Target(r)].count = Cardinality(S)
    BY TargetType DEF IInv, CountingExact, CounterExact
<1> QED
    BY <1>1, <1>2, <1>3

\* The counter of a request, and the windows of its limiter.
LEMMA TargetFacts ==
    ASSUME IInv, Timed, NEW r \in Requests
    PROVE  /\ Target(r) \in FullKeys /\ via[r] \in Limiters
           /\ store[Target(r)] \in Counter /\ Lasting(store[Target(r)])
           /\ Prefix[via[r]] = Target(r)[1]
           /\ store[Target(r)].ttl <= Window[via[r]]
           /\ Window[via[r]] \in Nat \ {0}
           /\ ScriptExpiry(via[r]) \in Nat /\ ScriptExpiry(via[r]) <= Window[via[r]]
<1>1. Target(r) \in FullKeys /\ via[r] \in Limiters /\ store[Target(r)] \in Counter
    BY TargetType DEF IInv, TypeOK
<1>2. Window[via[r]] \in Nat \ {0}
    BY <1>1, RatelimitAssumption
<1>3. Prefix[via[r]] = Target(r)[1]
    BY DEF Target, FullKey
<1>4. LastsAWindow(Target(r))
    BY <1>1 DEF Timed
<1> QED
    BY <1>1, <1>2, <1>3, <1>4, WholeSecondsBounds DEF LastsAWindow, ScriptExpiry

-----------------------------------------------------------------------------
\* The invariant of time.

\* At the start there is no counter.
LEMMA TimedInit == Init => Timed
<1> SUFFICES ASSUME Init
             PROVE  Timed
    OBVIOUS
<1>1. TypeOK
    BY TypeInit
<1>2. ASSUME NEW x \in FullKeys
      PROVE  LastsAWindow(x)
    BY RatelimitAssumption DEF Init, LastsAWindow, Lasting, Absent, NoKey
<1>3. ASSUME NEW r \in Requests
      PROVE  ToldEnough(r) /\ Counting(r)
    <2>1. store[Target(r)].life = 1 /\ hit[r] = 0
        BY <1>1, TargetType DEF Init, Absent
    <2> QED
        BY <2>1 DEF Init, ToldEnough, Counting
<1> QED
    BY <1>2, <1>3 DEF Timed

\* The script lets every counter last, takes nothing from the life another
\* request was counted in, and gives its own life no more than the window.
LEMMA ScriptCounts ==
    ASSUME OwnScripts, IInv, IInv', Timed, NEW r \in Requests,
           Counted(r, CountingCommand(r)), UNCHANGED <<via, key>>
    PROVE  /\ \A x \in FullKeys : LastsAWindow(x)'
           /\ \A q \in Requests \ {r} :
                hit'[q] = store'[Target(q)'].life =>
                    /\ hit[q] = store[Target(q)].life
                    /\ store'[Target(q)'].ttl = store[Target(q)].ttl
           /\ store'[Target(r)'].ttl <= Window[via'[r]]
<1> DEFINE T == Target(r)
           c == store[T]
           l == via[r]
           d == ScriptExpiry(l)
           e == CountingCommand(r)
<1>1. /\ T \in FullKeys /\ l \in Limiters /\ c \in Counter /\ Lasting(c)
      /\ Prefix[l] = T[1] /\ c.ttl <= Window[l] /\ Window[l] \in Nat \ {0}
      /\ d \in Nat /\ d <= Window[l]
    BY TargetFacts
<1>2. e = IncrWithExpire(c, d)
    BY <1>1 DEF CountingCommand, OwnScripts
<1>3. /\ store' = [store EXCEPT ![T] = e] /\ hit' = [hit EXCEPT ![r] = c.life]
      /\ store \in [FullKeys -> Counter] /\ hit \in [Requests -> Nat]
    BY DEF Counted, IInv, TypeOK
<1>4. \A q : Target(q)' = Target(q)
    BY DEF Target
<1>5. /\ Lasting(e) /\ e.ttl <= Window[l] /\ e \in Counter
      /\ c.count > 0 => e.ttl = c.ttl
      /\ c.count = 0 => e.life = c.life + 1 \/ (e.count = 1 /\ e.life = c.life)
    <2> HIDE DEF e, d, c, l, T
    <2>1. /\ e \in Counter /\ Lasting(e)
          /\ c.count > 0 => e.count = c.count + 1 /\ e.ttl = c.ttl /\ e.life = c.life
          /\ c.count = 0 /\ d > 0 => e.count = 1 /\ e.ttl = d /\ e.life = c.life
          /\ c.count = 0 /\ d = 0 => e.count = 0 /\ e.ttl = NoKey /\ e.life = c.life + 1
        BY <1>1, <1>2, ScriptOnLasting
    <2>2. c.count \in Nat /\ e.count \in Nat
        BY <1>1, <2>1 DEF Counter
    <2> QED
        BY <1>1, <2>1, <2>2 DEF NoKey
<1>6. store'[T] = e /\ \A x \in FullKeys \ {T} : store'[x] = store[x]
    BY <1>1, <1>3
<1> HIDE DEF e, d, c
<1>7. ASSUME NEW x \in FullKeys
      PROVE  LastsAWindow(x)'
    <2>1. CASE x = T
        <3>1. \A m \in Limiters : Prefix[m] = x[1] => m = l
            BY <1>1, <2>1 DEF OwnScripts, PrefixesDiffer
        <3> QED
            BY <1>5, <1>6, <2>1, <3>1 DEF LastsAWindow, Lasting
    <2>2. CASE x # T
        BY <1>6, <2>2 DEF Timed, LastsAWindow, Lasting
    <2> QED
        BY <2>1, <2>2
<1>8. ASSUME NEW q \in Requests \ {r}, hit'[q] = store'[Target(q)'].life
      PROVE  /\ hit[q] = store[Target(q)].life
             /\ store'[Target(q)'].ttl = store[Target(q)].ttl
    <2>1. hit'[q] = hit[q] /\ Target(q) \in FullKeys
        BY <1>3, TargetType DEF IInv
    <2>2. CASE Target(q) # T
        BY <1>4, <1>6, <1>8, <2>1, <2>2
    <2>3. CASE Target(q) = T /\ c.count > 0
        <3>1. Bumped(c, e) /\ CountBound(q) /\ {c.life, hit[q]} \subseteq Nat /\ c.count \in Nat
            BY <1>1, <2>1, CountingCommandType DEF IInv, TypeOK, CountingExact, Counter, c, e
        <3>2. hit[q] <= c.life /\ hit[q] = e.life
            BY <1>4, <1>6, <1>8, <2>1, <2>3, <3>1 DEF CountBound, c
        <3>3. hit[q] = c.life
            BY <1>5, <3>1, <3>2 DEF Bumped
        <3> QED
            BY <1>4, <1>5, <1>6, <2>3, <3>3 DEF c
    <2>4. CASE Target(q) = T /\ c.count = 0
        <3>1. hit[q] # c.life /\ hit[q] <= c.life /\ {c.life, hit[q]} \subseteq Nat
            <4>1. CountBound(q) /\ {c.life, hit[q]} \subseteq Nat
                BY <1>1 DEF IInv, TypeOK, CountingExact, Counter
            <4>2. hit[q] # c.life
                BY <1>1, <2>4, LifeHasCounted DEF c, Counter
            <4> QED
                BY <2>4, <4>1, <4>2 DEF CountBound, c
        <3>2. hit[q] = e.life
            BY <1>4, <1>6, <1>8, <2>1, <2>4
        <3> QED
            BY <1>5, <2>4, <3>1, <3>2
    <2>5. c.count \in Nat
        BY <1>1 DEF Counter
    <2> QED
        BY <2>2, <2>3, <2>4, <2>5
<1> QED
    BY <1>4, <1>5, <1>6, <1>7, <1>8

\* A step that leaves Redis alone keeps what is known of time, if it does for
\* the request that takes it.
LEMMA StoreAlone ==
    ASSUME Timed, NEW r \in Requests, UNCHANGED <<store, via, key, hit>>,
           \A q \in Requests \ {r} :
               pc'[q] = pc[q] /\ cnt'[q] = cnt[q] /\ reset'[q] = reset[q] /\ retry'[q] = retry[q],
           ToldEnough(r)', Counting(r)'
    PROVE  Timed'
<1>1. \A x \in FullKeys : LastsAWindow(x)'
    BY DEF Timed, LastsAWindow, Lasting
<1>2. ASSUME NEW q \in Requests \ {r}
      PROVE  ToldEnough(q)' /\ Counting(q)'
    <2>1. ToldEnough(q) /\ Counting(q) /\ Target(q)' = Target(q)
        BY DEF Timed, Target
    <2> QED
        BY <2>1 DEF ToldEnough, Counting, Answered
<1> QED
    BY <1>1, <1>2 DEF Timed

\* A step in which the script counts r keeps it, if r has been told of no
\* time yet, or of its whole window.
LEMMA CountedTimed ==
    ASSUME OwnScripts, IInv, IInv', Timed, NEW r \in Requests,
           Counted(r, CountingCommand(r)), UNCHANGED <<via, key>>,
           \A q \in Requests \ {r} :
               pc'[q] = pc[q] /\ cnt'[q] = cnt[q] /\ reset'[q] = reset[q] /\ retry'[q] = retry[q],
           pc'[r] = "ttl" \/ (pc'[r] = "served" /\ reset'[r] = Window[via[r]]),
           Counting(r)'
    PROVE  Timed'
<1>1. \A x \in FullKeys : LastsAWindow(x)'
    BY ScriptCounts
<1>2. ASSUME NEW q \in Requests \ {r}
      PROVE  ToldEnough(q)' /\ Counting(q)'
    <2>1. ToldEnough(q) /\ Counting(q)
        BY DEF Timed
    <2>2. hit'[q] = store'[Target(q)'].life =>
             /\ hit[q] = store[Target(q)].life
             /\ store'[Target(q)'].ttl = store[Target(q)].ttl
        BY ScriptCounts
    <2> QED
        BY <2>1, <2>2 DEF ToldEnough, Counting, Answered
<1>3. ToldEnough(r)'
    <2>1. store'[Target(r)'].ttl <= Window[via'[r]]
        BY ScriptCounts
    <2> QED
        BY <2>1 DEF ToldEnough, Answered
<1> QED
    BY <1>1, <1>2, <1>3 DEF Timed

\* Time passes for counters and announced instants alike.
LEMMA TickTimed ==
    ASSUME IInv, IInv', Timed, Tick
    PROVE  Timed'
<1>1. TypeOK /\ TypeOK'
    BY DEF IInv
<1>2. ASSUME NEW x \in FullKeys
      PROVE  /\ store[x] \in Counter /\ Lasting(store[x]) /\ store'[x] = Aged(store[x])
             /\ Lasting(store'[x]) /\ store'[x].ttl <= store[x].ttl /\ store'[x] \in Counter
    <2>1. store[x] \in Counter /\ Lasting(store[x]) /\ store'[x] = Aged(store[x])
        BY <1>1 DEF TypeOK, Timed, LastsAWindow, Tick
    <2> QED
        BY <2>1, AgedLasting
<1>3. ASSUME NEW x \in FullKeys
      PROVE  LastsAWindow(x)'
    <2>1. \A l \in Limiters : Window[l] \in Int
        BY RatelimitAssumption
    <2>2. store[x].ttl \in Int /\ store'[x].ttl \in Int
        BY <1>2 DEF Counter
    <2>3. LastsAWindow(x)
        BY DEF Timed
    <2> QED
        BY <1>2, <2>1, <2>2, <2>3 DEF LastsAWindow, Lasting
<1>4. ASSUME NEW r \in Requests
      PROVE  ToldEnough(r)' /\ Counting(r)'
    <2> DEFINE c == store[Target(r)]
               e == store'[Target(r)]
    <2>1. /\ Target(r) \in FullKeys /\ Target(r)' = Target(r)
          /\ pc'[r] = pc[r] /\ cnt'[r] = cnt[r] /\ hit'[r] = hit[r]
          /\ ToldEnough(r) /\ Counting(r)
        BY <1>1, TargetType DEF Tick, Target, Timed
    <2>2. /\ c \in Counter /\ Lasting(c) /\ e = Aged(c)
        BY <1>2, <2>1
    <2>3. Counting(r)'
        BY <2>1 DEF Counting
    <2>4. SUFFICES ASSUME hit[r] = e.life
                   PROVE  /\ pc[r] = "decide" \/ Answered(r) => e.ttl <= reset'[r]
                          /\ pc[r] = "rejected" => e.ttl < retry'[r] + TicksPerSecond
        BY <2>1, <2>3 DEF ToldEnough, Answered
    <2>5. /\ hit[r] \in Nat /\ hit[r] <= c.life
          /\ reset[r] \in Int /\ retry[r] \in Nat
        BY <1>1 DEF IInv, CountingExact, CountBound, TypeOK
    <2>6. c.count > 0 /\ c.ttl # 1 /\ e.ttl = c.ttl - 1 /\ e.life = c.life /\ hit[r] = c.life
        <3>1. CASE c.count = 0
            <4>1. e = c
                BY <2>2, <3>1, AgedLasting
            <4>2. hit[r] = store[Target(r)].life
                BY <2>4, <4>1
            <4> QED
                BY <3>1, <4>2, LifeHasCounted
        <3>2. CASE c.count > 0 /\ c.ttl = 1
            BY <2>2, <2>4, <2>5, <3>2, AgedLasting DEF Counter
        <3>3. CASE c.count > 0 /\ c.ttl # 1
            BY <2>2, <2>4, <3>3, AgedLasting
        <3> QED
            BY <2>2, <3>1, <3>2, <3>3 DEF Counter
    <2>7. c.ttl > 1 /\ c.ttl \in Int
        BY <2>2, <2>6 DEF Lasting, Counter
    <2>8. pc[r] = "decide" => e.ttl <= reset'[r]
        BY <2>1, <2>5, <2>6, <2>7 DEF ToldEnough, Tick, Answered
    <2>9. Answered(r) => e.ttl <= reset'[r]
        BY <2>1, <2>5, <2>6, <2>7, RatelimitAssumption DEF ToldEnough, Tick, Later
    <2>10. pc[r] = "rejected" => e.ttl < retry'[r] + TicksPerSecond
        BY <2>1, <2>5, <2>6, <2>7, RatelimitAssumption DEF ToldEnough, Tick
    <2> QED
        BY <2>8, <2>9, <2>10
<1> QED
    BY <1>3, <1>4 DEF Timed

\* Every step keeps what is known of time.
LEMMA TimedNext ==
    ASSUME OwnScripts, IInv, IInv', Timed, [Next]_vars
    PROVE  Timed'
<1>1. TypeOK /\ TypeOK'
    BY DEF IInv
<1>2. ASSUME NEW r \in Requests
      PROVE  ToldEnough(r) /\ Counting(r) /\ Fresh(r) /\ (UNCHANGED <<via, key>> => Target(r)' = Target(r))
    BY DEF Timed, IInv, Target
<1>3. ASSUME NEW r \in Requests, Skip(r)
      PROVE  Timed'
    <2>1. hit[r] = 0 /\ store[Target(r)] \in Counter
        BY <1>2, <1>3, TargetFacts DEF Skip, Fresh
    <2>2. ToldEnough(r)' /\ Counting(r)'
        BY <1>1, <1>2, <1>3, <2>1 DEF Skip, Goto, ToldEnough, Counting, TypeOK, Counter
    <2> QED
        BY <1>1, <1>3, <2>2, StoreAlone DEF Skip, Goto, TypeOK
<1>4. ASSUME NEW r \in Requests, Eval(r)
      PROVE  Timed'
    <2>1. CountReply(r, CountingCommand(r)) /\ Goto(r, "ttl")
        BY <1>4 DEF Eval, CountingCommand
    <2>2. cnt' = [cnt EXCEPT ![r] = store[Target(r)].count + 1] /\ store[Target(r)].count \in Nat
        BY <2>1, TargetFacts DEF CountReply, Counter
    <2>3. pc'[r] = "ttl" /\ cnt'[r] > 0
        BY <1>1, <2>1, <2>2 DEF Goto, TypeOK
    <2> QED
        BY <1>1, <2>1, <2>2, <2>3, CountedTimed DEF CountReply, Goto, TypeOK, Counting
<1>5. ASSUME NEW r \in Requests, FailOpen(r)
      PROVE  Timed'
    <2>1. /\ pc'[r] = "served" /\ reset'[r] = Window[via[r]] /\ Counting(r)'
          /\ UNCHANGED <<via, key>>
          /\ \A q \in Requests \ {r} :
               pc'[q] = pc[q] /\ cnt'[q] = cnt[q] /\ reset'[q] = reset[q] /\ retry'[q] = retry[q]
        BY <1>1, <1>5 DEF FailOpen, Goto, TypeOK, Counting
    <2>2. CASE Counted(r, CountingCommand(r))
        BY <2>1, <2>2, CountedTimed
    <2>3. CASE UNCHANGED <<store, hit>>
        <3>1. Target(r)' = Target(r) /\ store[Target(r)].ttl <= Window[via[r]]
            BY <1>2, <2>1, TargetFacts
        <3>2. ToldEnough(r)'
            BY <2>1, <2>3, <3>1 DEF ToldEnough
        <3> QED
            BY <2>1, <2>3, <3>2, StoreAlone
    <2> QED
        BY <1>5, <2>2, <2>3 DEF FailOpen
<1>6. ASSUME NEW r \in Requests, ReadTTL(r)
      PROVE  Timed'
    <2>1. /\ pc[r] = "ttl" /\ pc' = [pc EXCEPT ![r] = "decide"]
          /\ UNCHANGED <<store, via, key, cnt, hit, retry>>
        BY <1>6 DEF ReadTTL, Goto
    <2>2. /\ store[Target(r)].ttl <= reset'[r]
          /\ \A q \in Requests \ {r} : reset'[q] = reset[q]
        BY <1>1, <1>6, TargetFacts DEF ReadTTL, TTLOrWindow, TypeOK, Counter
    <2>3. ToldEnough(r)' /\ Counting(r)'
        BY <1>1, <1>2, <2>1, <2>2 DEF ToldEnough, Counting, TypeOK
    <2> QED
        BY <1>1, <2>1, <2>2, <2>3, StoreAlone DEF TypeOK
<1>7. ASSUME NEW r \in Requests, Decide(r)
      PROVE  Timed'
    <2>1. /\ pc[r] = "decide" /\ pc'[r] \in {"served", "reject"}
          /\ UNCHANGED <<store, via, key, cnt, hit, reset, retry>>
          /\ \A q \in Requests \ {r} : pc'[q] = pc[q]
        BY <1>1, <1>7 DEF Decide, Goto, TypeOK
    <2>2. ToldEnough(r)' /\ Counting(r)'
        BY <1>2, <2>1 DEF ToldEnough, Counting
    <2> QED
        BY <2>1, <2>2, StoreAlone
<1>8. ASSUME NEW r \in Requests, WriteRateLimitError(r)
      PROVE  Timed'
    <2>1. /\ pc[r] = "reject" /\ pc'[r] = "rejected" /\ retry'[r] = RetryAfter(reset[r])
          /\ UNCHANGED <<store, via, key, cnt, hit, reset>>
          /\ \A q \in Requests \ {r} : pc'[q] = pc[q] /\ retry'[q] = retry[q]
        BY <1>1, <1>8 DEF WriteRateLimitError, Goto, TypeOK
    <2>2. ToldEnough(r)'
        <3>1. SUFFICES ASSUME hit[r] = store[Target(r)].life
                       PROVE  /\ store[Target(r)].ttl <= reset[r]
                              /\ store[Target(r)].ttl < RetryAfter(reset[r]) + TicksPerSecond
            BY <1>2, <2>1 DEF ToldEnough
        <3>2. store[Target(r)].ttl <= reset[r]
            BY <1>2, <2>1, <3>1 DEF ToldEnough, Answered
        <3>3. store[Target(r)].ttl > 0 /\ store[Target(r)].ttl \in Int /\ reset[r] \in Nat
            BY <1>1, <3>1, <3>2, LifeHasCounted, TargetFacts DEF Lasting, Counter, TypeOK
        <3>4. WholeSeconds(reset[r]) \in Nat /\ reset[r] < WholeSeconds(reset[r]) + TicksPerSecond
            BY <3>3, WholeSecondsBounds
        <3> QED
            BY <3>2, <3>3, <3>4, RatelimitAssumption DEF RetryAfter
    <2>3. Counting(r)'
        BY <1>2, <2>1 DEF Counting
    <2> QED
        BY <2>1, <2>2, <2>3, StoreAlone
<1>9. ASSUME NEW r \in Requests, Crash(r)
      PROVE  Timed'
    <2>1. /\ pc[r] \in {"expire", "ttl", "decide", "reject"} /\ pc'[r] = "dead"
          /\ UNCHANGED <<store, via, key, cnt, hit, reset, retry>>
          /\ \A q \in Requests \ {r} : pc'[q] = pc[q]
        BY <1>1, <1>9 DEF Crash, Goto, TypeOK
    <2>2. ToldEnough(r)' /\ Counting(r)'
        BY <1>2, <2>1 DEF ToldEnough, Counting, Answered
    <2> QED
        BY <2>1, <2>2, StoreAlone
<1>10. CASE Tick
    BY <1>10, TickTimed
<1>11. CASE UNCHANGED vars
    BY <1>11 DEF vars, Timed, LastsAWindow, Lasting, ToldEnough, Counting, Answered, Target
<1>12. ASSUME NEW r \in Requests, IncrOnly(r)
       PROVE  FALSE
    BY <1>12, TargetFacts DEF IncrOnly, OwnScripts
<1>13. ASSUME NEW r \in Requests, ExpireKey(r)
       PROVE  FALSE
    BY <1>13, <1>2 DEF ExpireKey, Counting
<1> QED
    BY <1>3, <1>4, <1>5, <1>6, <1>7, <1>8, <1>9, <1>10, <1>11, <1>12, <1>13 DEF Next, Step

\* What is known of time holds in every state.
LEMMA TimedAlways ==
    ASSUME OwnScripts
    PROVE  Spec => [](IInv /\ Timed)
<1>1. Init => IInv /\ Timed
    BY IInit, TimedInit
<1>2. IInv /\ Timed /\ [Next]_vars => (IInv /\ Timed)'
    BY IInvNext, TimedNext
<1> QED
    BY <1>1, <1>2, PTL DEF Spec

-----------------------------------------------------------------------------
\* What clients are told.

\* The instant announced is resetAt cut to full seconds.
LEMMA AnnouncedBounds ==
    ASSUME TypeOK, NEW r \in Requests
    PROVE  reset[r] < Announced(r) + TicksPerSecond
<1> DEFINE n == TicksPerSecond
           q == (phase + reset[r]) \div n
<1>1. n \in Nat \ {0} /\ phase \in 0..(n - 1) /\ reset[r] \in Int
    BY RatelimitAssumption DEF TypeOK
<1>2. q \in Int /\ phase + reset[r] < q * n + n /\ q * n \in Int
    BY <1>1, Z3
<1>3. Announced(r) = q * n - phase
    BY DEF Announced
<1> QED
    BY <1>1, <1>2, <1>3

\* When the instant announced in X-RateLimit-Reset has come, the window that
\* counted the request is over or has less than a second left: the clock is read
\* after the TTL (calculateResult), so resetAt is never early, and
\* resetAt.Unix() cuts off less than a second (Middleware).
THEOREM ResetIsUnderASecondEarly ==
    ASSUME OwnScripts
    PROVE  Spec => []ResetUnderASecondEarly
<1>1. IInv /\ Timed => ResetUnderASecondEarly
    <2> SUFFICES ASSUME IInv, Timed, NEW r \in Requests, Answered(r), Announced(r) <= 0,
                        store[Target(r)].life = hit[r]
                 PROVE  store[Target(r)].ttl < TicksPerSecond
        BY DEF ResetUnderASecondEarly
    <2>1. /\ store[Target(r)].ttl \in Int /\ reset[r] \in Int /\ phase \in Int
          /\ TicksPerSecond \in Int /\ Announced(r) \in Int
        BY TargetFacts, RatelimitAssumption DEF Counter, IInv, TypeOK, Announced
    <2>2. store[Target(r)].ttl <= reset[r]
        BY DEF Timed, ToldEnough
    <2>3. reset[r] < Announced(r) + TicksPerSecond
        BY AnnouncedBounds DEF IInv
    <2> QED
        BY <2>1, <2>2, <2>3
<1> QED
    BY <1>1, TimedAlways, PTL

\* A rejected client that waits out Retry-After is at most a second early,
\* although it is cut to whole seconds (writeRateLimitError).
THEOREM RetryAfterSuffices ==
    ASSUME OwnScripts
    PROVE  Spec => []RetryAfterUnderASecondEarly
<1>1. IInv /\ Timed => RetryAfterUnderASecondEarly
    BY RatelimitAssumption DEF RetryAfterUnderASecondEarly, Timed, ToldEnough
<1> QED
    BY <1>1, TimedAlways, PTL

-----------------------------------------------------------------------------
\* The fixed window counter.

\* What Check needs to be one: windows of whole seconds, and limits that admit
\* somebody.
WholeWindows == \A l \in Limiters : ScriptExpiry(l) = Window[l]
RealLimits == \A l \in Limiters : LimitOf(l) \in Nat \ {0}

\* What the refinement mapping makes of the variables.
Buckets == Limiters \X Keys
BucketOf(r) == <<via[r], key[r]>>
CounterOf(b) == store[FullKey(b[1], b[2])]
UsedOf(c, n) == IF c.count < n THEN c.count ELSE n
LeftOf(c) == IF c.count = 0 THEN 0 ELSE c.ttl
Used == [b \in Buckets |-> UsedOf(CounterOf(b), LimitOf(b[1]))]
Left == [b \in Buckets |-> LeftOf(CounterOf(b))]
VerdictOn(r) ==
    IF cnt[r] > 0 THEN IF Allowed(r) THEN "admitted" ELSE "rejected"
    ELSE IF pc[r] = "served" THEN "bypassed" ELSE "none"
Verdict == [r \in Requests |-> VerdictOn(r)]

\* The bucket of a request and its counter.
LEMMA BucketFacts ==
    ASSUME OwnScripts, RealLimits, IInv, Timed, NEW r \in Requests
    PROVE  /\ BucketOf(r) \in Buckets /\ BucketOf(r)[1] = via[r]
           /\ CounterOf(BucketOf(r)) = store[Target(r)]
           /\ \A b \in Buckets : FullKey(b[1], b[2]) \in FullKeys
           /\ \A b \in Buckets : FullKey(b[1], b[2]) = Target(r) => b = BucketOf(r)
           /\ LimitOf(via[r]) \in Nat \ {0}
BY DEF Buckets, BucketOf, CounterOf, Target, FullKey, FullKeys, OwnScripts, PrefixesDiffer,
       RealLimits, IInv, TypeOK

\* What a changed counter means for its bucket and for the others.
LEMMA OneBucketChanges ==
    ASSUME NEW B \in Buckets, NEW e,
           \A b \in Buckets : FullKey(b[1], b[2]) \in FullKeys,
           \A b \in Buckets \ {B} : FullKey(b[1], b[2]) # FullKey(B[1], B[2]),
           store \in [FullKeys -> Counter],
           store' = [store EXCEPT ![FullKey(B[1], B[2])] = e]
    PROVE  /\ Used' = [Used EXCEPT ![B] = UsedOf(e, LimitOf(B[1]))]
           /\ Left' = [Left EXCEPT ![B] = LeftOf(e)]
           /\ Used[B] = UsedOf(CounterOf(B), LimitOf(B[1]))
           /\ Left[B] = LeftOf(CounterOf(B))
<1>1. ASSUME NEW b \in Buckets
      PROVE  store'[FullKey(b[1], b[2])] = IF b = B THEN e ELSE store[FullKey(b[1], b[2])]
    OBVIOUS
<1>2. ASSUME NEW b \in Buckets
      PROVE  /\ UsedOf(store'[FullKey(b[1], b[2])], LimitOf(b[1])) =
                    IF b = B THEN UsedOf(e, LimitOf(B[1]))
                    ELSE UsedOf(store[FullKey(b[1], b[2])], LimitOf(b[1]))
             /\ LeftOf(store'[FullKey(b[1], b[2])]) =
                    IF b = B THEN LeftOf(e) ELSE LeftOf(store[FullKey(b[1], b[2])])
    BY <1>1
<1>3. Used' = [Used EXCEPT ![B] = UsedOf(e, LimitOf(B[1]))]
    BY <1>2 DEF Used, CounterOf
<1>4. Left' = [Left EXCEPT ![B] = LeftOf(e)]
    BY <1>2 DEF Left, CounterOf
<1> QED
    BY <1>3, <1>4 DEF Used, Left

\* A step that counts r uses a unit of its bucket, if one is left; the first
\* one opens the window.
LEMMA CountedUses ==
    ASSUME OwnScripts, WholeWindows, RealLimits, IInv, Timed, NEW r \in Requests,
           Counted(r, CountingCommand(r)), NEW n, n = store[Target(r)].count
    PROVE  /\ n \in Nat
           /\ n < LimitOf(via[r]) =>
                /\ Used[BucketOf(r)] < LimitOf(via[r])
                /\ Used' = [Used EXCEPT ![BucketOf(r)] = @ + 1]
                /\ Left' = [Left EXCEPT ![BucketOf(r)] = IF @ = 0 THEN Window[via[r]] ELSE @]
           /\ n >= LimitOf(via[r]) =>
                /\ Used[BucketOf(r)] = LimitOf(via[r])
                /\ UNCHANGED <<Used, Left>>
<1>1. PICK B \in Buckets, l \in Limiters, c \in Counter, e \in Counter :
          B = BucketOf(r) /\ l = via[r] /\ c = store[Target(r)] /\ e = CountingCommand(r)
    BY BucketFacts, TargetFacts, CountingCommandType DEF IInv
<1> DEFINE q == LimitOf(l)
           w == Window[l]
<1>2. /\ Lasting(c) /\ w \in Nat \ {0} /\ q \in Nat \ {0}
      /\ e = IncrWithExpire(c, w)
    BY <1>1, TargetFacts, BucketFacts DEF WholeWindows, CountingCommand, OwnScripts
<1>3. /\ \A b \in Buckets : FullKey(b[1], b[2]) \in FullKeys
      /\ \A b \in Buckets \ {B} : FullKey(b[1], b[2]) # FullKey(B[1], B[2])
      /\ FullKey(B[1], B[2]) = Target(r) /\ B[1] = l /\ CounterOf(B) = c
    BY <1>1, BucketFacts DEF BucketOf, Target
<1>4. /\ store' = [store EXCEPT ![FullKey(B[1], B[2])] = e]
      /\ store \in [FullKeys -> Counter]
    BY <1>1, <1>3 DEF Counted, IInv, TypeOK
<1>5. /\ Used' = [Used EXCEPT ![B] = UsedOf(e, q)]
      /\ Left' = [Left EXCEPT ![B] = LeftOf(e)]
      /\ Used[B] = UsedOf(c, q) /\ Left[B] = LeftOf(c)
    BY <1>3, <1>4, OneBucketChanges
<1> HIDE DEF q, w
<1>6. n = c.count /\ n \in Nat /\ c.ttl \in Int
    BY <1>1 DEF Counter
<1>7. /\ e.count = n + 1
      /\ n > 0 => e.ttl = c.ttl /\ c.ttl > 0
      /\ n = 0 => e.ttl = w
    <2>1. /\ c.count > 0 => e.count = c.count + 1 /\ e.ttl = c.ttl
          /\ c.count = 0 /\ w > 0 => e.count = 1 /\ e.ttl = w
        BY <1>2, ScriptOnLasting
    <2> QED
        BY <1>2, <1>6, <2>1 DEF Lasting
<1>8. CASE n < q
    <2>1. Used[B] = n /\ UsedOf(e, q) = n + 1 /\ LeftOf(e) = IF Left[B] = 0 THEN w ELSE Left[B]
        BY <1>2, <1>5, <1>6, <1>7, <1>8 DEF UsedOf, LeftOf
    <2>2. Used' = [Used EXCEPT ![B] = @ + 1]
        BY <1>5, <2>1
    <2>3. Left' = [Left EXCEPT ![B] = IF @ = 0 THEN w ELSE @]
        BY <1>5, <2>1
    <2> QED
        BY <1>1, <1>2, <1>6, <1>8, <2>1, <2>2, <2>3 DEF q, w
<1>9. CASE n >= q
    <2>1. Used[B] = q /\ UsedOf(e, q) = q /\ LeftOf(e) = Left[B]
        BY <1>2, <1>5, <1>6, <1>7, <1>9 DEF UsedOf, LeftOf
    <2>2. [Used EXCEPT ![B] = Used[B]] = Used /\ [Left EXCEPT ![B] = Left[B]] = Left
        BY DEF Used, Left
    <2> QED
        BY <1>1, <1>2, <1>5, <1>6, <1>9, <2>1, <2>2 DEF q
<1> QED
    BY <1>1, <1>2, <1>6, <1>8, <1>9 DEF q

\* One request is judged, and the others are left alone.
LEMMA OneVerdict ==
    ASSUME IInv, NEW r \in Requests, UNCHANGED via, NEW v, VerdictOn(r)' = v,
           \A q \in Requests \ {r} : cnt'[q] = cnt[q] /\ pc'[q] = pc[q]
    PROVE  Verdict' = [Verdict EXCEPT ![r] = v]
<1>1. \A q \in Requests \ {r} : VerdictOn(q)' = VerdictOn(q)
    BY DEF VerdictOn, Allowed, LimitOf
<1> QED
    BY <1>1 DEF Verdict

\* The steps of the fixed window counter, in terms of what is above.
LEMMA AbstractSteps ==
    ASSUME NEW r \in Requests, UNCHANGED <<via, key>>, Verdict[r] = "none",
           via[r] \in Limiters, BucketOf(r) \in Buckets,
           NEW v, Verdict' = [Verdict EXCEPT ![r] = v],
           NEW B, B = BucketOf(r), NEW q, q = LimitOf(via[r]), NEW w, w = Window[via[r]]
    PROVE  /\ FW!Judge(r, v)
           /\ /\ Used[B] < q
              /\ Used' = [Used EXCEPT ![B] = @ + 1]
              /\ Left' = [Left EXCEPT ![B] = IF @ = 0 THEN w ELSE @]
              => FW!Use(B)
           /\ v = "admitted" /\ FW!Use(B) => FW!Admit(r)
           /\ v = "bypassed" /\ FW!Use(B) => FW!Bypass(r)
           /\ v = "bypassed" /\ UNCHANGED <<Used, Left>> => FW!Bypass(r)
           /\ v = "rejected" /\ Used[B] = q /\ UNCHANGED <<Used, Left>> => FW!Reject(r)
<1>1. FW!Judge(r, v)
    BY DEF FW!Judge, Verdict, VerdictOn
<1>2. /\ B = [p \in Requests |-> <<via[p], key[p]>>][r]
      /\ q = [b \in Limiters \X Keys |-> LimitOf(b[1])][B]
      /\ w = [b \in Limiters \X Keys |-> Window[b[1]]][B]
    BY DEF BucketOf, Buckets
<1>3. /\ Used[B] < q
      /\ Used' = [Used EXCEPT ![B] = @ + 1]
      /\ Left' = [Left EXCEPT ![B] = IF @ = 0 THEN w ELSE @]
      => FW!Use(B)
    BY <1>2 DEF FW!Use, Used, Left, UsedOf, LeftOf, CounterOf, Buckets
<1>4. v = "admitted" /\ FW!Use(B) => FW!Admit(r)
    BY <1>1, <1>2 DEF FW!Admit
<1>5. v = "bypassed" /\ FW!Use(B) => FW!Bypass(r)
    BY <1>1, <1>2 DEF FW!Bypass
<1>6. v = "bypassed" /\ UNCHANGED <<Used, Left>> => FW!Bypass(r)
    BY <1>1 DEF FW!Bypass, Used, Left, UsedOf, LeftOf, CounterOf, Buckets
<1>7. v = "rejected" /\ Used[B] = q /\ UNCHANGED <<Used, Left>> => FW!Reject(r)
    BY <1>1, <1>2 DEF FW!Reject, Used, Left, UsedOf, LeftOf, CounterOf, Buckets
<1> QED
    BY <1>1, <1>3, <1>4, <1>5, <1>6, <1>7

\* A step that judges nobody and leaves the counters alone is a stutter.
LEMMA AbstractStutter ==
    ASSUME UNCHANGED <<store, via, key, Verdict>>
    PROVE  UNCHANGED FW!fwvars
BY DEF FW!fwvars, Verdict, VerdictOn

\* A tick of the clock of Redis is one of the fixed window counter.
LEMMA AbstractTick ==
    ASSUME OwnScripts, RealLimits, IInv, Timed, Tick
    PROVE  FW!Elapse
<1>1. ASSUME NEW b \in Buckets
      PROVE  /\ LeftOf(CounterOf(b))' =
                    IF LeftOf(CounterOf(b)) = 0 THEN 0 ELSE LeftOf(CounterOf(b)) - 1
             /\ UsedOf(CounterOf(b), LimitOf(b[1]))' =
                    IF LeftOf(CounterOf(b)) <= 1 THEN 0 ELSE UsedOf(CounterOf(b), LimitOf(b[1]))
    <2>1. FullKey(b[1], b[2]) \in FullKeys /\ LimitOf(b[1]) \in Nat \ {0}
        BY DEF Buckets, FullKeys, RealLimits
    <2>2. CounterOf(b) \in Counter /\ Lasting(CounterOf(b)) /\ CounterOf(b)' = Aged(CounterOf(b))
        BY <2>1 DEF CounterOf, IInv, TypeOK, Timed, LastsAWindow, Tick
    <2>3. ASSUME NEW c \in Counter, Lasting(c), NEW e, e = Aged(c), NEW q \in Nat \ {0}
          PROVE  /\ LeftOf(e) = IF LeftOf(c) = 0 THEN 0 ELSE LeftOf(c) - 1
                 /\ UsedOf(e, q) = IF LeftOf(c) <= 1 THEN 0 ELSE UsedOf(c, q)
        <3>1. /\ c.count \in Nat /\ c.ttl \in Int
              /\ c.count = 0 => e = c
              /\ c.count > 0 => c.ttl > 0
              /\ c.ttl = 1 => e.count = 0
              /\ c.count > 0 /\ c.ttl # 1 => e.count = c.count /\ e.ttl = c.ttl - 1
            BY <2>3, AgedLasting DEF Counter, Lasting
        <3> QED
            BY <2>3, <3>1 DEF LeftOf, UsedOf
    <2> QED
        BY <2>1, <2>2, <2>3 DEF LeftOf, UsedOf, LimitOf
<1>2. /\ Left' = [b \in Buckets |-> IF Left[b] = 0 THEN 0 ELSE Left[b] - 1]
      /\ Used' = [b \in Buckets |-> IF Left[b] <= 1 THEN 0 ELSE Used[b]]
    BY <1>1 DEF Left, Used
<1>3. UNCHANGED <<via, key, Verdict>>
    BY DEF Tick, Verdict, VerdictOn, Allowed, LimitOf
<1> QED
    BY <1>2, <1>3 DEF FW!Elapse, Used, Left, UsedOf, LeftOf, CounterOf, Buckets, Verdict, VerdictOn

\* At the start every window is closed and nobody is judged.
LEMMA AbstractInit == Init /\ RealLimits => FW!FWInit
<1> SUFFICES ASSUME Init, RealLimits
             PROVE  FW!FWInit
    OBVIOUS
<1>1. \A b \in Buckets : FullKey(b[1], b[2]) \in FullKeys /\ LimitOf(b[1]) \in Nat \ {0}
    BY DEF Buckets, FullKeys, RealLimits
<1>2. \A b \in Buckets : CounterOf(b).count = 0
    BY <1>1 DEF Init, CounterOf, Absent
<1>3. Used = [b \in Buckets |-> 0] /\ Left = [b \in Buckets |-> 0]
    BY <1>1, <1>2 DEF Used, Left, UsedOf, LeftOf
<1>4. Verdict = [r \in Requests |-> "none"]
    BY DEF Init, Verdict, VerdictOn
<1>5. [r \in Requests |-> <<via[r], key[r]>>] \in [Requests -> Limiters \X Keys]
    BY DEF Init
<1> QED
    BY <1>3, <1>4, <1>5
    DEF FW!FWInit, Used, Left, UsedOf, LeftOf, CounterOf, Buckets, Verdict, VerdictOn

\* Every step of the middleware and of Redis is a step of the fixed window
\* counter or changes nothing of it.
LEMMA AbstractNext ==
    ASSUME OwnScripts, WholeWindows, RealLimits, IInv, IInv', Timed, [Next]_vars
    PROVE  [FW!FWNext]_(FW!fwvars)
<1>1. TypeOK /\ TypeOK'
    BY DEF IInv
<1>2. ASSUME NEW r \in Requests
      PROVE  /\ via[r] \in Limiters /\ BucketOf(r) \in Buckets /\ LimitOf(via[r]) \in Nat \ {0}
             /\ Fresh(r) /\ Decided(r) /\ Counting(r) /\ cnt[r] \in Nat
             /\ pc[r] = "count" => Verdict[r] = "none"
    BY <1>1, BucketFacts DEF IInv, Timed, TypeOK, Fresh, Verdict, VerdictOn
<1>3. ASSUME NEW r \in Requests, Skip(r)
      PROVE  FW!Bypass(r)
    <2>1. /\ pc[r] = "count" /\ cnt'[r] = 0 /\ pc'[r] = "served"
          /\ \A q \in Requests \ {r} : cnt'[q] = cnt[q] /\ pc'[q] = pc[q]
          /\ UNCHANGED <<store, via, key>>
        BY <1>1, <1>2, <1>3 DEF Skip, Goto, TypeOK, Fresh
    <2>2. VerdictOn(r)' = "bypassed"
        BY <2>1 DEF VerdictOn
    <2>3. Verdict' = [Verdict EXCEPT ![r] = "bypassed"]
        BY <2>1, <2>2, OneVerdict
    <2>4. UNCHANGED <<Used, Left>>
        BY <2>1 DEF Used, Left, CounterOf
    <2> QED
        BY <1>2, <2>1, <2>3, <2>4, AbstractSteps
<1>4. ASSUME NEW r \in Requests, Eval(r)
      PROVE  FW!Admit(r) \/ FW!Reject(r)
    <2> DEFINE n == store[Target(r)].count
    <2>1. /\ pc[r] = "count" /\ cnt'[r] = n + 1 /\ Counted(r, CountingCommand(r))
          /\ \A q \in Requests \ {r} : cnt'[q] = cnt[q] /\ pc'[q] = pc[q]
          /\ UNCHANGED <<via, key>>
        BY <1>1, <1>4 DEF Eval, CountReply, CountingCommand, Goto, TypeOK
    <2>2. n \in Nat
        BY TargetFacts DEF Counter
    <2> HIDE DEF n
    <2>3. CASE n < LimitOf(via[r])
        <3>1. VerdictOn(r)' = "admitted"
            BY <1>2, <2>1, <2>2, <2>3 DEF VerdictOn, Allowed, LimitOf
        <3>2. Verdict' = [Verdict EXCEPT ![r] = "admitted"]
            BY <2>1, <3>1, OneVerdict
        <3>3. /\ Used[BucketOf(r)] < LimitOf(via[r])
              /\ Used' = [Used EXCEPT ![BucketOf(r)] = @ + 1]
              /\ Left' = [Left EXCEPT ![BucketOf(r)] = IF @ = 0 THEN Window[via[r]] ELSE @]
            BY <2>1, <2>3, CountedUses DEF n
        <3> QED
            BY <1>2, <2>1, <3>2, <3>3, AbstractSteps
    <2>4. CASE n >= LimitOf(via[r])
        <3>1. VerdictOn(r)' = "rejected"
            BY <1>2, <2>1, <2>2, <2>4 DEF VerdictOn, Allowed, LimitOf
        <3>2. Verdict' = [Verdict EXCEPT ![r] = "rejected"]
            BY <2>1, <3>1, OneVerdict
        <3>3. Used[BucketOf(r)] = LimitOf(via[r]) /\ UNCHANGED <<Used, Left>>
            BY <2>1, <2>4, CountedUses DEF n
        <3> QED
            BY <1>2, <2>1, <3>2, <3>3, AbstractSteps
    <2> QED
        BY <1>2, <2>2, <2>3, <2>4
<1>5. ASSUME NEW r \in Requests, FailOpen(r)
      PROVE  FW!Bypass(r)
    <2>1. /\ pc[r] = "count" /\ cnt'[r] = 0 /\ pc'[r] = "served"
          /\ \A q \in Requests \ {r} : cnt'[q] = cnt[q] /\ pc'[q] = pc[q]
          /\ UNCHANGED <<via, key>>
        BY <1>1, <1>2, <1>5 DEF FailOpen, Goto, TypeOK, Fresh
    <2>2. VerdictOn(r)' = "bypassed"
        BY <2>1 DEF VerdictOn
    <2>3. Verdict' = [Verdict EXCEPT ![r] = "bypassed"]
        BY <2>1, <2>2, OneVerdict
    <2>4. CASE Counted(r, CountingCommand(r))
        <3>1. store[Target(r)].count \in Nat
            BY TargetFacts DEF Counter
        <3>2. CASE store[Target(r)].count < LimitOf(via[r])
            <4>1. /\ Used[BucketOf(r)] < LimitOf(via[r])
                  /\ Used' = [Used EXCEPT ![BucketOf(r)] = @ + 1]
                  /\ Left' = [Left EXCEPT ![BucketOf(r)] = IF @ = 0 THEN Window[via[r]] ELSE @]
                BY <2>4, <3>2, CountedUses
            <4> QED
                BY <1>2, <2>1, <2>3, <4>1, AbstractSteps
        <3>3. CASE store[Target(r)].count >= LimitOf(via[r])
            <4>1. UNCHANGED <<Used, Left>>
                BY <2>4, <3>3, CountedUses
            <4> QED
                BY <1>2, <2>1, <2>3, <4>1, AbstractSteps
        <3> QED
            BY <1>2, <3>1, <3>2, <3>3
    <2>5. CASE UNCHANGED <<store, hit>>
        <3>1. UNCHANGED <<Used, Left>>
            BY <2>5 DEF Used, Left, CounterOf
        <3> QED
            BY <1>2, <2>1, <2>3, <3>1, AbstractSteps
    <2> QED
        BY <1>5, <2>4, <2>5 DEF FailOpen
\* Once a request is judged, the rest of Middleware changes no verdict.
<1>6. ASSUME NEW r \in Requests, UNCHANGED <<store, via, key, cnt>>, cnt[r] > 0,
             \A q \in Requests \ {r} : pc'[q] = pc[q]
      PROVE  UNCHANGED FW!fwvars
    <2>1. \A q \in Requests : VerdictOn(q)' = VerdictOn(q)
        BY <1>6 DEF VerdictOn, Allowed, LimitOf
    <2>2. UNCHANGED Verdict
        BY <2>1 DEF Verdict
    <2> QED
        BY <1>6, <2>2, AbstractStutter
<1>7. ASSUME NEW r \in Requests, ReadTTL(r) \/ Decide(r) \/ WriteRateLimitError(r) \/ Crash(r)
      PROVE  UNCHANGED FW!fwvars
    <2>1. /\ pc[r] \in {"ttl", "decide", "reject", "expire"} /\ UNCHANGED <<store, via, key, cnt>>
          /\ \A q \in Requests \ {r} : pc'[q] = pc[q]
        BY <1>1, <1>7 DEF ReadTTL, Decide, WriteRateLimitError, Crash, Goto, TypeOK
    <2>2. cnt[r] > 0
        BY <1>2, <2>1 DEF Counting
    <2> QED
        BY <1>6, <2>1, <2>2
<1>8. ASSUME NEW r \in Requests, IncrOnly(r) \/ ExpireKey(r)
      PROVE  FALSE
    BY <1>2, <1>8 DEF IncrOnly, ExpireKey, Counting, OwnScripts
<1>9. CASE Tick
    BY <1>9, AbstractTick DEF FW!FWNext
<1>10. CASE UNCHANGED vars
    BY <1>10, AbstractStutter DEF vars, Verdict, VerdictOn, Allowed, LimitOf
<1> QED
    BY <1>3, <1>4, <1>5, <1>7, <1>8, <1>9, <1>10 DEF Next, Step, FW!FWNext

\* Check is an atomic fixed window counter, although it counts, reads the TTL
\* and decides in steps of their own, and may fail between any two of them:
\* whatever requests, keys and faults, if windows are whole seconds.
THEOREM ChecksAFixedWindow ==
    ASSUME OwnScripts, WholeWindows, RealLimits
    PROVE  Spec => ImplementsFixedWindow
<1>1. Init => IInv /\ Timed /\ FW!FWInit
    BY IInit, TimedInit, AbstractInit
<1>2. IInv /\ Timed /\ [Next]_vars => (IInv /\ Timed)' /\ [FW!FWNext]_(FW!fwvars)
    BY IInvNext, TimedNext, AbstractNext
<1> QED
    BY <1>1, <1>2, PTL DEF Spec, ImplementsFixedWindow, FW!FWSpec

=============================================================================
