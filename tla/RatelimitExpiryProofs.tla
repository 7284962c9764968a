----------------------- MODULE RatelimitExpiryProofs -----------------------
(***************************************************************************)
(* Proofs about the expiry of counters, for any requests, limiters, keys,  *)
(* windows and prefixes: that what the script counts in has always an      *)
(* expiry that runs out, that INCR and EXPIRE lose none when nothing       *)
(* fails, and that a counter they have lost it for is lost for good.       *)
(*                                                                         *)
(* The argument: a step changes the counter under a key in one of four     *)
(* ways, and a request goes on to EXPIRE only if it has made the counter.  *)
(***************************************************************************)
EXTENDS RatelimitWindowProofs

-----------------------------------------------------------------------------
\* What is shown.

\* A counter of the script has an expiry, no later than a window away.
ScriptCountersExpire ==
    \A x \in ScriptKeys : store[x].count > 0 =>
        /\ store[x].ttl > 0
        /\ \E l \in Limiters : Prefix[l] = x[1] /\ store[x].ttl <= Window[l]

\* Nothing puts it off: while its life lasts the time that is left never grows
\* and every tick takes some of it, and the next life starts from nothing.
ScriptLivesRunOut ==
    [][\A x \in ScriptKeys : store[x].count > 0 =>
         IF store'[x].life = store[x].life
         THEN store'[x].ttl <= store[x].ttl /\ (Tick => store'[x].ttl < store[x].ttl)
         ELSE store'[x].count = 0]_vars

\* A request that has created the counter under x is about to set its expiry.
ExpiryPending(x) == \E r \in Requests : pc[r] = "expire" /\ Target(r) = x

\* A counter has no expiry only until its creator has set it.
ExpiryComes ==
    \A x \in FullKeys : store[x].count > 0 /\ store[x].ttl = NoExpiry => ExpiryPending(x)

\* Nobody is left who would set the expiry of the counter under x.
Abandoned(x) == store[x].count > 0 /\ store[x].ttl = NoExpiry /\ ~ExpiryPending(x)

\* An abandoned counter stays so and only grows; once it has reached the limit
\* of a limiter, that limiter rejects every request it counts under this key.
AbandonedForGood ==
    [][/\ \A x \in FullKeys : Abandoned(x) =>
            Abandoned(x)' /\ store'[x].life = store[x].life /\ store'[x].count >= store[x].count
       /\ \A r \in Requests :
            /\ Abandoned(Target(r)) /\ store[Target(r)].count >= LimitOf(via[r])
            /\ cnt'[r] # cnt[r]
            => ~Allowed(r)']_vars

-----------------------------------------------------------------------------
\* How a counter changes.

\* What can keep a counter from its expiry.
ExpiryFaults == Crashes \/ Faults \cap {"count", "expire"} # {}

\* A request counts; if its INCR makes the counter and gets its reply, the
\* request goes on to EXPIRE.
CountsIn(r, x) ==
    /\ pc[r] = "count" /\ Target(r) = x
    /\ store'[x] = CountingCommand(r)
    /\ "count" \notin Faults /\ via[r] \notin EvalLimiters /\ store[x].count = 0 => pc'[r] = "expire"

\* A request sets the expiry.
SetsExpiry(r, x) ==
    /\ pc[r] = "expire" /\ Target(r) = x
    /\ store'[x] = Expire(store[x], Window[via[r]])

\* Where a request goes, and why: to EXPIRE only without Eval, and only if its
\* INCR made the counter.
LEMMA OneStep ==
    ASSUME TypeOK, [Next]_vars
    PROVE  /\ UNCHANGED <<via, key>>
           /\ \A r \in Requests : Target(r)' = Target(r)
           /\ \A x \in FullKeys :
                \/ ~Tick /\ store'[x] = store[x]
                \/ Tick /\ store'[x] = Aged(store[x])
                \/ ~Tick /\ \E r \in Requests : CountsIn(r, x) \/ SetsExpiry(r, x)
           /\ \A r \in Requests :
                pc'[r] = "expire" /\ pc[r] # "expire" =>
                   /\ pc[r] = "count" /\ via[r] \notin EvalLimiters
                   /\ store[Target(r)].count = 0
           /\ \A r \in Requests :
                cnt'[r] # cnt[r] => cnt'[r] = store[Target(r)].count + 1
<1>0. \A r \in Requests : Target(r) \in FullKeys
    BY TargetType
<1>1. UNCHANGED <<via, key>>
    BY DEF Next, Step, Skip, Eval, IncrOnly, CountReply, FailOpen, ExpireKey, ReadTTL, Decide,
           WriteRateLimitError, Crash, Tick, vars
<1>2. \A r \in Requests : Target(r)' = Target(r)
    BY <1>1 DEF Target, FullKey
<1>3. ASSUME NEW x \in FullKeys
      PROVE  \/ ~Tick /\ store'[x] = store[x]
             \/ Tick /\ store'[x] = Aged(store[x])
             \/ ~Tick /\ \E r \in Requests : CountsIn(r, x) \/ SetsExpiry(r, x)
    <2>1. CASE Tick
        BY <2>1 DEF Tick
    <2>2. ASSUME NEW r \in Requests, Eval(r) \/ IncrOnly(r) \/ FailOpen(r)
          PROVE  store'[x] = store[x] \/ CountsIn(r, x)
        <3>1. pc[r] = "count" /\ (UNCHANGED store \/ Counted(r, CountingCommand(r)))
            BY <2>2 DEF Eval, IncrOnly, FailOpen, CountReply, CountingCommand
        <3>2. "count" \notin Faults /\ via[r] \notin EvalLimiters /\ store[Target(r)].count = 0
                => pc'[r] = "expire"
            BY <2>2 DEF Eval, IncrOnly, FailOpen, CountReply, Goto, TypeOK
        <3> QED
            BY <1>0, <3>1, <3>2 DEF Counted, CountsIn, TypeOK
    <2>5. ASSUME NEW r \in Requests, ExpireKey(r)
          PROVE  store'[x] = store[x] \/ SetsExpiry(r, x)
        BY <1>0, <2>5 DEF ExpireKey, SetsExpiry, TypeOK
    <2>6. CASE UNCHANGED store
        BY <2>1, <2>6
    <2>7. CASE ~Tick
        BY <2>2, <2>5, <2>6, <2>7
        DEF Next, Step, Skip, ReadTTL, Decide, WriteRateLimitError, Crash, vars
    <2> QED
        BY <2>1, <2>7
<1>4. ASSUME NEW r \in Requests, pc'[r] = "expire", pc[r] # "expire"
      PROVE  /\ pc[r] = "count" /\ via[r] \notin EvalLimiters
             /\ store[Target(r)].count = 0
    <2>1. PICK q \in Requests : IncrOnly(q) /\ q = r
        BY <1>4 DEF Next, Step, Skip, Eval, IncrOnly, FailOpen, ExpireKey, ReadTTL, Decide,
            WriteRateLimitError, Crash, Tick, vars, Goto, TypeOK
    <2>2. /\ pc[r] = "count" /\ via[r] \notin EvalLimiters
          /\ cnt'[r] = store[Target(r)].count + 1 /\ cnt'[r] = 1
        BY <1>4, <2>1 DEF IncrOnly, CountReply, Goto, TypeOK
    <2>3. store[Target(r)].count \in Nat
        BY <1>0 DEF TypeOK, Counter
    <2> QED
        BY <2>2, <2>3
<1>5. ASSUME NEW r \in Requests, cnt'[r] # cnt[r]
      PROVE  cnt'[r] = store[Target(r)].count + 1
    BY <1>5 DEF Next, Step, Skip, Eval, IncrOnly, CountReply, FailOpen, ExpireKey, ReadTTL, Decide,
        WriteRateLimitError, Crash, Tick, vars, TypeOK
<1> QED
    BY <1>1, <1>2, <1>3, <1>4, <1>5

-----------------------------------------------------------------------------
\* Counters of the script.

\* They last, no longer than a window; EXPIRE as a command of its own is the
\* fallback's.
ScriptsAlone ==
    /\ \A x \in ScriptKeys :
         /\ Lasting(store[x])
         /\ store[x].count > 0 =>
              \E l \in Limiters : Prefix[l] = x[1] /\ store[x].ttl <= Window[l]
    /\ \A r \in Requests : pc[r] = "expire" => via[r] \notin EvalLimiters

\* Only scripts count under the key of a request that targets such a counter.
LEMMA ScriptTarget ==
    ASSUME TypeOK, NEW r \in Requests, NEW x \in ScriptKeys, Target(r) = x
    PROVE  /\ via[r] \in Limiters /\ via[r] \in EvalLimiters /\ Prefix[via[r]] = x[1]
           /\ CountingCommand(r) = IncrWithExpire(store[x], ScriptExpiry(via[r]))
           /\ ScriptExpiry(via[r]) \in Nat /\ ScriptExpiry(via[r]) <= Window[via[r]]
<1>1. via[r] \in Limiters /\ Prefix[via[r]] = x[1]
    BY DEF TypeOK, Target, FullKey
<1>2. via[r] \in EvalLimiters
    BY <1>1 DEF ScriptKeys
<1>3. CountingCommand(r) = IncrWithExpire(store[x], ScriptExpiry(via[r]))
    BY <1>2 DEF CountingCommand
<1>4. Window[via[r]] \in Nat
    BY <1>1, RatelimitAssumption
<1> QED
    BY <1>1, <1>2, <1>3, <1>4, WholeSecondsBounds DEF ScriptExpiry

\* What a step does to such a counter.
LEMMA ScriptCounterSteps ==
    ASSUME TypeOK, ScriptsAlone, [Next]_vars, NEW x \in ScriptKeys
    PROVE  /\ Lasting(store'[x]) /\ store[x] \in Counter /\ store'[x] \in Counter
           /\ \/ /\ store'[x].life = store[x].life
                 /\ store[x].count > 0 =>
                      /\ store'[x].count > 0 /\ store'[x].ttl <= store[x].ttl
                      /\ Tick => store'[x].ttl < store[x].ttl
              \/ store'[x].life # store[x].life /\ store'[x].count = 0
           /\ store'[x].count > 0 =>
                \E l \in Limiters : Prefix[l] = x[1] /\ store'[x].ttl <= Window[l]
<1>1. x \in FullKeys /\ store[x] \in Counter /\ Lasting(store[x])
    BY DEF ScriptKeys, TypeOK, ScriptsAlone
<1>2. store[x].count \in Nat /\ store[x].ttl \in Int /\ store[x].life \in Nat
    BY <1>1 DEF Counter
<1>3. store[x].count > 0 =>
        \E l \in Limiters : Prefix[l] = x[1] /\ Window[l] \in Nat /\ store[x].ttl <= Window[l]
    BY RatelimitAssumption DEF ScriptsAlone
<1>4. CASE ~Tick /\ store'[x] = store[x]
    BY <1>1, <1>2, <1>3, <1>4
<1>5. CASE Tick /\ store'[x] = Aged(store[x])
    <2> DEFINE e == store'[x]
    <2>1. /\ e \in Counter /\ Lasting(e) /\ e.ttl <= store[x].ttl
          /\ store[x].count = 0 => e = store[x]
          /\ store[x].ttl = 1 => e.count = 0 /\ e.ttl = NoKey /\ e.life = store[x].life + 1
          /\ store[x].count > 0 /\ store[x].ttl # 1 =>
               e.count = store[x].count /\ e.ttl = store[x].ttl - 1 /\ e.life = store[x].life
        BY <1>1, <1>5, AgedLasting
    <2>2. e.ttl \in Int /\ e.count \in Nat
        BY <2>1 DEF Counter
    <2>3. e.count > 0 => store[x].count > 0
        BY <1>2, <2>1
    <2> HIDE DEF e
    <2>4. \/ /\ e.life = store[x].life
             /\ store[x].count > 0 =>
                  /\ e.count > 0 /\ e.ttl <= store[x].ttl
                  /\ Tick => e.ttl < store[x].ttl
          \/ e.life # store[x].life /\ e.count = 0
        BY <1>2, <2>1, <2>2
    <2>5. e.count > 0 => \E l \in Limiters : Prefix[l] = x[1] /\ e.ttl <= Window[l]
        BY <1>2, <1>3, <2>1, <2>2, <2>3
    <2> QED
        BY <1>1, <2>1, <2>4, <2>5 DEF e
<1>6. ASSUME ~Tick, NEW r \in Requests, CountsIn(r, x)
      PROVE  /\ store'[x] \in Counter /\ Lasting(store'[x])
             /\ \/ /\ store'[x].life = store[x].life
                   /\ store[x].count > 0 =>
                        store'[x].count > 0 /\ store'[x].ttl <= store[x].ttl
                \/ store'[x].life # store[x].life /\ store'[x].count = 0
             /\ store'[x].count > 0 =>
                  \E l \in Limiters : Prefix[l] = x[1] /\ store'[x].ttl <= Window[l]
    <2> DEFINE d == ScriptExpiry(via[r])
               e == store'[x]
    <2>1. /\ via[r] \in Limiters /\ Prefix[via[r]] = x[1] /\ e = IncrWithExpire(store[x], d)
          /\ d \in Nat /\ d <= Window[via[r]]
        BY <1>6, ScriptTarget DEF CountsIn
    <2> HIDE DEF d, e
    <2>2. /\ e \in Counter /\ Lasting(e)
          /\ store[x].count > 0 =>
               e.count = store[x].count + 1 /\ e.ttl = store[x].ttl /\ e.life = store[x].life
          /\ store[x].count = 0 /\ d > 0 =>
               e.count = 1 /\ e.ttl = d /\ e.life = store[x].life
          /\ store[x].count = 0 /\ d = 0 =>
               e.count = 0 /\ e.ttl = NoKey /\ e.life = store[x].life + 1
        BY <1>1, <2>1, ScriptOnLasting
    <2>3. \/ /\ e.life = store[x].life
             /\ store[x].count > 0 => e.count > 0 /\ e.ttl <= store[x].ttl
          \/ e.life # store[x].life /\ e.count = 0
        BY <1>2, <2>1, <2>2
    <2>4. e.count > 0 => \E l \in Limiters : Prefix[l] = x[1] /\ e.ttl <= Window[l]
        BY <1>2, <1>3, <2>1, <2>2
    <2> QED
        BY <2>2, <2>3, <2>4 DEF e
<1>7. ASSUME NEW r \in Requests, SetsExpiry(r, x)
      PROVE  FALSE
    BY <1>7, ScriptTarget DEF SetsExpiry, ScriptsAlone
<1> QED
    BY <1>1, <1>4, <1>5, <1>6, <1>7, OneStep

LEMMA ScriptsAloneNext == TypeOK /\ ScriptsAlone /\ [Next]_vars => ScriptsAlone'
<1> SUFFICES ASSUME TypeOK, ScriptsAlone, [Next]_vars
             PROVE  ScriptsAlone'
    OBVIOUS
<1>1. \A x \in ScriptKeys :
         /\ Lasting(store'[x])
         /\ store'[x].count > 0 =>
              \E l \in Limiters : Prefix[l] = x[1] /\ store'[x].ttl <= Window[l]
    BY ScriptCounterSteps
<1>2. \A r \in Requests : pc'[r] = "expire" => via'[r] \notin EvalLimiters
    BY OneStep DEF ScriptsAlone
<1> QED
    BY <1>1, <1>2 DEF ScriptsAlone, Lasting

LEMMA ScriptsAloneInit == Init => ScriptsAlone
BY DEF Init, ScriptsAlone, ScriptKeys, Lasting, Absent, NoKey

\* The time that is left of a counter of the script is a number of ticks that
\* every tick lowers and nothing else raises, whatever fails or crashes and
\* whoever counts in it (incrWithExpireScript, ratelimit.go 139-147): the
\* reason why CounterEventuallyResets holds once time passes.
THEOREM ScriptCountersRunOut == Spec => []ScriptCountersExpire /\ ScriptLivesRunOut
<1>1. TypeOK /\ ScriptsAlone => ScriptCountersExpire
    BY DEF ScriptsAlone, ScriptCountersExpire, Lasting
<1>2. TypeOK /\ ScriptsAlone /\ [Next]_vars =>
        [\A x \in ScriptKeys : store[x].count > 0 =>
           IF store'[x].life = store[x].life
           THEN store'[x].ttl <= store[x].ttl /\ (Tick => store'[x].ttl < store[x].ttl)
           ELSE store'[x].count = 0]_vars
    BY ScriptCounterSteps
<1> QED
    BY <1>1, <1>2, TypeInit, TypeNext, ScriptsAloneInit, ScriptsAloneNext, PTL
    DEF Spec, ScriptLivesRunOut

-----------------------------------------------------------------------------
\* Counters of INCR and EXPIRE.

\* A counter exists, or has neither count nor TTL.
Whole(c) == c.count > 0 <=> c.ttl # NoKey

\* What each operation does to the expiry and the life of a counter.
LEMMA ExpiryOps ==
    ASSUME NEW c \in Counter, Whole(c), NEW d \in Nat
    PROVE  /\ Whole(Aged(c)) /\ Whole(Incr(c)) /\ Whole(IncrWithExpire(c, d)) /\ Whole(Expire(c, d))
           /\ Aged(c).ttl = NoExpiry => c.ttl = NoExpiry
           /\ c.ttl = NoExpiry => Aged(c) = c
           /\ c.count > 0 /\ d > 0 => Expire(c, d).ttl # NoExpiry
           /\ c.count = 0 => Expire(c, d) = c
           /\ c.count > 0 =>
                /\ IncrWithExpire(c, d) = Incr(c)
                /\ Incr(c).ttl = c.ttl /\ Incr(c).life = c.life /\ Incr(c).count = c.count + 1
           /\ c.count = 0 => IncrWithExpire(c, d).ttl # NoExpiry
<1>1. c.count \in Nat /\ c.ttl \in Int
    BY DEF Counter
<1>2. /\ Incr(c).count = c.count + 1 /\ Incr(c).life = c.life
      /\ Incr(c).ttl = IF c.count = 0 THEN NoExpiry ELSE c.ttl
    BY <1>1 DEF Incr, Whole, NoKey
<1>3. Whole(Aged(c)) /\ (Aged(c).ttl = NoExpiry => c.ttl = NoExpiry)
      /\ (c.ttl = NoExpiry => Aged(c) = c)
    BY <1>1 DEF Aged, Whole, WithTTL, Deleted, Absent, NoKey, NoExpiry
<1>4. Whole(Incr(c))
    BY <1>1, <1>2 DEF Whole, NoKey, NoExpiry
<1>5. /\ Whole(Expire(c, d)) /\ (c.count = 0 => Expire(c, d) = c)
      /\ (c.count > 0 /\ d > 0 => Expire(c, d).ttl # NoExpiry)
    BY <1>1 DEF Expire, Whole, WithTTL, Deleted, Absent, NoKey, NoExpiry
<1>6. c.count > 0 => IncrWithExpire(c, d) = Incr(c)
    BY <1>1, <1>2 DEF IncrWithExpire
<1>7. c.count = 0 => /\ IncrWithExpire(c, d) = Expire(Incr(c), d)
                     /\ Expire(Incr(c), d).ttl # NoExpiry /\ Whole(Expire(Incr(c), d))
    BY <1>1, <1>2 DEF IncrWithExpire, Expire, WithTTL, Deleted, Absent, Whole, NoKey, NoExpiry
<1> QED
    BY <1>1, <1>2, <1>3, <1>4, <1>5, <1>6, <1>7 DEF Whole

AllWhole == \A x \in FullKeys : Whole(store[x])

\* Windows and their whole seconds as arguments of EXPIRE.
LEMMA WindowFacts ==
    ASSUME TypeOK, NEW r \in Requests
    PROVE  /\ Target(r) \in FullKeys /\ store[Target(r)] \in Counter
           /\ Window[via[r]] \in Nat \ {0} /\ ScriptExpiry(via[r]) \in Nat
           /\ LimitOf(via[r]) \in Nat /\ cnt[r] \in Nat
<1>1. via[r] \in Limiters /\ Target(r) \in FullKeys
    BY TargetType DEF TypeOK
<1>2. Window[via[r]] \in Nat \ {0} /\ LimitOf(via[r]) \in Nat
    BY <1>1, RatelimitAssumption DEF LimitOf
<1> QED
    BY <1>1, <1>2, WholeSecondsBounds DEF TypeOK, ScriptExpiry

LEMMA AllWholeNext == TypeOK /\ AllWhole /\ [Next]_vars => AllWhole'
<1> SUFFICES ASSUME TypeOK, AllWhole, [Next]_vars, NEW x \in FullKeys
             PROVE  Whole(store'[x])
    BY DEF AllWhole, Whole
<1>1. store[x] \in Counter /\ Whole(store[x])
    BY DEF TypeOK, AllWhole
<1>2. CASE store'[x] = store[x] \/ store'[x] = Aged(store[x])
    <2>1. Whole(Aged(store[x]))
        BY <1>1, ExpiryOps
    <2> QED
        BY <1>1, <1>2, <2>1
<1>3. ASSUME NEW r \in Requests, CountsIn(r, x)
      PROVE  Whole(store'[x])
    <2>1. ScriptExpiry(via[r]) \in Nat
        BY WindowFacts
    <2>2. Whole(Incr(store[x])) /\ Whole(IncrWithExpire(store[x], ScriptExpiry(via[r])))
        BY <1>1, <2>1, ExpiryOps
    <2> QED
        BY <1>3, <2>2 DEF CountsIn, CountingCommand
<1>4. ASSUME NEW r \in Requests, SetsExpiry(r, x)
      PROVE  Whole(store'[x])
    <2>1. Window[via[r]] \in Nat
        BY WindowFacts
    <2>2. Whole(Expire(store[x], Window[via[r]]))
        BY <1>1, <2>1, ExpiryOps
    <2> QED
        BY <1>4, <2>2 DEF SetsExpiry
<1> QED
    BY <1>2, <1>3, <1>4, OneStep

LEMMA AllWholeInit == Init => AllWhole
BY DEF Init, AllWhole, Whole, Absent, NoKey

\* A request that nothing fails leaves EXPIRE only by setting the expiry.
LEMMA ExpireIsReached ==
    ASSUME TypeOK, [Next]_vars, ~ExpiryFaults, NEW r \in Requests,
           pc[r] = "expire", pc'[r] # "expire"
    PROVE  SetsExpiry(r, Target(r))
<1>1. ExpireKey(r)
    BY DEF Next, Step, Skip, Eval, IncrOnly, CountReply, FailOpen, ExpireKey, ReadTTL,
        Decide, WriteRateLimitError, Crash, Tick, vars, Goto, TypeOK, ExpiryFaults
<1> QED
    BY <1>1, WindowFacts DEF ExpireKey, SetsExpiry, TypeOK, ExpiryFaults

LEMMA ExpiryComesNext ==
    ~ExpiryFaults /\ TypeOK /\ AllWhole /\ ExpiryComes /\ [Next]_vars => ExpiryComes'
<1> SUFFICES ASSUME ~ExpiryFaults, TypeOK, AllWhole, ExpiryComes, [Next]_vars,
                    NEW x \in FullKeys, store'[x].count > 0, store'[x].ttl = NoExpiry
             PROVE  ExpiryPending(x)'
    BY DEF ExpiryComes
<1> DEFINE c == store[x]
<1>1. /\ c \in Counter /\ Whole(c) /\ c.count \in Nat
      /\ \A r \in Requests : Target(r)' = Target(r)
    BY OneStep DEF TypeOK, AllWhole, Counter
<1>2. ASSUME NEW r \in Requests, pc[r] = "expire", Target(r) = x, c.count > 0
      PROVE  ExpiryPending(x)'
    <2>1. CASE pc'[r] = "expire"
        BY <1>1, <1>2, <2>1 DEF ExpiryPending
    <2>2. CASE pc'[r] # "expire"
        <3>1. store'[x] = Expire(c, Window[via[r]]) /\ Window[via[r]] \in Nat /\ Window[via[r]] > 0
            BY <1>2, <2>2, ExpireIsReached, WindowFacts DEF SetsExpiry
        <3>2. store'[x].ttl # NoExpiry
            BY <1>1, <1>2, <3>1, ExpiryOps
        <3> QED
            BY <3>2
    <2> QED
        BY <2>1, <2>2
<1>3. CASE c.count > 0 /\ c.ttl = NoExpiry
    BY <1>2, <1>3 DEF ExpiryComes, ExpiryPending
<1>4. CASE ~(c.count > 0 /\ c.ttl = NoExpiry)
    <2>1. c.ttl # NoExpiry
        BY <1>1, <1>4 DEF Whole, NoKey, NoExpiry
    <2>2. store'[x] # c /\ store'[x] # Aged(c)
        BY <1>1, <2>1, ExpiryOps
    <2>3. ASSUME NEW r \in Requests, SetsExpiry(r, x)
          PROVE  ExpiryPending(x)'
        <3>1. /\ pc[r] = "expire" /\ Target(r) = x /\ store'[x] = Expire(c, Window[via[r]])
              /\ Window[via[r]] \in Nat
            BY <2>3, WindowFacts DEF SetsExpiry
        <3>2. c.count > 0
            BY <1>1, <2>2, <3>1, ExpiryOps
        <3> QED
            BY <1>2, <3>1, <3>2
    <2>4. ASSUME NEW r \in Requests, CountsIn(r, x)
          PROVE  ExpiryPending(x)'
        <3>1. /\ Target(r) = x /\ store'[x] = CountingCommand(r)
              /\ via[r] \notin EvalLimiters /\ c.count = 0 => pc'[r] = "expire"
            BY <2>4 DEF CountsIn, ExpiryFaults
        <3>2. ScriptExpiry(via[r]) \in Nat
            BY WindowFacts
        <3>3. c.count = 0
            BY <1>1, <2>1, <3>1, <3>2, ExpiryOps DEF CountingCommand
        <3>4. via[r] \notin EvalLimiters
            BY <1>1, <3>1, <3>2, <3>3, ExpiryOps DEF CountingCommand
        <3> QED
            BY <1>1, <3>1, <3>3, <3>4 DEF ExpiryPending
    <2> QED
        BY <2>2, <2>3, <2>4, OneStep
<1> QED
    BY <1>3, <1>4

\* Between INCR and EXPIRE the counter of the fallback path has no expiry; if no
\* INCR or EXPIRE fails and no process dies, somebody is always about to set it
\* (ratelimit.go 164-177).
THEOREM FaultlessExpiryComes ==
    ASSUME ~ExpiryFaults
    PROVE  Spec => []ExpiryComes
<1>1. Init => ExpiryComes
    BY DEF Init, ExpiryComes, Absent
<1> QED
    BY <1>1, TypeInit, TypeNext, AllWholeInit, AllWholeNext, ExpiryComesNext, PTL DEF Spec

\* What a step does to a counter without expiry that nobody cares for.
LEMMA AbandonedStep ==
    ASSUME TypeOK, [Next]_vars, NEW x \in FullKeys, Abandoned(x)
    PROVE  Abandoned(x)' /\ store'[x].life = store[x].life /\ store'[x].count >= store[x].count
<1> DEFINE c == store[x]
<1>1. /\ c \in Counter /\ c.count \in Nat /\ c.count > 0 /\ c.ttl = NoExpiry /\ Whole(c)
      /\ ~ExpiryPending(x)
    BY DEF Abandoned, TypeOK, Counter, Whole, NoKey, NoExpiry
<1>2. /\ store'[x].ttl = NoExpiry /\ store'[x].life = c.life
      /\ store'[x].count > 0 /\ store'[x].count >= c.count
    <2>1. CASE store'[x] = c \/ store'[x] = Aged(c)
        <3>1. Aged(c) = c
            BY <1>1, ExpiryOps
        <3> QED
            BY <1>1, <2>1, <3>1
    <2>2. ASSUME NEW r \in Requests, CountsIn(r, x)
          PROVE  store'[x] = Incr(c)
        <3>1. ScriptExpiry(via[r]) \in Nat
            BY WindowFacts
        <3>2. IncrWithExpire(c, ScriptExpiry(via[r])) = Incr(c)
            BY <1>1, <3>1, ExpiryOps
        <3> QED
            BY <2>2, <3>2 DEF CountsIn, CountingCommand
    <2>3. Incr(c).ttl = c.ttl /\ Incr(c).life = c.life /\ Incr(c).count = c.count + 1
        BY <1>1, ExpiryOps
    <2>4. ASSUME NEW r \in Requests
          PROVE  ~SetsExpiry(r, x)
        BY <1>1 DEF SetsExpiry, ExpiryPending
    <2>5. CASE store'[x] = Incr(c)
        BY <1>1, <2>3, <2>5
    <2> QED
        BY <2>1, <2>2, <2>4, <2>5, OneStep
<1>3. ~ExpiryPending(x)'
    <2> SUFFICES ASSUME NEW r \in Requests, pc'[r] = "expire", Target(r)' = x
                 PROVE  FALSE
        BY DEF ExpiryPending
    <2>1. Target(r) = x /\ pc[r] # "expire"
        BY <1>1, OneStep DEF ExpiryPending
    <2> QED
        BY <1>1, <2>1, OneStep
<1> QED
    BY <1>2, <1>3 DEF Abandoned

\* Once a fault has lost the expiry of a counter, nothing brings it back: the key
\* does not "persist longer" (ratelimit.go 174) but for ever, and no request that
\* is counted under it after it has reached the limit is allowed again.
THEOREM LostExpiryIsLost == Spec => AbandonedForGood
<1>1. ASSUME TypeOK, [Next]_vars, NEW r \in Requests, Abandoned(Target(r)),
             store[Target(r)].count >= LimitOf(via[r]), cnt'[r] # cnt[r]
      PROVE  ~Allowed(r)'
    <2>1. /\ Target(r) \in FullKeys /\ store[Target(r)].count \in Nat /\ LimitOf(via[r]) \in Nat
        BY <1>1, WindowFacts DEF Counter
    <2>2. cnt'[r] = store[Target(r)].count + 1 /\ via' = via
        BY <1>1, OneStep
    <2>3. ~(cnt'[r] <= LimitOf(via[r]))
        BY <1>1, <2>1, <2>2
    <2> QED
        BY <2>2, <2>3 DEF Allowed, LimitOf
<1>2. TypeOK /\ [Next]_vars =>
        [/\ \A x \in FullKeys : Abandoned(x) =>
              Abandoned(x)' /\ store'[x].life = store[x].life /\ store'[x].count >= store[x].count
         /\ \A r \in Requests :
              /\ Abandoned(Target(r)) /\ store[Target(r)].count >= LimitOf(via[r])
              /\ cnt'[r] # cnt[r]
              => ~Allowed(r)']_vars
    BY <1>1, AbandonedStep
<1> QED
    BY <1>2, TypeCorrect, PTL DEF Spec, AbandonedForGood

=============================================================================
