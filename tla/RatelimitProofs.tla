-------------------------- MODULE RatelimitProofs --------------------------
(***************************************************************************)
(* Proofs about Ratelimit, for any set of requests, limiters and keys, any *)
(* limits, windows and prefixes, either kind of client, with and without   *)
(* faults.  The argument: the counter of a window shows exactly how many   *)
(* requests that window has counted, so the counts handed out in it are    *)
(* the numbers 1, 2, ... without repetition, and those that are served all *)
(* lie in 1..limit.                                                        *)
(***************************************************************************)
EXTENDS Ratelimit, FiniteSetTheorems, TLAPS

-----------------------------------------------------------------------------
\* Arithmetic and the operations of Redis.

\* A duration cut to whole seconds is an integer.
LEMMA WholeSecondsType ==
    ASSUME NEW t \in Int
    PROVE  WholeSeconds(t) \in Int
BY RatelimitAssumption, Z3 DEF WholeSeconds

\* Retry-After is never negative (writeRateLimitError clamps it).
LEMMA RetryAfterType ==
    ASSUME NEW t \in Int
    PROVE  RetryAfter(t) \in Nat
BY WholeSecondsType DEF RetryAfter

\* The window in whole seconds is an integer.
LEMMA ScriptExpiryType ==
    ASSUME NEW l \in Limiters
    PROVE  ScriptExpiry(l) \in Int
BY RatelimitAssumption, WholeSecondsType DEF ScriptExpiry

\* What becomes of a counter that no request is counted in: it keeps its
\* count, or a new life begins at zero.
Kept(c, e) ==
    \/ e.life = c.life /\ e.count = c.count
    \/ e.life = c.life + 1 /\ e.count = 0

\* What becomes of a counter that counts a request.
Bumped(c, e) ==
    \/ e.life = c.life /\ e.count = c.count + 1
    \/ e.life = c.life + 1 /\ e.count = 0

\* A tick and EXPIRE keep a counter a counter, and count nobody.
LEMMA KeepingOps ==
    ASSUME NEW c \in Counter, NEW d \in Int
    PROVE  /\ Aged(c) \in Counter /\ Kept(c, Aged(c))
           /\ Expire(c, d) \in Counter
           /\ Kept(c, Expire(c, d))
BY DEF Counter, Aged, Expire, WithTTL, Deleted, Absent, Kept, NoKey

\* INCR and the script keep a counter a counter, and count one request.
LEMMA CountingOps ==
    ASSUME NEW c \in Counter, NEW d \in Int
    PROVE  /\ Incr(c) \in Counter /\ Bumped(c, Incr(c))
           /\ IncrWithExpire(c, d) \in Counter /\ Bumped(c, IncrWithExpire(c, d))
<1>1. Incr(c) \in Counter /\ Incr(c).life = c.life /\ Incr(c).count = c.count + 1
    BY DEF Counter, Incr, NoKey, NoExpiry
<1>2. Expire(Incr(c), d) \in Counter
    BY <1>1, KeepingOps
<1>3. Bumped(c, Expire(Incr(c), d))
    BY <1>1 DEF Counter, Expire, WithTTL, Deleted, Absent, Bumped, NoKey
<1> QED
    BY <1>1, <1>2, <1>3 DEF IncrWithExpire, Bumped

-----------------------------------------------------------------------------
\* Types.

\* Every request counts under one of the full keys.
LEMMA TargetType ==
    ASSUME TypeOK, NEW r \in Requests
    PROVE  Target(r) \in FullKeys
BY DEF TypeOK, Target, FullKeys

\* The store after the counting command of a request.
LEMMA CountedType ==
    ASSUME TypeOK, NEW r \in Requests, NEW e \in Counter, Counted(r, e)
    PROVE  /\ store' \in [FullKeys -> Counter]
           /\ hit' \in [Requests -> Nat]
BY TargetType DEF TypeOK, Counted, Counter

\* What the counting command makes of the counter.
LEMMA CountingCommandType ==
    ASSUME TypeOK, NEW r \in Requests
    PROVE  /\ store[Target(r)] \in Counter
           /\ CountingCommand(r) \in Counter
           /\ Bumped(store[Target(r)], CountingCommand(r))
<1>1. store[Target(r)] \in Counter /\ ScriptExpiry(via[r]) \in Int
    BY TargetType, ScriptExpiryType DEF TypeOK
<1> QED
    BY <1>1, CountingOps DEF CountingCommand

\* The step in which a request receives its count.
LEMMA CountReplyType ==
    ASSUME TypeOK, NEW r \in Requests, NEW e \in Counter, CountReply(r, e)
    PROVE  /\ store' \in [FullKeys -> Counter]
           /\ hit' \in [Requests -> Nat]
           /\ cnt' \in [Requests -> Nat]
<1>1. store[Target(r)].count + 1 \in Nat
    BY TargetType DEF TypeOK, Counter
<1> QED
    BY <1>1, CountedType DEF CountReply, TypeOK

\* The variables start with their types.
LEMMA TypeInit == Init => TypeOK
BY DEF Init, TypeOK, Absent, Counter, NoKey, Steps

\* Every step of the middleware, every crash and every tick keeps the types.
LEMMA TypeNext == TypeOK /\ [Next]_vars => TypeOK'
<1> SUFFICES ASSUME TypeOK, [Next]_vars
             PROVE  TypeOK'
    OBVIOUS
<1> USE DEF Steps
<1>1. ASSUME NEW r \in Requests, Skip(r)
      PROVE  TypeOK'
    BY <1>1 DEF TypeOK, Skip, Goto
<1>2. ASSUME NEW r \in Requests, Eval(r)
      PROVE  TypeOK'
    <2>1. CountReply(r, CountingCommand(r))
        BY <1>2 DEF Eval, CountingCommand
    <2>2. /\ store' \in [FullKeys -> Counter]
          /\ hit' \in [Requests -> Nat]
          /\ cnt' \in [Requests -> Nat]
        BY <2>1, CountingCommandType, CountReplyType
    <2> QED
        BY <1>2, <2>2 DEF TypeOK, Eval, CountReply, Goto
<1>3. ASSUME NEW r \in Requests, IncrOnly(r)
      PROVE  TypeOK'
    <2>1. CountReply(r, CountingCommand(r))
        BY <1>3 DEF IncrOnly, CountingCommand
    <2>2. /\ store' \in [FullKeys -> Counter]
          /\ hit' \in [Requests -> Nat]
          /\ cnt' \in [Requests -> Nat]
        BY <2>1, CountingCommandType, CountReplyType
    <2> QED
        BY <1>3, <2>2 DEF TypeOK, IncrOnly, CountReply, Goto
<1>4. ASSUME NEW r \in Requests, FailOpen(r)
      PROVE  TypeOK'
    <2>1. store' \in [FullKeys -> Counter] /\ hit' \in [Requests -> Nat]
        BY <1>4, CountingCommandType, CountedType DEF FailOpen, TypeOK
    <2>2. Window[via[r]] \in Int
        BY RatelimitAssumption DEF TypeOK
    <2> QED
        BY <1>4, <2>1, <2>2 DEF TypeOK, FailOpen, Goto
<1>5. ASSUME NEW r \in Requests, ExpireKey(r)
      PROVE  TypeOK'
    <2>1. store[Target(r)] \in Counter /\ Window[via[r]] \in Int
        BY TargetType, RatelimitAssumption DEF TypeOK
    <2>2. Expire(store[Target(r)], Window[via[r]]) \in Counter
        BY <2>1, KeepingOps
    <2>3. store' \in [FullKeys -> Counter]
        BY <1>5, <2>2 DEF ExpireKey, TypeOK
    <2> QED
        BY <1>5, <2>3 DEF TypeOK, ExpireKey, Goto
<1>6. ASSUME NEW r \in Requests, ReadTTL(r)
      PROVE  TypeOK'
    <2>1. store[Target(r)].ttl \in Int /\ Window[via[r]] \in Int
        BY TargetType, RatelimitAssumption DEF TypeOK, Counter
    <2>2. reset' \in [Requests -> Int]
        BY <1>6, <2>1 DEF TypeOK, ReadTTL, TTLOrWindow
    <2> QED
        BY <1>6, <2>2 DEF TypeOK, ReadTTL, Goto
<1>7. ASSUME NEW r \in Requests, Decide(r)
      PROVE  TypeOK'
    BY <1>7 DEF TypeOK, Decide, Goto
<1>8. ASSUME NEW r \in Requests, WriteRateLimitError(r)
      PROVE  TypeOK'
    <2>1. RetryAfter(reset[r]) \in Nat
        BY RetryAfterType DEF TypeOK
    <2> QED
        BY <1>8, <2>1 DEF TypeOK, WriteRateLimitError, Goto
<1>9. ASSUME NEW r \in Requests, Crash(r)
      PROVE  TypeOK'
    BY <1>9 DEF TypeOK, Crash, Goto
<1>10. CASE Tick
    <2>1. store' \in [FullKeys -> Counter]
        BY <1>10, KeepingOps DEF Tick, TypeOK
    <2>2. \A t \in Int : Later(t) \in Int
        BY RatelimitAssumption DEF Later
    <2>3. reset' \in [Requests -> Int] /\ retry' \in [Requests -> Nat]
        BY <1>10, <2>2 DEF Tick, TypeOK
    <2>4. phase' \in 0..(TicksPerSecond - 1)
        <3>1. phase' = (phase + 1) % TicksPerSecond /\ phase \in Int /\ TicksPerSecond \in Nat \ {0}
            BY <1>10, RatelimitAssumption DEF Tick, TypeOK
        <3> QED
            BY <3>1, Z3
    <2> QED
        BY <1>10, <2>1, <2>3, <2>4 DEF Tick, TypeOK
<1>11. CASE UNCHANGED vars
    BY <1>11 DEF TypeOK, vars
<1> QED
    BY <1>1, <1>2, <1>3, <1>4, <1>5, <1>6, <1>7, <1>8, <1>9, <1>10, <1>11 DEF Next, Step

\* The variables keep their types: in particular Retry-After is never negative
\* and no counter of Redis ever is.
THEOREM TypeCorrect == Spec => []TypeOK
BY TypeInit, TypeNext, PTL DEF Spec

-----------------------------------------------------------------------------
\* Counting.

\* The requests counted in a life are a finite set.
LEMMA CountedInFinite ==
    ASSUME NEW x, NEW n
    PROVE  IsFiniteSet(CountedIn(x, n)) /\ Cardinality(CountedIn(x, n)) \in Nat
<1>1. CountedIn(x, n) \in SUBSET Requests
    BY DEF CountedIn
<1> QED
    BY <1>1, RatelimitAssumption, FS_Subset, FS_CardinalityType

\* A life that has not begun has counted nobody.
LEMMA NobodyInNextLife ==
    ASSUME TypeOK, CountingExact, NEW x \in FullKeys
    PROVE  Cardinality(CountedIn(x, store[x].life + 1)) = 0
<1>1. ASSUME NEW r \in CountedIn(x, store[x].life + 1)
      PROVE  FALSE
    <2>1. hit[r] = store[x].life + 1 /\ hit[r] <= store[x].life
        BY DEF CountedIn, CountingExact, CountBound
    <2>2. store[x].life \in Nat
        BY DEF TypeOK, Counter
    <2> QED
        BY <2>1, <2>2
<1> QED
    BY <1>1, FS_EmptySet

\* A step that counts nobody, and may expire counters, leaves counting exact.
LEMMA KeptExact ==
    ASSUME TypeOK, TypeOK', CountingExact, UNCHANGED <<via, key, cnt, hit>>,
           \A x \in FullKeys : Kept(store[x], store'[x])
    PROVE  CountingExact'
<1>1. \A r : Target(r)' = Target(r)
    BY DEF Target
<1>2. \A x, n : CountedIn(x, n)' = CountedIn(x, n)
    BY <1>1 DEF CountedIn
<1>3. ASSUME NEW r \in Requests
      PROVE  CountBound(r)'
    <2>1. Kept(store[Target(r)], store'[Target(r)])
        BY TargetType
    <2>2. /\ store[Target(r)] \in Counter /\ store'[Target(r)] \in Counter
          /\ hit[r] \in Nat /\ cnt[r] \in Nat
        BY TargetType DEF TypeOK
    <2> QED
        BY <1>1, <2>1, <2>2 DEF CountingExact, CountBound, Kept, Counter
<1>4. ASSUME NEW r \in Requests
      PROVE  CountEarned(r)'
    BY <1>1, <1>2 DEF CountingExact, CountEarned
<1>5. ASSUME NEW q \in Requests, NEW r \in Requests
      PROVE  CountsDistinct(q, r)'
    BY <1>1 DEF CountingExact, CountsDistinct
<1>6. ASSUME NEW x \in FullKeys
      PROVE  CounterExact(x)'
    <2>1. Kept(store[x], store'[x])
        OBVIOUS
    <2>2. CASE store'[x].life = store[x].life /\ store'[x].count = store[x].count
        BY <1>2, <2>2 DEF CountingExact, CounterExact
    <2>3. CASE store'[x].life = store[x].life + 1 /\ store'[x].count = 0
        BY <1>2, <2>3, NobodyInNextLife DEF CounterExact
    <2> QED
        BY <2>1, <2>2, <2>3 DEF Kept
<1> QED
    BY <1>3, <1>4, <1>5, <1>6 DEF CountingExact

\* A step that counts a fresh request, whether or not its reply arrives,
\* leaves counting exact.
LEMMA CountedExact ==
    ASSUME TypeOK, TypeOK', CountingExact, NEW r \in Requests, hit[r] = 0,
           NEW e, Counted(r, e), Bumped(store[Target(r)], e),
           NEW n \in {0, store[Target(r)].count + 1}, cnt' = [cnt EXCEPT ![r] = n],
           UNCHANGED <<via, key>>
    PROVE  CountingExact'
<1> DEFINE T == Target(r)
           L == store[T].life
<1>1. \A q : Target(q)' = Target(q)
    BY DEF Target
<1>2. /\ T \in FullKeys /\ store[T].count \in Nat /\ L \in Nat \ {0}
      /\ e = store'[T] /\ e.count \in Nat /\ e.life \in Nat
    BY TargetType DEF TypeOK, Counter, Counted
<1>3. /\ hit'[r] = L /\ cnt'[r] = n
      /\ \A q \in Requests \ {r} : hit'[q] = hit[q] /\ cnt'[q] = cnt[q]
      /\ \A x \in FullKeys \ {T} : store'[x] = store[x]
    BY DEF Counted, TypeOK
\* Only the set of the current life of the counter grows, by r.
<1>4. r \notin CountedIn(T, L)
    BY <1>2 DEF CountedIn
<1>5. \A x, m : x = T /\ m = L => CountedIn(x, m)' = CountedIn(x, m) \cup {r}
    BY <1>1, <1>3 DEF CountedIn
<1>6. \A x, m : x # T \/ (m # L /\ m # 0) => CountedIn(x, m)' = CountedIn(x, m)
    BY <1>1, <1>3 DEF CountedIn
<1>7. ASSUME NEW x, NEW m, x = T, m = L
      PROVE  Cardinality(CountedIn(x, m)') = Cardinality(CountedIn(x, m)) + 1
    <2>1. CountedIn(x, m)' = CountedIn(x, m) \cup {r} /\ r \notin CountedIn(x, m)
        BY <1>4, <1>5, <1>7
    <2>2. IsFiniteSet(CountedIn(x, m))
        BY CountedInFinite
    <2> QED
        BY <2>1, <2>2, FS_AddElement
<1>8. store[T].count = Cardinality(CountedIn(T, L))
    BY <1>2 DEF CountingExact, CounterExact
<1>9. ASSUME NEW q \in Requests
      PROVE  CountBound(q)'
    <2>1. Target(q) \in FullKeys /\ cnt[q] \in Nat /\ hit[q] \in Nat
        BY TargetType DEF TypeOK
    <2>2. CountBound(q)
        BY DEF CountingExact
    <2>3. CASE q = r
        BY <1>1, <1>2, <1>3, <2>3 DEF Bumped, CountBound
    <2>4. CASE q # r /\ Target(q) = T
        BY <1>1, <1>2, <1>3, <2>1, <2>2, <2>4 DEF Bumped, CountBound
    <2>5. CASE q # r /\ Target(q) # T
        BY <1>1, <1>3, <2>1, <2>2, <2>5 DEF CountBound
    <2> QED
        BY <2>3, <2>4, <2>5
<1>10. ASSUME NEW q \in Requests
       PROVE  CountEarned(q)'
    <2>1. CASE q = r
        BY <1>1, <1>2, <1>3, <1>7, <1>8, <2>1 DEF CountEarned
    <2>2. CASE q # r
        <3>1. CountEarned(q) /\ cnt[q] \in Nat /\ hit[q] \in Nat
            BY DEF CountingExact, TypeOK
        <3>2. CASE Target(q) = T /\ hit[q] = L
            BY <1>1, <1>2, <1>3, <1>7, <1>8, <2>2, <3>1, <3>2 DEF CountEarned
        <3>3. CASE (Target(q) # T \/ hit[q] # L) /\ hit[q] # 0
            BY <1>1, <1>3, <1>6, <2>2, <3>1, <3>3 DEF CountEarned
        <3>4. CASE hit[q] = 0
            BY <1>1, <1>3, <2>2, <3>1, <3>4 DEF CountEarned
        <3> QED
            BY <3>2, <3>3, <3>4
    <2> QED
        BY <2>1, <2>2
<1>11. ASSUME NEW p \in Requests, NEW q \in Requests
       PROVE  CountsDistinct(p, q)'
    <2>1. CountsDistinct(p, q) /\ CountBound(p) /\ CountBound(q)
        BY DEF CountingExact
    <2>2. {cnt[p], cnt[q], hit[p], hit[q]} \subseteq Nat
        BY DEF TypeOK
    <2>3. CASE p # r /\ q # r
        BY <1>1, <1>3, <2>1, <2>3 DEF CountsDistinct
    <2>4. CASE p = r /\ q # r
        <3>1. Target(q) = T /\ hit[q] = L => cnt[q] <= store[T].count
            BY <2>1 DEF CountBound
        <3>2. /\ Target(p)' = T /\ hit'[p] = L /\ cnt'[p] = n
              /\ Target(q)' = Target(q) /\ hit'[q] = hit[q] /\ cnt'[q] = cnt[q]
            BY <1>1, <1>3, <2>4
        <3> QED
            BY <1>2, <2>2, <3>1, <3>2 DEF CountsDistinct
    <2>5. CASE p # r /\ q = r
        BY <1>1, <1>2, <1>3, <2>1, <2>2, <2>5 DEF CountsDistinct, CountBound
    <2>6. CASE p = q
        BY <2>6 DEF CountsDistinct
    <2> QED
        BY <2>3, <2>4, <2>5, <2>6
<1>12. ASSUME NEW x \in FullKeys
       PROVE  CounterExact(x)'
    <2>1. CASE x # T
        BY <1>3, <1>6, <2>1 DEF CountingExact, CounterExact
    <2>2. CASE x = T /\ e.life = L /\ e.count = store[T].count + 1
        BY <1>2, <1>7, <1>8, <2>2 DEF CounterExact
    <2>3. CASE x = T /\ e.life = L + 1 /\ e.count = 0
        BY <1>2, <1>6, <2>3, NobodyInNextLife DEF CounterExact
    <2> QED
        BY <1>2, <2>1, <2>2, <2>3 DEF Bumped
<1> QED
    BY <1>9, <1>10, <1>11, <1>12 DEF CountingExact

-----------------------------------------------------------------------------
\* The inductive invariant.

\* Nothing has been counted at the start.
LEMMA IInit == Init => IInv
<1> SUFFICES ASSUME Init
             PROVE  IInv
    OBVIOUS
<1>1. TypeOK
    BY TypeInit
<1>2. \A x, n : n # 0 => CountedIn(x, n) = {}
    BY DEF Init, CountedIn
<1>3. \A x \in FullKeys : CounterExact(x)
    <2>1. \A x \in FullKeys : store[x].count = 0 /\ CountedIn(x, store[x].life) = {}
        BY <1>2 DEF Init, Absent
    <2> QED
        BY <2>1, FS_EmptySet DEF CounterExact
<1>4. \A r \in Requests : store[Target(r)].life = 1
    BY <1>1, TargetType DEF Init, Absent
<1>5. \A r \in Requests : CountBound(r) /\ CountEarned(r)
    BY <1>4 DEF Init, CountBound, CountEarned
<1>6. \A q, r \in Requests : CountsDistinct(q, r)
    BY DEF Init, CountsDistinct
<1>7. \A r \in Requests : Fresh(r) /\ Decided(r)
    BY DEF Init, Fresh, Decided
<1> QED
    BY <1>1, <1>3, <1>5, <1>6, <1>7 DEF IInv, CountingExact

\* A request whose count the step leaves alone, and which the step does not
\* move to an answer, keeps Fresh and Decided.
LEMMA OthersKeep ==
    ASSUME NEW q \in Requests, Fresh(q) /\ Decided(q), UNCHANGED via,
           cnt'[q] = cnt[q], hit'[q] = hit[q],
           pc'[q] = pc[q] \/ pc'[q] \notin {"count", "served", "reject", "rejected"}
    PROVE  (Fresh(q) /\ Decided(q))'
BY DEF Fresh, Decided, Allowed, LimitOf

\* Counting stays exact and decisions stay those of the count, whichever
\* step is taken.
LEMMA IInvNext == IInv /\ [Next]_vars => IInv'
<1> SUFFICES ASSUME IInv, [Next]_vars
             PROVE  IInv'
    OBVIOUS
<1>0. TypeOK /\ TypeOK' /\ CountingExact
    BY TypeNext DEF IInv
<1>a. \A q \in Requests : Fresh(q) /\ Decided(q)
    BY DEF IInv
<1>b. \A x \in FullKeys : Kept(store[x], store[x])
    BY DEF Kept
<1>c. UNCHANGED <<store, via, key, cnt, hit>> => CountingExact'
    BY <1>0, <1>b, KeptExact
<1>1. ASSUME NEW r \in Requests, Skip(r)
      PROVE  IInv'
    <2>1. ASSUME NEW q \in Requests
          PROVE  (Fresh(q) /\ Decided(q))'
        BY <1>0, <1>1, <1>a DEF Skip, Goto, TypeOK, Fresh, Decided, Allowed, LimitOf
    <2> QED
        BY <1>0, <1>1, <1>c, <2>1 DEF IInv, Skip
<1>2. ASSUME NEW r \in Requests, CountReply(r, CountingCommand(r)),
             Goto(r, "expire") \/ Goto(r, "ttl")
      PROVE  IInv'
    <2>1. CountingExact'
        <3>1. /\ hit[r] = 0 /\ Counted(r, CountingCommand(r)) /\ UNCHANGED <<via, key>>
              /\ cnt' = [cnt EXCEPT ![r] = store[Target(r)].count + 1]
            BY <1>2, <1>a DEF CountReply, Fresh
        <3> QED
            BY <1>0, <3>1, CountingCommandType, CountedExact
    <2>2. ASSUME NEW q \in Requests
          PROVE  (Fresh(q) /\ Decided(q))'
        <3>1. CASE q = r
            BY <1>0, <1>2, <3>1 DEF Goto, TypeOK, Fresh, Decided
        <3>2. CASE q # r
            BY <1>0, <1>2, <1>a, <3>2, OthersKeep DEF Goto, CountReply, Counted, TypeOK
        <3> QED
            BY <3>1, <3>2
    <2> QED
        BY <1>0, <2>1, <2>2 DEF IInv
<1>3. ASSUME NEW r \in Requests, Eval(r)
      PROVE  IInv'
    BY <1>2, <1>3 DEF Eval, CountingCommand
<1>4. ASSUME NEW r \in Requests, IncrOnly(r)
      PROVE  IInv'
    BY <1>2, <1>4 DEF IncrOnly, CountingCommand
<1>5. ASSUME NEW r \in Requests, FailOpen(r)
      PROVE  IInv'
    <2>1. pc[r] = "count" /\ cnt[r] = 0 /\ hit[r] = 0 /\ UNCHANGED <<via, key, cnt>>
        BY <1>5, <1>a DEF FailOpen, Fresh
    <2>2. CASE Counted(r, CountingCommand(r))
        <3>1. cnt' = [cnt EXCEPT ![r] = 0]
            BY <1>0, <2>1 DEF TypeOK
        <3>2. CountingExact'
            BY <1>0, <2>1, <2>2, <3>1, CountingCommandType, CountedExact
        <3>3. ASSUME NEW q \in Requests
              PROVE  (Fresh(q) /\ Decided(q))'
            <4>1. CASE q = r
                BY <1>0, <1>5, <2>1, <4>1 DEF FailOpen, Goto, TypeOK, Fresh, Decided
            <4>2. CASE q # r
                BY <1>0, <1>5, <1>a, <2>1, <2>2, <4>2, OthersKeep
                DEF FailOpen, Goto, Counted, TypeOK
            <4> QED
                BY <4>1, <4>2
        <3> QED
            BY <1>0, <3>2, <3>3 DEF IInv
    <2>3. CASE UNCHANGED <<store, hit>>
        <3>1. ASSUME NEW q \in Requests
              PROVE  (Fresh(q) /\ Decided(q))'
            BY <1>0, <1>5, <1>a, <2>1, <2>3
            DEF FailOpen, Goto, TypeOK, Fresh, Decided, Allowed, LimitOf
        <3> QED
            BY <1>0, <1>c, <2>1, <2>3, <3>1 DEF IInv
    <2> QED
        BY <1>5, <2>2, <2>3 DEF FailOpen
<1>6. ASSUME NEW r \in Requests, ExpireKey(r)
      PROVE  IInv'
    <2>1. store[Target(r)] \in Counter /\ Window[via[r]] \in Int
        BY <1>0, TargetType, RatelimitAssumption DEF TypeOK
    <2>2. Kept(store[Target(r)], Expire(store[Target(r)], Window[via[r]]))
        BY <2>1, KeepingOps
    <2>3. \A x \in FullKeys : Kept(store[x], store'[x])
        BY <1>0, <1>6, <1>b, <2>2 DEF ExpireKey, TypeOK
    <2>4. CountingExact'
        BY <1>0, <1>6, <2>3, KeptExact DEF ExpireKey
    <2>5. ASSUME NEW q \in Requests
          PROVE  (Fresh(q) /\ Decided(q))'
        BY <1>0, <1>6, <1>a, OthersKeep DEF ExpireKey, Goto, TypeOK
    <2> QED
        BY <1>0, <2>4, <2>5 DEF IInv
<1>7. ASSUME NEW r \in Requests, ReadTTL(r)
      PROVE  IInv'
    <2>1. ASSUME NEW q \in Requests
          PROVE  (Fresh(q) /\ Decided(q))'
        BY <1>0, <1>7, <1>a, OthersKeep DEF ReadTTL, Goto, TypeOK
    <2> QED
        BY <1>0, <1>7, <1>c, <2>1 DEF IInv, ReadTTL
<1>8. ASSUME NEW r \in Requests, Decide(r)
      PROVE  IInv'
    <2>1. ASSUME NEW q \in Requests
          PROVE  (Fresh(q) /\ Decided(q))'
        BY <1>0, <1>8, <1>a DEF Decide, Goto, TypeOK, Fresh, Decided, Allowed, LimitOf
    <2> QED
        BY <1>0, <1>8, <1>c, <2>1 DEF IInv, Decide
<1>9. ASSUME NEW r \in Requests, WriteRateLimitError(r)
      PROVE  IInv'
    <2>1. ASSUME NEW q \in Requests
          PROVE  (Fresh(q) /\ Decided(q))'
        BY <1>0, <1>9, <1>a
        DEF WriteRateLimitError, Goto, TypeOK, Fresh, Decided, Allowed, LimitOf
    <2> QED
        BY <1>0, <1>9, <1>c, <2>1 DEF IInv, WriteRateLimitError
<1>10. ASSUME NEW r \in Requests, Crash(r)
      PROVE  IInv'
    <2>1. ASSUME NEW q \in Requests
          PROVE  (Fresh(q) /\ Decided(q))'
        BY <1>0, <1>10, <1>a, OthersKeep DEF Crash, Goto, TypeOK
    <2> QED
        BY <1>0, <1>10, <1>c, <2>1 DEF IInv, Crash
<1>11. CASE Tick
    <2>1. \A x \in FullKeys : Kept(store[x], store'[x])
        BY <1>0, <1>11, KeepingOps DEF Tick, TypeOK
    <2>2. CountingExact'
        BY <1>0, <1>11, <2>1, KeptExact DEF Tick
    <2>3. ASSUME NEW q \in Requests
          PROVE  (Fresh(q) /\ Decided(q))'
        BY <1>11, <1>a, OthersKeep DEF Tick
    <2> QED
        BY <1>0, <2>2, <2>3 DEF IInv
<1>12. CASE UNCHANGED vars
    <2>1. ASSUME NEW q \in Requests
          PROVE  (Fresh(q) /\ Decided(q))'
        BY <1>12, <1>a, OthersKeep DEF vars
    <2> QED
        BY <1>0, <1>12, <1>c, <2>1 DEF IInv, vars
<1> QED
    BY <1>1, <1>3, <1>4, <1>5, <1>6, <1>7, <1>8, <1>9, <1>10, <1>11, <1>12 DEF Next, Step

\* The inductive invariant: in every state no count has been handed out twice
\* or invented, each counter shows what its life has counted, and requests are
\* served or rejected as their count says (Check and calculateResult).
THEOREM Invariance == Spec => []IInv
BY IInit, IInvNext, PTL DEF Spec

-----------------------------------------------------------------------------
\* The counting properties.

\* In one window of one bucket at most Limit + BurstAllowance requests are
\* served on their count: their counts are distinct numbers of 1..limit.
LEMMA CountsWithinLimit == IInv => AtMostLimitPerWindow
<1> SUFFICES ASSUME IInv, NEW r \in Requests
             PROVE  Cardinality({q \in Peers(r) : pc[q] = "served" /\ cnt[q] > 0})
                        <= LimitOf(via[r])
    BY DEF AtMostLimitPerWindow
<1> DEFINE S == {q \in Peers(r) : pc[q] = "served" /\ cnt[q] > 0}
           n == LimitOf(via[r])
           f == [q \in S |-> cnt[q]]
<1>1. n \in Nat
    BY RatelimitAssumption DEF IInv, TypeOK, LimitOf
<1>2. ASSUME NEW q \in S
      PROVE  cnt[q] \in 1..n /\ q \in Requests /\ Target(q) = Target(r) /\ hit[q] = hit[r]
    BY <1>1 DEF IInv, TypeOK, Decided, Allowed, Peers, SameBucket, Target
<1>3. ASSUME NEW p \in S, NEW q \in S, cnt[p] = cnt[q]
      PROVE  p = q
    BY <1>2, <1>3 DEF IInv, CountingExact, CountsDistinct
<1>4. f \in Injection(S, 1..n)
    BY <1>2, <1>3 DEF Injection, IsInjective
<1>5. IsFiniteSet(1..n) /\ Cardinality(1..n) = n
    BY <1>1, FS_Interval
<1>6. Cardinality(S) <= Cardinality(1..n)
    BY <1>4, <1>5, FS_Injection
<1> QED
    BY <1>5, <1>6

\* At most Limit + BurstAllowance requests are served on their count in one
\* life of a counter, whatever interleaves, fails or crashes (Check).
THEOREM LimitHolds == Spec => []AtMostLimitPerWindow
BY Invariance, CountsWithinLimit, PTL

\* Two limiters never share a counter: they have different prefixes.  Without
\* it (NewLimiter gives every limiter the same default prefix) one limiter's
\* traffic uses up the other's quota.
PrefixesDiffer == \A l, m \in Limiters : Prefix[l] = Prefix[m] => l = m

\* A request is rejected only after Limit + BurstAllowance other requests of
\* its own limiter and key were counted in its window.
LEMMA RejectionEarned == PrefixesDiffer /\ IInv => RejectedOnlyByOwnTraffic
<1> SUFFICES ASSUME PrefixesDiffer, IInv, NEW r \in Requests, Rejected(r)
             PROVE  Cardinality(Peers(r) \ {r}) >= LimitOf(via[r])
    BY DEF RejectedOnlyByOwnTraffic
<1>1. LimitOf(via[r]) \in Nat /\ cnt[r] \in Nat
    BY RatelimitAssumption DEF IInv, TypeOK, LimitOf
<1>2. cnt[r] > LimitOf(via[r])
    BY <1>1 DEF IInv, Decided, Rejected, Allowed
<1>3. cnt[r] <= Cardinality(CountedIn(Target(r), hit[r]))
    BY <1>1, <1>2 DEF IInv, CountingExact, CountEarned
<1>4. CountedIn(Target(r), hit[r]) = Peers(r)
    BY DEF CountedIn, Peers, SameBucket, Target, FullKey, PrefixesDiffer, IInv, TypeOK
<1>5. r \in Peers(r)
    BY DEF Peers, SameBucket
<1>6. IsFiniteSet(Peers(r)) /\ Cardinality(Peers(r)) \in Nat
    <2>1. /\ IsFiniteSet(CountedIn(Target(r), hit[r]))
          /\ Cardinality(CountedIn(Target(r), hit[r])) \in Nat
        BY CountedInFinite
    <2> QED
        BY <1>4, <2>1
<1>7. Cardinality(Peers(r) \ {r}) = Cardinality(Peers(r)) - 1
    BY <1>5, <1>6, FS_RemoveElement
<1> QED
    BY <1>1, <1>2, <1>3, <1>4, <1>6, <1>7

\* If no two limiters share a prefix, a rejection (Middleware) is earned by
\* other requests of the same limiter and key in the same window.
THEOREM RejectionOnlyByOwnTraffic ==
    ASSUME PrefixesDiffer
    PROVE  Spec => []RejectedOnlyByOwnTraffic
BY Invariance, RejectionEarned, PTL

=============================================================================
