------------------------- MODULE ResponsePathProofs -------------------------
(***************************************************************************)
(* Proofs about ResponsePath, for layers in every order and number, with   *)
(* one timeout layer or none.  The argument: Places says how far the two   *)
(* goroutines can be apart and that a timed-out layer lets nothing         *)
(* through; OneAuthor says which wrappers remember the author of the body; *)
(* Mirrored says that outside the timeout each wrapper agrees with what    *)
(* net/http sent, and that an entry is final; Recovering says that no      *)
(* wrapper remembers a status before anything is sent, so that recovery's  *)
(* writer tells the truth when a clean panic reaches it.                   *)
(***************************************************************************)
EXTENDS ResponsePath, FiniteSetTheorems, TLAPS

-----------------------------------------------------------------------------
\* The inductive invariant.

\* The timeout layer's goroutine is on its way back, or net/http has ended.
Ended == mode["server"] \in {"return", "done"}

\* The handler's goroutine has come back to the timeout layer.
Stopped == at["handler"] = Boundary /\ mode["handler"] \notin {"run", "recovering"}

\* How far the two goroutines can be apart.
Places ==
    /\ at["handler"] >= Boundary
    /\ mode["handler"] \in {"run", "return", "panic", "recovering", "done", "aborted"}
    /\ mode["handler"] = "run" => at["handler"] = Len(order)
    /\ mode["handler"] \in {"done", "aborted"} => Boundary = 0
    /\ mode["server"] \in {"select", "answer", "return", "done"}
    /\ mode["server"] = "select" => ~TimedOut
    /\ mode["server"] = "answer" => TimedOut
    /\ Ended => /\ Boundary > 0
                /\ at["server"] < Boundary
                /\ TimedOut \/ Stopped
    /\ \A i \in Layers : path.layer[i].timedOut => i = Boundary
    /\ mode["handler"] = "panic" =>
         \A i \in Layers : i > at["handler"] => order[i] # "recovery"

\* What the writers remember of each author of the body.
OneAuthor ==
    /\ \A a, b \in path.base.authors : a = b
    /\ path.base.status = 0 => path.base.authors = {}
    /\ "handler" \in path.base.authors =>
         /\ mode["handler"] # "recovering"
         /\ \A i \in Layers : path.layer[i].wrote
    /\ "recovery" \in path.base.authors =>
         /\ mode["handler"] \notin {"run", "panic", "recovering"}
         /\ \A i \in 1..Boundary : path.layer[i].wrote
    /\ "timeout" \in path.base.authors => TimedOut /\ Ended

\* Up to layer m the wrappers of p agree with net/http, unless the handler
\* went past them.
InStep(p, m) ==
    \A i \in 1..m :
        /\ ~p.layer[i].timedOut
        /\ p.layer[i].bytes = p.base.bytes
        /\ \/ p.base.bypassed \/ p.base.early
           \/ /\ p.layer[i].wrote <=> p.base.status # 0
              /\ p.layer[i].wrote => p.layer[i].status = p.base.status

\* The innermost layer outside the timeout that has not finished.
Edge == IF Boundary = 0 THEN at["handler"]
        ELSE IF Ended THEN at["server"] ELSE Boundary - 1

\* The status net/http sends, or will send.
Final(b) == IF b.status = 0 THEN 200 ELSE b.status

Mirrored ==
    /\ InStep(path, Edge)
    /\ \A i \in Layers :
         order[i] = "log" /\ ~path.layer[i].wrote => path.layer[i].status = 200
    /\ path.base.hijacked => path.base.bypassed
    /\ \A i \in Layers :
         entry[i] # NoEntry /\ (Boundary = 0 \/ i < Boundary) =>
            /\ mode[Outer] \in {"return", "done"}
            /\ entry[i].bytes = path.base.bytes
            /\ \/ path.base.bypassed \/ path.base.early
               \/ entry[i].status = Final(path.base)

\* Before anything is sent, no wrapper of p up to layer m remembers a status,
\* except behind a timeout layer that has given up.
Quiet(p, m) ==
    ~p.base.early /\ p.base.status = 0 =>
        \A i \in 1..m :
            p.layer[i].wrote => \E j \in 1..(i - 1) : p.layer[j].timedOut

\* The status of recovery's answer has been sent; its body follows, or is stopped
\* by the timeout layer.
BareAnswer ==
    /\ path.base.status = 500 /\ path.base.authors = {}
    /\ mode["handler"] = "recovering" \/ TimedOut
    /\ \A i \in 1..Boundary : path.layer[i].wrote

\* What becomes of a clean panic that a recovery layer can see.
Recovering ==
    Guarded =>
      /\ ~path.base.bypassed
      /\ Quiet(path, at["handler"])
      /\ Ended /\ TimedOut /\ ~path.base.early => path.base.status # 0
      /\ clean =>
           /\ ~path.base.early
           /\ mode["handler"] # "run"
           /\ \/ /\ path.base.status = 0
                 /\ mode["handler"] = "panic" \/ mode["server"] = "answer"
                 /\ ~Ended
              \/ BareAnswer
              \/ path.base.status = 500 /\ path.base.authors = {"recovery"}
              \/ path.base.status = 503 /\ path.base.authors = {"timeout"}

IInv == TypeOK /\ Places /\ OneAuthor /\ Mirrored /\ Recovering

-----------------------------------------------------------------------------
\* The writers.

Wrappers == [wrote : BOOLEAN, status : Statuses \cup {0}, bytes : Nat, timedOut : BOOLEAN]

Responses == [status : Statuses \cup {0}, bytes : Nat,
              authors : SUBSET {"handler", "recovery", "timeout"},
              early : BOOLEAN, hijacked : BOOLEAN, bypassed : BOOLEAN]

Paths(n) == [layer : [1..n -> Wrappers], base : Responses]

\* Do the layers from k out to i let a status, or a body, through?
Open(p, i, k) == \A j \in i..k : ~p.layer[j].wrote /\ ~p.layer[j].timedOut
Passes(p, i, k) == \A j \in i..k : ~p.layer[j].timedOut

\* The implied and the error statuses are final ones.
LEMMA StatusesAreFinal ==
    /\ {200, 500, 503} \subseteq Statuses
    /\ \A c \in Statuses : c # 0 /\ c \in Nat
    /\ \A c \in {200, 500, 503} : c \notin Informational
BY ResponsePathAssumption DEF Statuses

\* net/http keeps the first final status, and a status changes nothing else.
LEMMA BaseStatusFacts ==
    ASSUME NEW b \in Responses, NEW c \in Statuses
    PROVE  LET d == BaseStatus(b, c)
           IN  /\ d \in Responses
               /\ d.bytes = b.bytes /\ d.authors = b.authors
               /\ d.hijacked = b.hijacked /\ d.bypassed = b.bypassed
               /\ b.early => d.early
               /\ b.status # 0 \/ b.hijacked => d = b
               /\ b.status = 0 /\ ~b.hijacked =>
                    \/ c \in Informational /\ d.early /\ d.status = 0
                    \/ c \notin Informational /\ d.early = b.early /\ d.status = c
BY DEF BaseStatus, Responses

\* A body implies the status 200 and adds its author.
LEMMA BaseWriteFacts ==
    ASSUME NEW b \in Responses, NEW who \in {"handler", "recovery", "timeout"},
           NEW d, d = BaseWrite(b, who)
    PROVE  /\ d \in Responses
           /\ d.hijacked = b.hijacked /\ d.bypassed = b.bypassed
           /\ d.early = b.early
           /\ b.hijacked => d = b
           /\ ~b.hijacked => /\ d.bytes = b.bytes + 1
                             /\ d.authors = b.authors \cup {who}
                             /\ d.status = Final(b)
<1> DEFINE s == BaseStatus(b, 200)
<1>1. /\ s \in Responses
      /\ s.bytes = b.bytes /\ s.authors = b.authors
      /\ s.hijacked = b.hijacked /\ s.bypassed = b.bypassed
      /\ ~b.hijacked => s.early = b.early /\ s.status = Final(b)
  BY BaseStatusFacts, StatusesAreFinal DEF Final
<1> HIDE DEF s
<1>2. CASE b.hijacked
  <2>1. d = b
    BY <1>2 DEF BaseWrite
  <2> QED BY <2>1, <1>2
<1>3. CASE ~b.hijacked
  <2>1. d = [s EXCEPT !.bytes = @ + 1, !.authors = @ \cup {who}]
    BY <1>3 DEF BaseWrite, s
  <2>2. d = [s EXCEPT !.bytes = s.bytes + 1, !.authors = s.authors \cup {who}]
    BY <2>1
  <2>3. s.bytes + 1 \in Nat
        /\ s.authors \cup {who} \in SUBSET {"handler", "recovery", "timeout"}
    BY <1>1 DEF Responses
  <2>4. /\ d.bytes = s.bytes + 1 /\ d.authors = s.authors \cup {who}
        /\ d.hijacked = s.hijacked /\ d.bypassed = s.bypassed
        /\ d.early = s.early /\ d.status = s.status
    BY <2>2, <1>1 DEF Responses
  <2>5. d \in Responses
    BY <2>2, <2>3, <1>1 DEF Responses
  <2> QED BY <2>4, <2>5, <1>1, <1>3
<1> QED BY <1>2, <1>3

\* What WriteHeader does to each layer and to the response.
LEMMA WriteHeaderFacts ==
    ASSUME NEW n \in Nat, NEW p \in Paths(n), NEW k \in 0..n, NEW c \in Statuses
    PROVE  LET q == WriteHeader(p, k, c)
           IN  /\ q \in Paths(n)
               /\ \A i \in 1..n :
                    IF i <= k /\ Open(p, i, k)
                    THEN /\ q.layer[i].wrote /\ q.layer[i].status = c
                         /\ q.layer[i].bytes = p.layer[i].bytes
                         /\ q.layer[i].timedOut = p.layer[i].timedOut
                    ELSE q.layer[i] = p.layer[i]
               /\ q.base = IF Open(p, 1, k) THEN BaseStatus(p.base, c) ELSE p.base
<1> DEFINE q == WriteHeader(p, k, c)
           L == [i \in 1..n |-> IF i <= k /\ Open(p, i, k)
                                THEN [p.layer[i] EXCEPT !.wrote = TRUE, !.status = c]
                                ELSE p.layer[i]]
           B == IF Open(p, 1, k) THEN BaseStatus(p.base, c) ELSE p.base
<1>1. p.layer \in [1..n -> Wrappers] /\ p.base \in Responses
  BY DEF Paths
<1>2. q = [layer |-> L, base |-> B]
  BY <1>1 DEF WriteHeader, Open
<1>3. B \in Responses
  BY <1>1, BaseStatusFacts
<1>4. ASSUME NEW i \in 1..n
      PROVE  /\ L[i] \in Wrappers
             /\ IF i <= k /\ Open(p, i, k)
                THEN /\ L[i].wrote /\ L[i].status = c
                     /\ L[i].bytes = p.layer[i].bytes
                     /\ L[i].timedOut = p.layer[i].timedOut
                ELSE L[i] = p.layer[i]
  <2>1. p.layer[i] \in Wrappers
    BY <1>1
  <2> QED BY <2>1 DEF Wrappers
<1> HIDE DEF L, B, q
<1>5. L \in [1..n -> Wrappers]
  BY <1>4 DEF L
<1>6. q.layer = L /\ q.base = B /\ q \in Paths(n)
  BY <1>2, <1>3, <1>5 DEF Paths
<1> QED BY <1>4, <1>6 DEF q, B

\* What Write does to each layer and to the response.
LEMMA WriteFacts ==
    ASSUME NEW n \in Nat, NEW p \in Paths(n), NEW k \in 0..n,
           NEW who \in {"handler", "recovery", "timeout"}
    PROVE  LET q == Write(p, k, who)
               sent == IF Passes(p, 1, k) /\ ~p.base.hijacked THEN 1 ELSE 0
           IN  /\ q \in Paths(n)
               /\ \A i \in 1..n :
                    IF i <= k /\ Passes(p, i, k)
                    THEN /\ q.layer[i].wrote
                         /\ q.layer[i].bytes = p.layer[i].bytes + sent
                         /\ q.layer[i].timedOut = p.layer[i].timedOut
                         /\ q.layer[i].status =
                              IF p.layer[i].wrote THEN p.layer[i].status ELSE 200
                    ELSE q.layer[i] = p.layer[i]
               /\ q.base = IF Passes(p, 1, k) THEN BaseWrite(p.base, who) ELSE p.base
<1> DEFINE q == Write(p, k, who)
           sent == IF Passes(p, 1, k) /\ ~p.base.hijacked THEN 1 ELSE 0
           L == [i \in 1..n |->
                   IF i <= k /\ Passes(p, i, k)
                   THEN [p.layer[i] EXCEPT !.wrote = TRUE, !.bytes = @ + sent,
                                           !.status = IF p.layer[i].wrote THEN @ ELSE 200]
                   ELSE p.layer[i]]
           B == IF Passes(p, 1, k) THEN BaseWrite(p.base, who) ELSE p.base
<1>1. p.layer \in [1..n -> Wrappers] /\ p.base \in Responses
  BY DEF Paths
<1>2. q = [layer |-> L, base |-> B]
  BY <1>1 DEF Write, Passes
<1>3. B \in Responses
  BY <1>1, BaseWriteFacts
<1>4. sent \in Nat
  OBVIOUS
<1> HIDE DEF sent
<1>5. ASSUME NEW i \in 1..n
      PROVE  /\ L[i] \in Wrappers
             /\ IF i <= k /\ Passes(p, i, k)
                THEN /\ L[i].wrote
                     /\ L[i].bytes = p.layer[i].bytes + sent
                     /\ L[i].timedOut = p.layer[i].timedOut
                     /\ L[i].status = IF p.layer[i].wrote THEN p.layer[i].status ELSE 200
                ELSE L[i] = p.layer[i]
  <2>1. p.layer[i] \in Wrappers /\ 200 \in Statuses
    BY <1>1, StatusesAreFinal
  <2>2. CASE i <= k /\ Passes(p, i, k)
    <3> DEFINE st == IF p.layer[i].wrote THEN p.layer[i].status ELSE 200
               by == p.layer[i].bytes + sent
    <3>1. L[i] = [p.layer[i] EXCEPT !.wrote = TRUE, !.bytes = by, !.status = st]
      BY <2>2
    <3>2. st \in Statuses \cup {0} /\ by \in Nat
      BY <2>1, <1>4 DEF Wrappers
    <3> HIDE DEF st, by, L
    <3>3. /\ L[i] \in Wrappers
          /\ L[i].wrote /\ L[i].bytes = by /\ L[i].status = st
          /\ L[i].timedOut = p.layer[i].timedOut
      BY <3>1, <3>2, <2>1 DEF Wrappers
    <3> QED BY <3>3, <2>2 DEF st, by
  <2>3. CASE ~(i <= k /\ Passes(p, i, k))
    BY <2>1, <2>3
  <2> QED BY <2>2, <2>3
<1> HIDE DEF L, B, q
<1>6. L \in [1..n -> Wrappers]
  BY <1>5 DEF L
<1>7. q.layer = L /\ q.base = B /\ q \in Paths(n)
  BY <1>2, <1>3, <1>6 DEF Paths
<1> QED BY <1>5, <1>7 DEF q, B, sent

\* What the invariant needs to know of an operation of `who' on the writer of
\* layer k that turns the path p of n layers into q.
Advances(n, p, q, k, who) ==
    /\ q \in Paths(n)
    /\ \A i \in 1..n :
         /\ q.layer[i].timedOut = p.layer[i].timedOut
         /\ p.layer[i].wrote => q.layer[i].wrote
         /\ p.layer[i].status # 0 => q.layer[i].status # 0
         /\ i > k \/ ~q.layer[i].wrote => q.layer[i] = p.layer[i]
    /\ q.base.hijacked = p.base.hijacked /\ q.base.bypassed = p.base.bypassed
    /\ p.base.early => q.base.early
    /\ p.base.status # 0 => q.base.status = p.base.status
    /\ ~Passes(p, 1, k) => q.base = p.base
    /\ \/ q.base.authors = p.base.authors
       \/ /\ q.base.authors = p.base.authors \cup {who}
          /\ q.base.status # 0
          /\ \A i \in 1..k : q.layer[i].wrote
    /\ \A m \in 0..k :
         InStep(p, m) /\ (p.base.hijacked => p.base.bypassed) => InStep(q, m)
    /\ \A m \in k..n : Quiet(p, m) /\ ~p.base.hijacked => Quiet(q, m)

LEMMA WriteHeaderAdvances ==
    ASSUME NEW n \in Nat, NEW p \in Paths(n), NEW k \in 0..n, NEW c \in Statuses, NEW who
    PROVE  Advances(n, p, WriteHeader(p, k, c), k, who)
<1> DEFINE q == WriteHeader(p, k, c)
<1>1. /\ q \in Paths(n)
      /\ \A i \in 1..n :
           IF i <= k /\ Open(p, i, k)
           THEN /\ q.layer[i].wrote /\ q.layer[i].status = c
                /\ q.layer[i].bytes = p.layer[i].bytes
                /\ q.layer[i].timedOut = p.layer[i].timedOut
           ELSE q.layer[i] = p.layer[i]
      /\ q.base = IF Open(p, 1, k) THEN BaseStatus(p.base, c) ELSE p.base
  BY WriteHeaderFacts
<1>2. p.layer \in [1..n -> Wrappers] /\ p.base \in Responses
  BY DEF Paths
<1>3. LET d == BaseStatus(p.base, c)
      IN  /\ d \in Responses
          /\ d.bytes = p.base.bytes /\ d.authors = p.base.authors
          /\ d.hijacked = p.base.hijacked /\ d.bypassed = p.base.bypassed
          /\ p.base.early => d.early
          /\ p.base.status # 0 \/ p.base.hijacked => d = p.base
          /\ p.base.status = 0 /\ ~p.base.hijacked =>
               \/ c \in Informational /\ d.early /\ d.status = 0
               \/ c \notin Informational /\ d.early = p.base.early /\ d.status = c
  BY <1>2, BaseStatusFacts
<1>4. c # 0
  BY StatusesAreFinal
<1> HIDE DEF q
<1>5. /\ q.base.hijacked = p.base.hijacked /\ q.base.bypassed = p.base.bypassed
      /\ p.base.early => q.base.early
      /\ p.base.status # 0 => q.base.status = p.base.status
      /\ q.base.authors = p.base.authors /\ q.base.bytes = p.base.bytes
      /\ ~Open(p, 1, k) => q.base = p.base
  BY <1>1, <1>3
<1>6. ~Passes(p, 1, k) => ~Open(p, 1, k)
  BY DEF Passes, Open
<1>7. ASSUME NEW i \in 1..n
      PROVE  /\ q.layer[i].timedOut = p.layer[i].timedOut
             /\ p.layer[i].wrote => q.layer[i].wrote
             /\ p.layer[i].status # 0 => q.layer[i].status # 0
             /\ i > k \/ ~q.layer[i].wrote => q.layer[i] = p.layer[i]
  BY <1>1, <1>4
<1>8. ASSUME NEW m \in 0..k, InStep(p, m), p.base.hijacked => p.base.bypassed,
             NEW i \in 1..m
      PROVE  /\ ~q.layer[i].timedOut
             /\ q.layer[i].bytes = q.base.bytes
             /\ \/ q.base.bypassed \/ q.base.early
                \/ /\ q.layer[i].wrote <=> q.base.status # 0
                   /\ q.layer[i].wrote => q.layer[i].status = q.base.status
  <2>1. i \in 1..n /\ i <= k
    OBVIOUS
  <2>2. ~q.layer[i].timedOut /\ q.layer[i].bytes = q.base.bytes
    BY <1>1, <1>5, <1>8, <2>1 DEF InStep
  <2>3. ASSUME ~q.base.bypassed, ~q.base.early
        PROVE  /\ q.layer[i].wrote <=> q.base.status # 0
               /\ q.layer[i].wrote => q.layer[i].status = q.base.status
    <3>1. ~p.base.bypassed /\ ~p.base.early
      BY <1>5, <2>3
    <3>2. \A j \in 1..m : /\ ~p.layer[j].timedOut
                          /\ p.layer[j].wrote <=> p.base.status # 0
                          /\ p.layer[j].wrote => p.layer[j].status = p.base.status
      BY <1>8, <3>1 DEF InStep
    <3>3. Open(p, i, k) <=> Open(p, 1, k)
      <4>1. Open(p, 1, k) => Open(p, i, k)
        BY DEF Open
      <4>2. ASSUME Open(p, i, k), NEW j \in 1..k
            PROVE  ~p.layer[j].wrote /\ ~p.layer[j].timedOut
        <5>1. CASE j >= i
          BY <4>2, <5>1 DEF Open
        <5>2. CASE j < i
          BY <3>2, <4>2, <5>2, <2>1 DEF Open
        <5> QED BY <5>1, <5>2
      <4> QED BY <4>1, <4>2 DEF Open
    <3>4. CASE ~Open(p, i, k)
      BY <1>1, <2>1, <3>2, <3>3, <3>4
    <3>5. CASE Open(p, i, k)
      <4>1. p.base.status = 0
        BY <3>2, <3>5, <2>1 DEF Open
      <4>2. q.layer[i].wrote /\ q.layer[i].status = c
        BY <1>1, <2>1, <3>5
      <4>3. q.base = BaseStatus(p.base, c)
        BY <1>1, <3>3, <3>5
      <4>4. ~p.base.hijacked
        BY <1>8, <3>1
      <4> QED
        BY <1>3, <1>4, <2>3, <4>1, <4>2, <4>3, <4>4
    <3> QED BY <3>4, <3>5
  <2> QED BY <2>2, <2>3
<1>9. ASSUME NEW m \in k..n, Quiet(p, m), ~p.base.hijacked,
             ~q.base.early, q.base.status = 0, NEW i \in 1..m, q.layer[i].wrote
      PROVE  \E j \in 1..(i - 1) : q.layer[j].timedOut
  <2>1. ~Open(p, 1, k) /\ ~p.base.early /\ p.base.status = 0
    BY <1>1, <1>3, <1>4, <1>5, <1>9
  <2>2. \A h \in 1..m : p.layer[h].wrote => \E j \in 1..(h - 1) : p.layer[j].timedOut
    BY <1>9, <2>1 DEF Quiet
  <2>3. CASE p.layer[i].wrote
    <3>1. PICK j \in 1..(i - 1) : p.layer[j].timedOut
      BY <2>2, <2>3
    <3> QED BY <3>1, <1>7
  <2>4. CASE ~p.layer[i].wrote
    <3>1. i <= k /\ Open(p, i, k)
      BY <1>1, <1>9, <2>4
    <3>2. PICK h \in 1..k : p.layer[h].wrote \/ p.layer[h].timedOut
      BY <2>1 DEF Open
    <3>3. h < i
      BY <3>1, <3>2 DEF Open
    <3>4. PICK j \in 1..h : p.layer[j].timedOut
      BY <2>2, <3>2, <3>1
    <3> QED BY <3>3, <3>4, <1>7, <3>1
  <2> QED BY <2>3, <2>4
<1>10. \A m \in 0..k :
         InStep(p, m) /\ (p.base.hijacked => p.base.bypassed) => InStep(q, m)
  BY <1>8 DEF InStep
<1>11. \A m \in k..n : Quiet(p, m) /\ ~p.base.hijacked => Quiet(q, m)
  BY <1>9 DEF Quiet
<1> QED
  BY <1>1, <1>5, <1>6, <1>7, <1>10, <1>11 DEF Advances, q

LEMMA WriteAdvances ==
    ASSUME NEW n \in Nat, NEW p \in Paths(n), NEW k \in 0..n,
           NEW who \in {"handler", "recovery", "timeout"}
    PROVE  Advances(n, p, Write(p, k, who), k, who)
<1> DEFINE q == Write(p, k, who)
           sent == IF Passes(p, 1, k) /\ ~p.base.hijacked THEN 1 ELSE 0
<1>1. /\ q \in Paths(n)
      /\ \A i \in 1..n :
           IF i <= k /\ Passes(p, i, k)
           THEN /\ q.layer[i].wrote
                /\ q.layer[i].bytes = p.layer[i].bytes + sent
                /\ q.layer[i].timedOut = p.layer[i].timedOut
                /\ q.layer[i].status =
                     IF p.layer[i].wrote THEN p.layer[i].status ELSE 200
           ELSE q.layer[i] = p.layer[i]
      /\ q.base = IF Passes(p, 1, k) THEN BaseWrite(p.base, who) ELSE p.base
  BY WriteFacts
<1>2. p.layer \in [1..n -> Wrappers] /\ p.base \in Responses
  BY DEF Paths
<1>3. ASSUME Passes(p, 1, k)
      PROVE  /\ q.base.hijacked = p.base.hijacked /\ q.base.bypassed = p.base.bypassed
             /\ q.base.early = p.base.early
             /\ p.base.hijacked => q.base = p.base
             /\ ~p.base.hijacked => /\ q.base.bytes = p.base.bytes + 1
                                    /\ q.base.authors = p.base.authors \cup {who}
                                    /\ q.base.status = Final(p.base)
  <2>1. q.base = BaseWrite(p.base, who)
    BY <1>1, <1>3
  <2> HIDE DEF q
  <2> QED BY <2>1, <1>2, BaseWriteFacts
<1> HIDE DEF q
<1>4. /\ q.base.hijacked = p.base.hijacked /\ q.base.bypassed = p.base.bypassed
      /\ q.base.early = p.base.early
      /\ p.base.status # 0 => q.base.status = p.base.status
      /\ ~Passes(p, 1, k) => q.base = p.base
  BY <1>1, <1>3 DEF Final
<1>5. q.base.bytes = p.base.bytes + sent
  BY <1>1, <1>2, <1>3 DEF Responses
<1>6. ASSUME NEW i \in 1..n
      PROVE  /\ q.layer[i].timedOut = p.layer[i].timedOut
             /\ p.layer[i].wrote => q.layer[i].wrote
             /\ p.layer[i].status # 0 => q.layer[i].status # 0
             /\ i > k \/ ~q.layer[i].wrote => q.layer[i] = p.layer[i]
  BY <1>1
<1>7. \A i \in 1..k : Passes(p, 1, k) => Passes(p, i, k)
  BY DEF Passes
<1>8. \/ q.base.authors = p.base.authors
      \/ /\ q.base.authors = p.base.authors \cup {who}
         /\ q.base.status # 0
         /\ \A i \in 1..k : q.layer[i].wrote
  <2>1. CASE Passes(p, 1, k) /\ ~p.base.hijacked
    <3>1. \A i \in 1..k : q.layer[i].wrote
      BY <1>1, <1>7, <2>1
    <3> QED BY <3>1, <1>3, <2>1 DEF Final
  <2>2. CASE ~(Passes(p, 1, k) /\ ~p.base.hijacked)
    BY <1>3, <1>4, <2>2
  <2> QED BY <2>1, <2>2
<1>9. ASSUME NEW m \in 0..k, InStep(p, m), p.base.hijacked => p.base.bypassed,
             NEW i \in 1..m
      PROVE  /\ ~q.layer[i].timedOut
             /\ q.layer[i].bytes = q.base.bytes
             /\ \/ q.base.bypassed \/ q.base.early
                \/ /\ q.layer[i].wrote <=> q.base.status # 0
                   /\ q.layer[i].wrote => q.layer[i].status = q.base.status
  <2>1. i \in 1..n /\ i <= k
    OBVIOUS
  <2>2. \A j \in 1..m : ~p.layer[j].timedOut
    BY <1>9 DEF InStep
  <2>3. Passes(p, i, k) <=> Passes(p, 1, k)
    <3>1. ASSUME Passes(p, i, k), NEW j \in 1..k
          PROVE  ~p.layer[j].timedOut
      <4>1. CASE j >= i
        BY <3>1, <4>1 DEF Passes
      <4>2. CASE j < i
        BY <2>2, <4>2
      <4> QED BY <4>1, <4>2
    <3> QED BY <3>1, <1>7, <2>1 DEF Passes
  <2>4. CASE ~Passes(p, i, k)
    <3>1. q.layer[i] = p.layer[i] /\ q.base = p.base
      BY <1>1, <1>4, <2>1, <2>3, <2>4
    <3> QED BY <3>1, <1>9 DEF InStep
  <2>5. CASE Passes(p, i, k)
    <3>1. /\ q.layer[i].wrote
          /\ q.layer[i].bytes = p.layer[i].bytes + sent
          /\ q.layer[i].timedOut = p.layer[i].timedOut
          /\ q.layer[i].status = IF p.layer[i].wrote THEN p.layer[i].status ELSE 200
      BY <1>1, <2>1, <2>5
    <3>2. ~q.layer[i].timedOut /\ q.layer[i].bytes = q.base.bytes
      BY <3>1, <2>2, <1>5, <1>9 DEF InStep
    <3>3. ASSUME ~q.base.bypassed, ~q.base.early
          PROVE  /\ q.layer[i].wrote <=> q.base.status # 0
                 /\ q.layer[i].wrote => q.layer[i].status = q.base.status
      <4>1. ~p.base.bypassed /\ ~p.base.early /\ ~p.base.hijacked
        BY <1>4, <1>9, <3>3
      <4>2. /\ p.layer[i].wrote <=> p.base.status # 0
            /\ p.layer[i].wrote => p.layer[i].status = p.base.status
        BY <1>9, <4>1 DEF InStep
      <4>3. q.base.status = Final(p.base)
        BY <1>3, <2>3, <2>5, <4>1
      <4> QED BY <3>1, <4>2, <4>3 DEF Final
    <3> QED BY <3>2, <3>3
  <2> QED BY <2>4, <2>5
<1>10. ASSUME NEW m \in k..n, Quiet(p, m), ~p.base.hijacked,
              ~q.base.early, q.base.status = 0, NEW i \in 1..m, q.layer[i].wrote
       PROVE  \E j \in 1..(i - 1) : q.layer[j].timedOut
  <2>1. ~Passes(p, 1, k) /\ ~p.base.early /\ p.base.status = 0
    BY <1>3, <1>4, <1>10 DEF Final
  <2>2. CASE p.layer[i].wrote
    <3>1. PICK j \in 1..(i - 1) : p.layer[j].timedOut
      BY <1>10, <2>1, <2>2 DEF Quiet
    <3> QED BY <3>1, <1>6
  <2>3. CASE ~p.layer[i].wrote
    <3>1. i <= k /\ Passes(p, i, k)
      BY <1>1, <1>10, <2>3
    <3>2. PICK h \in 1..k : p.layer[h].timedOut
      BY <2>1 DEF Passes
    <3>3. h < i
      BY <3>1, <3>2 DEF Passes
    <3> QED BY <3>2, <3>3, <1>6
  <2> QED BY <2>2, <2>3
<1>11. \A m \in 0..k :
         InStep(p, m) /\ (p.base.hijacked => p.base.bypassed) => InStep(q, m)
  BY <1>9 DEF InStep
<1>12. \A m \in k..n : Quiet(p, m) /\ ~p.base.hijacked => Quiet(q, m)
  BY <1>10 DEF Quiet
<1> QED
  BY <1>1, <1>4, <1>6, <1>8, <1>11, <1>12 DEF Advances, q

\* Two operations of one author on the same writer advance as one does.
LEMMA AdvancesTwice ==
    ASSUME NEW n \in Nat, NEW p \in Paths(n), NEW k \in 0..n, NEW who, NEW q, NEW r,
           Advances(n, p, q, k, who), Advances(n, q, r, k, who)
    PROVE  Advances(n, p, r, k, who)
<1>1. /\ r \in Paths(n)
      /\ \A i \in 1..n :
           /\ r.layer[i].timedOut = p.layer[i].timedOut
           /\ p.layer[i].wrote => r.layer[i].wrote
           /\ p.layer[i].status # 0 => r.layer[i].status # 0
           /\ i > k \/ ~r.layer[i].wrote => r.layer[i] = p.layer[i]
      /\ r.base.hijacked = p.base.hijacked /\ r.base.bypassed = p.base.bypassed
      /\ p.base.early => r.base.early
      /\ p.base.status # 0 => r.base.status = p.base.status
  BY DEF Advances
<1>2. ~Passes(p, 1, k) => r.base = p.base
  <2>1. Passes(q, 1, k) <=> Passes(p, 1, k)
    BY DEF Advances, Passes
  <2> QED BY <2>1 DEF Advances
<1>3. \/ r.base.authors = p.base.authors
      \/ /\ r.base.authors = p.base.authors \cup {who}
         /\ r.base.status # 0
         /\ \A i \in 1..k : r.layer[i].wrote
  BY DEF Advances
<1>4. \A m \in 0..k :
         InStep(p, m) /\ (p.base.hijacked => p.base.bypassed) => InStep(r, m)
  BY DEF Advances
<1>5. \A m \in k..n : Quiet(p, m) /\ ~p.base.hijacked => Quiet(r, m)
  BY DEF Advances
<1> QED
  BY <1>1, <1>2, <1>3, <1>4, <1>5 DEF Advances

\* An error response advances, and where nothing stands in its way and nothing
\* has been sent, it is the response.
LEMMA RespondAdvances ==
    ASSUME NEW n \in Nat, NEW p \in Paths(n), NEW k \in 0..n, NEW c \in {500, 503},
           NEW who \in {"handler", "recovery", "timeout"},
           NEW r, r = Respond(p, k, c, who)
    PROVE  /\ Advances(n, p, r, k, who)
           /\ r.base.early = p.base.early
           /\ Open(p, 1, k) /\ p.base.status = 0 /\ ~p.base.hijacked =>
                /\ r.base.status = c
                /\ r.base.authors = p.base.authors \cup {who}
<1> DEFINE q == WriteHeader(p, k, c)
<1>1. c \in Statuses /\ c # 0 /\ c \notin Informational
  BY StatusesAreFinal
<1>2. Advances(n, p, q, k, who)
  BY <1>1, WriteHeaderAdvances
<1>3. q \in Paths(n) /\ q.base = IF Open(p, 1, k) THEN BaseStatus(p.base, c) ELSE p.base
  BY <1>1, WriteHeaderFacts
<1>4. r = Write(q, k, who)
  BY DEF Respond
<1> HIDE DEF q
<1>5. Advances(n, q, r, k, who)
  BY <1>3, <1>4, WriteAdvances
<1>6. Advances(n, p, r, k, who)
  BY <1>2, <1>5, AdvancesTwice
<1>7. r.base = IF Passes(q, 1, k) THEN BaseWrite(q.base, who) ELSE q.base
  <2>1. Write(q, k, who).base = IF Passes(q, 1, k) THEN BaseWrite(q.base, who) ELSE q.base
    BY DEF Write, Passes
  <2> QED BY <1>4, <2>1
<1>8. p.base \in Responses /\ q.base \in Responses
  BY <1>3 DEF Paths
<1>9. q.base.early = p.base.early
  BY <1>1, <1>3, <1>8, BaseStatusFacts
<1>10. r.base.early = p.base.early
  BY <1>7, <1>8, <1>9, BaseWriteFacts
<1>11. ASSUME Open(p, 1, k), p.base.status = 0, ~p.base.hijacked
       PROVE  r.base.status = c /\ r.base.authors = p.base.authors \cup {who}
  <2>1. Passes(q, 1, k)
    BY <1>2, <1>11 DEF Advances, Passes, Open
  <2>2. /\ q.base.status = c
        /\ q.base.authors = p.base.authors /\ ~q.base.hijacked
    BY <1>1, <1>3, <1>8, <1>11, BaseStatusFacts
  <2> QED
    BY <1>1, <1>7, <1>8, <2>1, <2>2, BaseWriteFacts DEF Final
<1> QED BY <1>6, <1>10, <1>11

\* An error status advances, and where nothing stands in its way and nothing has
\* been sent, it is the status of the response.
LEMMA ErrorStatusAdvances ==
    ASSUME NEW n \in Nat, NEW p \in Paths(n), NEW k \in 0..n, NEW who,
           NEW q, q = WriteHeader(p, k, 500)
    PROVE  /\ Advances(n, p, q, k, who)
           /\ q.base.early = p.base.early /\ q.base.authors = p.base.authors
           /\ Open(p, 1, k) => \A i \in 1..k : q.layer[i].wrote
           /\ Open(p, 1, k) /\ p.base.status = 0 /\ ~p.base.hijacked => q.base.status = 500
<1>1. 500 \in Statuses /\ 500 \notin Informational
  BY StatusesAreFinal
<1>2. Advances(n, p, q, k, who)
  BY <1>1, WriteHeaderAdvances
<1>3. /\ \A i \in 1..n : i <= k /\ Open(p, i, k) => q.layer[i].wrote
      /\ q.base = IF Open(p, 1, k) THEN BaseStatus(p.base, 500) ELSE p.base
  BY <1>1, WriteHeaderFacts
<1>4. p.base \in Responses
  BY DEF Paths
<1>5. /\ q.base.early = p.base.early /\ q.base.authors = p.base.authors
      /\ Open(p, 1, k) /\ p.base.status = 0 /\ ~p.base.hijacked => q.base.status = 500
  BY <1>1, <1>3, <1>4, BaseStatusFacts
<1>6. ASSUME Open(p, 1, k), NEW i \in 1..k
      PROVE  q.layer[i].wrote
  <2>1. i \in 1..n /\ i <= k /\ Open(p, i, k)
    BY <1>6 DEF Open
  <2> QED BY <1>3, <2>1
<1> QED BY <1>2, <1>5, <1>6

\* So does its body; where it passes, it is of its author.
LEMMA ErrorBodyAdvances ==
    ASSUME NEW n \in Nat, NEW p \in Paths(n), NEW k \in 0..n,
           NEW who \in {"handler", "recovery", "timeout"},
           NEW q, q = Write(p, k, who)
    PROVE  /\ Advances(n, p, q, k, who)
           /\ q.base.early = p.base.early
           /\ Passes(p, 1, k) /\ ~p.base.hijacked =>
                /\ q.base.status = Final(p.base)
                /\ q.base.authors = p.base.authors \cup {who}
<1>1. Advances(n, p, q, k, who)
  BY WriteAdvances
<1>2. q.base = IF Passes(p, 1, k) THEN BaseWrite(p.base, who) ELSE p.base
  BY WriteFacts
<1>3. p.base \in Responses
  BY DEF Paths
<1> QED BY <1>1, <1>2, <1>3, BaseWriteFacts

\* Flush and Hijack leave the wrappers as they are, and go past them only where
\* all of them are mwlog's.
LEMMA BypassFacts ==
    ASSUME NEW n \in Nat, NEW p \in Paths(n), NEW k,
           NEW q, q = Flush(p, k) \/ q = Hijack(p, k)
    PROVE  \/ q = p
           \/ /\ Transparent(k) /\ q \in Paths(n) /\ q.layer = p.layer
              /\ q.base.bypassed
              /\ q.base.bytes = p.base.bytes /\ q.base.authors = p.base.authors
              /\ q.base.early = p.base.early
              /\ q.base.status = 0 => p.base.status = 0
<1>1. p.base \in Responses /\ p = [layer |-> p.layer, base |-> p.base]
  BY DEF Paths
<1>2. CASE q = Flush(p, k)
  <2>1. CASE Transparent(k) /\ p.base.status = 0 /\ ~p.base.hijacked
    <3> DEFINE b == [p.base EXCEPT !.status = 200, !.bypassed = TRUE]
    <3>1. q = [p EXCEPT !.base = b]
      BY <1>1, <1>2, <2>1 DEF Flush
    <3>2. /\ b \in Responses /\ b.bypassed /\ b.status = 200
          /\ b.bytes = p.base.bytes /\ b.authors = p.base.authors
          /\ b.early = p.base.early
      <4>1. 200 \in Statuses \cup {0}
        BY StatusesAreFinal
      <4>2. b \in Responses
        BY <1>1, <4>1 DEF Responses
      <4>3. b.bypassed /\ b.status = 200
        BY <1>1 DEF Responses
      <4> QED BY <1>1, <4>2, <4>3 DEF Responses
    <3> HIDE DEF b
    <3> QED BY <3>1, <3>2, <2>1 DEF Paths
  <2> QED BY <1>2, <2>1 DEF Flush
<1>3. CASE q = Hijack(p, k)
  <2>1. CASE Transparent(k)
    <3> DEFINE b == [p.base EXCEPT !.hijacked = TRUE, !.bypassed = TRUE]
    <3>1. q = [p EXCEPT !.base = b]
      BY <1>1, <1>3, <2>1 DEF Hijack
    <3>2. /\ b \in Responses /\ b.bypassed /\ b.status = p.base.status
          /\ b.bytes = p.base.bytes /\ b.authors = p.base.authors
          /\ b.early = p.base.early
      BY <1>1 DEF Responses
    <3> HIDE DEF b
    <3> QED BY <3>1, <3>2, <2>1 DEF Paths
  <2> QED BY <1>3, <2>1 DEF Hijack
<1> QED BY <1>2, <1>3

-----------------------------------------------------------------------------
\* The layers of a request.

LEMMA Setting ==
    ASSUME TypeOK
    PROVE  /\ order \in Orders /\ Len(order) \in Nat
           /\ Layers = 1..Len(order)
           /\ Boundary \in 0..Len(order)
           /\ Boundary > 0 => order[Boundary] = "timeout"
           /\ \A i \in Layers : order[i] = "timeout" => i = Boundary
           /\ path \in Paths(Len(order))
           /\ at \in [Goroutines -> 0..Len(order)]
           /\ "handler" \in Goroutines /\ "server" \in Goroutines
<1>1. order \in Orders /\ order \in Seq({"log", "recovery", "timeout"})
  BY ResponsePathAssumption DEF TypeOK
<1>2. Len(order) \in Nat /\ Layers = 1..Len(order)
  BY <1>1 DEF Layers
<1>3. \A i, j \in Layers : order[i] = "timeout" /\ order[j] = "timeout" => i = j
  BY <1>1, <1>2, ResponsePathAssumption
<1>4. /\ Boundary \in 0..Len(order)
      /\ Boundary > 0 => order[Boundary] = "timeout"
      /\ \A i \in Layers : order[i] = "timeout" => i = Boundary
  <2>1. CASE \E i \in Layers : order[i] = "timeout"
    <3>1. Boundary \in Layers /\ order[Boundary] = "timeout"
      BY <2>1 DEF Boundary
    <3> QED BY <3>1, <1>2, <1>3
  <2>2. CASE ~\E i \in Layers : order[i] = "timeout"
    BY <2>2, <1>2 DEF Boundary
  <2> QED BY <2>1, <2>2
<1>5. path \in Paths(Len(order))
  BY <1>2 DEF TypeOK, Paths, Wrappers, Responses
<1> QED BY <1>1, <1>2, <1>4, <1>5 DEF TypeOK, Goroutines

\* They stay what they are.
LEMMA Kept ==
    ASSUME order' = order
    PROVE  /\ Boundary' = Boundary /\ Outer' = Outer
           /\ Layers' = Layers /\ Guarded' = Guarded
BY DEF Boundary, Outer, Layers, Guarded

\* A request starts with wrappers that remember nothing.
LEMMA InitIInv == Init => IInv
<1> SUFFICES ASSUME Init
             PROVE  IInv
  OBVIOUS
<1>1. order \in Orders /\ order \in Seq({"log", "recovery", "timeout"})
  BY ResponsePathAssumption DEF Init
<1>2. Len(order) \in Nat /\ Layers = 1..Len(order)
  BY <1>1 DEF Layers
<1>3. Boundary \in 0..Len(order)
  <2>1. CASE \E i \in Layers : order[i] = "timeout"
    BY <2>1, <1>2 DEF Boundary
  <2> QED BY <2>1, <1>2 DEF Boundary
<1>4. /\ at = [handler |-> Len(order), server |-> Boundary]
      /\ mode = [handler |-> "run", server |-> "select"]
      /\ path.layer = [i \in Layers |-> FreshLayer(order[i])]
      /\ path.base = [status |-> 0, bytes |-> 0, authors |-> {},
                      early |-> FALSE, hijacked |-> FALSE, bypassed |-> FALSE]
      /\ entry = [i \in Layers |-> NoEntry] /\ clean = FALSE /\ proc = "up"
  BY DEF Init
<1>5. \A i \in Layers : /\ path.layer[i] \in Wrappers
                        /\ ~path.layer[i].wrote /\ ~path.layer[i].timedOut
                        /\ path.layer[i].bytes = 0
                        /\ order[i] = "log" => path.layer[i].status = 200
  BY <1>4, StatusesAreFinal DEF FreshLayer, Wrappers
<1>6. path.base \in Responses
  BY <1>4 DEF Responses
<1>7. path.layer \in [Layers -> Wrappers]
  BY <1>4, <1>5
<1>8. TypeOK
  <2>1. path \in [layer : [Layers -> Wrappers], base : Responses]
    BY <1>6, <1>7 DEF Init
  <2>2. at \in [Goroutines -> 0..Len(order)]
    BY <1>2, <1>3, <1>4 DEF Goroutines
  <2>3. mode \in [Goroutines -> {"run", "select", "answer", "return", "panic", "recovering",
                                 "done", "aborted"}]
    BY <1>4 DEF Goroutines
  <2>4. entry \in [Layers -> [status : Statuses \cup {0}, bytes : Nat]]
    BY <1>4 DEF NoEntry
  <2>5. \A i \in Layers : order[i] = "log" => path.layer[i].status # 0
    BY <1>5
  <2>6. clean \in BOOLEAN /\ proc \in {"up", "crashed"}
    BY <1>4
  <2> QED
    BY <1>1, <2>1, <2>2, <2>3, <2>4, <2>5, <2>6 DEF TypeOK, Wrappers, Responses
<1>9. Places
  <2>1. ~TimedOut
    BY <1>2, <1>3, <1>5 DEF TimedOut
  <2> QED BY <2>1, <1>2, <1>3, <1>4, <1>5 DEF Places, Ended, Stopped
<1>10. OneAuthor
  BY <1>4 DEF OneAuthor
<1>11. Mirrored
  <2>1. Edge \in 0..Len(order)
    BY <1>2, <1>3, <1>4 DEF Edge, Ended
  <2> QED BY <2>1, <1>2, <1>4, <1>5 DEF Mirrored, InStep
<1>12. Recovering
  BY <1>2, <1>4, <1>5 DEF Recovering, Quiet, Ended
<1> QED BY <1>8, <1>9, <1>10, <1>11, <1>12 DEF IInv

-----------------------------------------------------------------------------
\* The steps.

\* The handler writes a status or a body.
LEMMA HandlerSends ==
    ASSUME IInv, mode["handler"] = "run",
           Advances(Len(order), path, path', Len(order), "handler"),
           UNCHANGED <<order, at, mode, entry, clean, proc>>
    PROVE  IInv'
<1> DEFINE N == Len(order)
<1>1. TypeOK /\ Places /\ OneAuthor /\ Mirrored /\ Recovering
  BY DEF IInv
<1>2. /\ N \in Nat /\ Layers = 1..N /\ Boundary \in 0..N /\ at["handler"] = N
      /\ at["server"] \in 0..N
      /\ path' \in Paths(N)
  BY <1>1, Setting DEF Places, Advances
<1>3. /\ Boundary' = Boundary /\ Outer' = Outer /\ Layers' = Layers /\ Guarded' = Guarded
  BY Kept
<1>4. \A i \in Layers :
        /\ path'.layer[i].timedOut = path.layer[i].timedOut
        /\ path.layer[i].wrote => path'.layer[i].wrote
        /\ path.layer[i].status # 0 => path'.layer[i].status # 0
        /\ ~path'.layer[i].wrote => path'.layer[i] = path.layer[i]
  BY <1>2 DEF Advances
<1>5. (TimedOut' <=> TimedOut) /\ (Ended' <=> Ended) /\ Edge' = Edge
  BY <1>2, <1>3, <1>4 DEF TimedOut, Ended, Edge
<1>6. TimedOut => path'.base = path.base
  BY <1>2 DEF TimedOut, Advances, Passes
<1>7. TypeOK'
  <2>1. path' \in [layer : [Layers -> Wrappers], base : Responses]
    BY <1>2 DEF Paths
  <2>2. \A i \in Layers : order[i] = "log" => path'.layer[i].status # 0
    BY <1>1, <1>4 DEF TypeOK
  <2> QED BY <1>1, <1>3, <2>1, <2>2 DEF TypeOK, Wrappers, Responses
<1>8. Places'
  BY <1>1, <1>3, <1>4, <1>5 DEF Places, Stopped
<1>9. OneAuthor'
  <2>1. CASE path'.base.authors = path.base.authors
    <3>1. path'.base.status = 0 => path.base.status = 0
      BY DEF Advances
    <3> QED BY <1>1, <1>2, <1>3, <1>4, <1>5, <2>1, <3>1 DEF OneAuthor
  <2>2. CASE path'.base.authors # path.base.authors
    <3>1. /\ path'.base.authors = path.base.authors \cup {"handler"}
          /\ path'.base.status # 0
          /\ \A i \in Layers : path'.layer[i].wrote
      BY <1>2, <2>2 DEF Advances
    <3>2. path.base.authors \subseteq {"handler"}
      <4>1. path.base.authors \subseteq {"handler", "recovery", "timeout"}
        BY <1>1 DEF TypeOK
      <4> QED BY <4>1, <1>1, <1>6, <2>2 DEF OneAuthor
    <3>3. path'.base.authors \subseteq {"handler"}
      BY <3>1, <3>2
    <3> QED BY <1>3, <3>1, <3>3 DEF OneAuthor
  <2> QED BY <2>1, <2>2
<1>10. Mirrored'
  <2>1. Edge \in 0..N
    BY <1>1, <1>2 DEF Edge, Places
  <2>2. InStep(path', Edge)
    BY <1>1, <1>2, <2>1 DEF Mirrored, Advances
  <2>3. /\ path'.base.hijacked = path.base.hijacked
        /\ path'.base.bypassed = path.base.bypassed
    BY DEF Advances
  <2>4. \A i \in Layers : order[i] = "log" /\ ~path'.layer[i].wrote => path'.layer[i].status = 200
    BY <1>1, <1>4 DEF Mirrored
  <2>5. ASSUME NEW i \in Layers, entry[i] # NoEntry, Boundary = 0 \/ i < Boundary
        PROVE  path'.base = path.base
    <3>1. mode[Outer] \in {"return", "done"}
      BY <1>1, <2>5 DEF Mirrored
    <3>2. TimedOut
      BY <1>1, <3>1 DEF Outer, Places, Ended, Stopped
    <3> QED BY <3>2, <1>6
  <2> QED
    BY <1>1, <1>3, <1>5, <2>2, <2>3, <2>4, <2>5 DEF Mirrored
<1>11. Recovering'
  <2> SUFFICES ASSUME Guarded
               PROVE  /\ ~path'.base.bypassed
                      /\ Quiet(path', N)
                      /\ Ended /\ TimedOut /\ ~path'.base.early => path'.base.status # 0
                      /\ ~clean
    BY <1>2, <1>3, <1>5 DEF Recovering
  <2>1. ~path.base.bypassed /\ Quiet(path, N) /\ ~clean
    BY <1>1, <1>2 DEF Recovering
  <2>2. ~path.base.hijacked
    BY <1>1, <2>1 DEF Mirrored
  <2>3. ~path'.base.bypassed /\ Quiet(path', N)
    BY <1>2, <2>1, <2>2 DEF Advances
  <2> QED BY <1>1, <1>6, <2>1, <2>3 DEF Recovering
<1> QED BY <1>7, <1>8, <1>9, <1>10, <1>11 DEF IInv

\* A step that leaves the request as it is.
LEMMA NothingChanges ==
    ASSUME IInv, UNCHANGED <<order, at, mode, path, entry, clean>>,
           proc' \in {"up", "crashed"}
    PROVE  IInv'
<1>1. /\ Boundary' = Boundary /\ Outer' = Outer /\ Layers' = Layers /\ Guarded' = Guarded
  BY Kept
<1>2. /\ (TimedOut' <=> TimedOut) /\ (Ended' <=> Ended) /\ Edge' = Edge
      /\ Stopped' <=> Stopped
  BY <1>1 DEF TimedOut, Ended, Edge, Stopped
<1>3. TypeOK'
  BY <1>1 DEF IInv, TypeOK
<1>4. Places'
  BY <1>1, <1>2 DEF IInv, Places
<1>5. OneAuthor'
  BY <1>1, <1>2 DEF IInv, OneAuthor
<1>6. Mirrored'
  BY <1>1, <1>2 DEF IInv, Mirrored
<1>7. Recovering'
  BY <1>1, <1>2 DEF IInv, Recovering, BareAnswer
<1> QED BY <1>3, <1>4, <1>5, <1>6, <1>7 DEF IInv

\* The handler flushes or hijacks: where that has an effect there is neither a
\* timeout nor a recovery layer.
LEMMA HandlerGoesPast ==
    ASSUME IInv, mode["handler"] = "run",
           path' = Flush(path, Len(order)) \/ path' = Hijack(path, Len(order)),
           UNCHANGED <<order, at, mode, entry, clean, proc>>
    PROVE  IInv'
<1> DEFINE N == Len(order)
<1>1. TypeOK /\ Places /\ OneAuthor /\ Mirrored /\ Recovering
  BY DEF IInv
<1>2. CASE path' = path
  BY <1>1, <1>2, NothingChanges DEF TypeOK
<1>3. CASE path' # path
  <2>1. /\ N \in Nat /\ Layers = 1..N /\ Boundary \in 0..N /\ at["handler"] = N
        /\ Boundary > 0 => order[Boundary] = "timeout"
        /\ path \in Paths(N)
    BY <1>1, Setting DEF Places, Stopped
  <2>2. /\ Transparent(N) /\ path' \in Paths(N) /\ path'.layer = path.layer
        /\ path'.base.bypassed
        /\ path'.base.bytes = path.base.bytes /\ path'.base.authors = path.base.authors
        /\ path'.base.early = path.base.early
        /\ path'.base.status = 0 => path.base.status = 0
    BY <1>3, <2>1, BypassFacts
  <2>3. /\ Boundary' = Boundary /\ Outer' = Outer /\ Layers' = Layers /\ Guarded' = Guarded
    BY Kept
  <2>4. Boundary = 0 /\ ~Guarded
    BY <2>1, <2>2 DEF Transparent, Guarded
  <2>5. (TimedOut' <=> TimedOut) /\ (Ended' <=> Ended) /\ Edge' = Edge
    BY <2>2, <2>3 DEF TimedOut, Ended, Edge
  <2>6. TypeOK'
    <3>1. path' \in [layer : [Layers -> Wrappers], base : Responses]
      BY <2>1, <2>2 DEF Paths
    <3> QED BY <1>1, <2>2, <2>3, <3>1 DEF TypeOK, Wrappers, Responses
  <2>7. Places'
    BY <1>1, <2>2, <2>3, <2>5 DEF Places, Stopped
  <2>8. OneAuthor'
    BY <1>1, <2>2, <2>3, <2>5 DEF OneAuthor
  <2>9. Mirrored'
    <3>1. InStep(path', Edge)
      BY <1>1, <2>2 DEF Mirrored, InStep
    <3>2. \A i \in Layers : entry[i] = NoEntry
      BY <1>1, <2>4 DEF Mirrored, Outer
    <3> QED BY <1>1, <2>2, <2>3, <2>5, <3>1, <3>2 DEF Mirrored
  <2>10. Recovering'
    BY <2>3, <2>4 DEF Recovering
  <2> QED BY <2>6, <2>7, <2>8, <2>9, <2>10 DEF IInv
<1> QED BY <1>2, <1>3

\* The handler returns or panics.
LEMMA HandlerEnds ==
    ASSUME IInv, HandlerReturn \/ HandlerPanic
    PROVE  IInv'
<1> DEFINE N == Len(order)
<1>1. TypeOK /\ Places /\ OneAuthor /\ Mirrored /\ Recovering
  BY DEF IInv
<1>2. /\ N \in Nat /\ Layers = 1..N /\ Boundary \in 0..N /\ at["handler"] = N
      /\ mode["handler"] = "run"
      /\ UNCHANGED <<order, at, path, entry, proc>>
  BY <1>1, Setting DEF Places, HandlerReturn, HandlerPanic, HandlerRuns
<1>3. /\ Boundary' = Boundary /\ Outer' = Outer /\ Layers' = Layers /\ Guarded' = Guarded
  BY <1>2, Kept
<1>4. /\ mode' \in [Goroutines -> {"run", "select", "answer", "return", "panic", "recovering",
                                   "done", "aborted"}]
      /\ mode'["server"] = mode["server"]
      /\ \/ mode'["handler"] = "return" /\ clean' = clean
         \/ /\ mode'["handler"] = "panic"
            /\ clean' = (path.base.status = 0 /\ ~path.base.early)
  BY <1>1 DEF TypeOK, HandlerReturn, HandlerPanic, Goroutines
<1>5. (TimedOut' <=> TimedOut) /\ (Ended' <=> Ended) /\ Edge' = Edge
  BY <1>2, <1>3, <1>4 DEF TimedOut, Ended, Edge
<1>6. TypeOK'
  <2>1. clean' \in BOOLEAN
    BY <1>1, <1>4 DEF TypeOK
  <2> QED BY <1>1, <1>2, <1>3, <1>4, <2>1 DEF TypeOK
<1>7. Places'
  BY <1>1, <1>2, <1>3, <1>4, <1>5 DEF Places, Stopped
<1>8. OneAuthor'
  BY <1>1, <1>2, <1>3, <1>4, <1>5 DEF OneAuthor
<1>9. Mirrored'
  <2>1. mode[Outer] \in {"return", "done"} => mode'[Outer] = mode[Outer]
    BY <1>2, <1>4 DEF Outer
  <2> QED BY <1>1, <1>2, <1>3, <1>5, <2>1 DEF Mirrored
<1>10. Recovering'
  <2> SUFFICES ASSUME Guarded, clean'
               PROVE  /\ ~path.base.early
                      /\ path.base.status = 0
                      /\ mode'["handler"] = "panic" /\ ~Ended
    BY <1>1, <1>2, <1>3, <1>4, <1>5 DEF Recovering
  <2>1. ~clean
    BY <1>1, <1>2 DEF Recovering
  <2>2. mode'["handler"] = "panic" /\ path.base.status = 0 /\ ~path.base.early
    BY <1>4, <2>1
  <2>3. ~Ended
    BY <1>1, <1>2, <2>2 DEF Recovering, Places, Stopped, BareAnswer, OneAuthor
  <2> QED BY <2>2, <2>3
<1> QED BY <1>6, <1>7, <1>8, <1>9, <1>10 DEF IInv

\* Fewer layers are in step, and quiet, if more are.
LEMMA Inwards ==
    ASSUME NEW p, NEW m \in Nat, NEW l \in 0..m
    PROVE  (InStep(p, m) => InStep(p, l)) /\ (Quiet(p, m) => Quiet(p, l))
<1>1. 1..l \subseteq 1..m
  OBVIOUS
<1> QED BY <1>1 DEF InStep, Quiet

\* A goroutine leaves a layer that lets a return, or mwlog's that lets a panic,
\* pass; mwlog logs what its writer remembers.
LEMMA LayerIsLeft ==
    ASSUME IInv, NEW g \in Goroutines, LeaveLog(g) \/ RecoveryReturn(g)
    PROVE  IInv'
<1> DEFINE N == Len(order)
<1>1. TypeOK /\ Places /\ OneAuthor /\ Mirrored /\ Recovering
  BY DEF IInv
<1>2. /\ N \in Nat /\ Layers = 1..N /\ Boundary \in 0..N
      /\ at \in [Goroutines -> 0..N] /\ "handler" \in Goroutines /\ "server" \in Goroutines
      /\ path \in Paths(N)
  BY <1>1, Setting
<1>3. /\ mode[g] \in {"return", "panic"} /\ at[g] > Floor(g) /\ at[g] \in 1..N
      /\ at' = [at EXCEPT ![g] = at[g] - 1]
      /\ mode[g] = "panic" => order[at[g]] = "log"
      /\ UNCHANGED <<order, mode, path, clean, proc>>
  BY <1>2 DEF LeaveLog, RecoveryReturn, Leaves, Floor
<1>4. \/ entry' = entry
      \/ /\ mode[g] = "return" /\ order[at[g]] = "log"
         /\ entry' = [entry EXCEPT ![at[g]] = [status |-> path.layer[at[g]].status,
                                               bytes  |-> path.layer[at[g]].bytes]]
  BY <1>3 DEF LeaveLog, RecoveryReturn, Leaves
<1>5. /\ Boundary' = Boundary /\ Outer' = Outer /\ Layers' = Layers /\ Guarded' = Guarded
  BY <1>3, Kept
<1>6. /\ (TimedOut' <=> TimedOut) /\ (Ended' <=> Ended)
      /\ at' \in [Goroutines -> 0..N]
      /\ at'["handler"] = IF g = "handler" THEN at["handler"] - 1 ELSE at["handler"]
      /\ at'["server"] = IF g = "server" THEN at["server"] - 1 ELSE at["server"]
  BY <1>2, <1>3, <1>5 DEF TimedOut, Ended
<1>7. g = "server" => Ended
  BY <1>1, <1>3 DEF Places, Ended, Stopped
<1>8. /\ Edge \in 0..N /\ Edge' \in 0..Edge
      /\ g = "handler" /\ Boundary = 0 => at[g] = Edge
      /\ g = "server" => at[g] = Edge /\ Boundary > 0 /\ at[g] < Boundary
      /\ g = "handler" => at[g] > Boundary
  BY <1>1, <1>2, <1>3, <1>5, <1>6, <1>7 DEF Edge, Places, Floor
<1>9. TypeOK'
  <2>1. entry' \in [Layers -> [status : Statuses \cup {0}, bytes : Nat]]
    <3>1. path.layer[at[g]] \in Wrappers
      BY <1>2, <1>3 DEF Paths
    <3>2. entry \in [Layers -> [status : Statuses \cup {0}, bytes : Nat]]
      BY <1>1 DEF TypeOK
    <3> QED BY <1>4, <3>1, <3>2 DEF Wrappers
  <2> QED BY <1>1, <1>3, <1>5, <1>6, <2>1 DEF TypeOK, Goroutines
<1>10. Places'
  <2>1. ASSUME mode["handler"] = "panic", NEW i \in Layers, i > at'["handler"]
        PROVE  order[i] # "recovery"
    <3>1. i > at["handler"] \/ (g = "handler" /\ i = at["handler"])
      BY <1>2, <1>6, <2>1
    <3> QED BY <3>1, <1>1, <1>3, <2>1 DEF Places, Stopped
  <2>2. Ended => /\ at'["server"] < Boundary
                 /\ TimedOut \/ Stopped'
    BY <1>1, <1>2, <1>3, <1>5, <1>6, <1>8 DEF Places, Stopped
  <2>3. at'["handler"] >= Boundary
    BY <1>1, <1>2, <1>6, <1>8 DEF Places, Stopped
  <2>4. mode["handler"] = "run" => at'["handler"] = N
    BY <1>1, <1>3, <1>6 DEF Places, Stopped
  <2> QED BY <1>1, <1>3, <1>5, <1>6, <2>1, <2>2, <2>3, <2>4 DEF Places, Stopped
<1>11. OneAuthor'
  BY <1>1, <1>3, <1>5, <1>6 DEF OneAuthor
<1>12. Mirrored'
  <2>1. InStep(path, Edge)
    BY <1>1 DEF Mirrored
  <2>2. InStep(path, Edge')
    BY <2>1, <1>8, Inwards
  <2>3. ASSUME NEW i \in Layers, entry'[i] # NoEntry, Boundary = 0 \/ i < Boundary
        PROVE  /\ mode[Outer] \in {"return", "done"}
               /\ entry'[i].bytes = path.base.bytes
               /\ \/ path.base.bypassed \/ path.base.early
                  \/ entry'[i].status = Final(path.base)
    <3>1. CASE entry'[i] = entry[i]
      BY <1>1, <2>3, <3>1 DEF Mirrored
    <3>2. CASE entry'[i] # entry[i]
      <4>1. /\ i = at[g] /\ mode[g] = "return" /\ order[i] = "log"
            /\ entry'[i].status = path.layer[i].status
            /\ entry'[i].bytes = path.layer[i].bytes
        BY <1>1, <1>4, <3>2 DEF TypeOK
      <4>2. i = Edge /\ i \in 1..Edge /\ mode[Outer] = "return"
        BY <1>2, <1>3, <1>8, <2>3, <4>1 DEF Outer, Goroutines
      <4>3. /\ path.layer[i].bytes = path.base.bytes
            /\ \/ path.base.bypassed \/ path.base.early
               \/ /\ path.layer[i].wrote <=> path.base.status # 0
                  /\ path.layer[i].wrote => path.layer[i].status = path.base.status
        BY <2>1, <4>2 DEF InStep
      <4>4. ~path.layer[i].wrote => path.layer[i].status = 200
        BY <1>1, <4>1 DEF Mirrored
      <4> QED BY <4>1, <4>2, <4>3, <4>4 DEF Final
    <3> QED BY <3>1, <3>2
  <2> QED
    BY <1>1, <1>3, <1>5, <2>2, <2>3 DEF Mirrored
<1>13. Recovering'
  <2>1. at["handler"] \in Nat /\ at'["handler"] \in 0..at["handler"]
    BY <1>2, <1>6, <1>8
  <2>2. Quiet(path, at["handler"]) => Quiet(path, at'["handler"])
    BY <2>1, Inwards
  <2> QED BY <1>1, <1>3, <1>5, <1>6, <2>2 DEF Recovering, BareAnswer
<1> QED BY <1>9, <1>10, <1>11, <1>12, <1>13 DEF IInv

\* A recovery layer stops the panic, and sends the status of its answer if its
\* own writer is unused.
LEMMA PanicIsRecovered ==
    ASSUME IInv, NEW g \in Goroutines, Recover(g)
    PROVE  IInv'
<1> DEFINE N == Len(order)
           k == at["handler"] - 1
<1>1. TypeOK /\ Places /\ OneAuthor /\ Mirrored /\ Recovering
  BY DEF IInv
<1>2. /\ N \in Nat /\ Layers = 1..N /\ Boundary \in 0..N
      /\ at \in [Goroutines -> 0..N] /\ "handler" \in Goroutines /\ "server" \in Goroutines
      /\ path \in Paths(N)
  BY <1>1, Setting
<1>3. /\ g = "handler" /\ mode["handler"] = "panic"
      /\ at["handler"] > Boundary
      /\ UNCHANGED <<order, entry, clean, proc>>
      /\ at' = [at EXCEPT !["handler"] = k]
      /\ \/ /\ path.layer[at["handler"]].wrote /\ path' = path
            /\ mode' = [mode EXCEPT !["handler"] = "return"]
         \/ /\ ~path.layer[at["handler"]].wrote /\ path' = WriteHeader(path, k, 500)
            /\ mode' = [mode EXCEPT !["handler"] = "recovering"]
  BY <1>1 DEF Recover, Leaves, Floor, Places, Goroutines
<1>4. /\ k \in Boundary..(N - 1) /\ k \in 0..N /\ at["handler"] \in Layers
      /\ at' \in [Goroutines -> 0..N]
      /\ at'["handler"] = k /\ at'["server"] = at["server"]
      /\ mode'["handler"] \in {"return", "recovering"} /\ mode'["server"] = mode["server"]
      /\ mode' \in [Goroutines -> {"run", "select", "answer", "return", "panic", "recovering",
                                   "done", "aborted"}]
  BY <1>1, <1>2, <1>3 DEF TypeOK, Goroutines
<1>5. mode \in [Goroutines -> {"run", "select", "answer", "return", "panic", "recovering",
                               "done", "aborted"}]
  BY <1>1 DEF TypeOK
<1>6. \/ /\ path.layer[at["handler"]].wrote /\ path' = path
         /\ mode'["handler"] = "return"
      \/ /\ ~path.layer[at["handler"]].wrote
         /\ mode'["handler"] = "recovering"
         /\ Advances(N, path, path', k, "recovery")
         /\ path'.base.early = path.base.early
         /\ path'.base.authors = path.base.authors
         /\ Open(path, 1, k) => \A i \in 1..k : path'.layer[i].wrote
         /\ Open(path, 1, k) /\ path.base.status = 0 /\ ~path.base.hijacked =>
              path'.base.status = 500
  BY <1>2, <1>3, <1>4, <1>5, ErrorStatusAdvances
<1>7. /\ Boundary' = Boundary /\ Outer' = Outer /\ Layers' = Layers /\ Guarded' = Guarded
  BY <1>3, Kept
<1>8. /\ path' \in Paths(N)
      /\ \A i \in Layers :
           /\ path'.layer[i].timedOut = path.layer[i].timedOut
           /\ path.layer[i].wrote => path'.layer[i].wrote
           /\ path.layer[i].status # 0 => path'.layer[i].status # 0
           /\ ~path'.layer[i].wrote => path'.layer[i] = path.layer[i]
      /\ path'.base.hijacked = path.base.hijacked
      /\ path'.base.bypassed = path.base.bypassed
      /\ path'.base.early = path.base.early
      /\ path'.base.authors = path.base.authors
      /\ path.base.status # 0 => path'.base.status = path.base.status
  BY <1>2, <1>6 DEF Advances
<1>9. (TimedOut' <=> TimedOut) /\ (Ended' <=> Ended)
  <2>1. Boundary > 0 => Boundary \in Layers
    BY <1>2
  <2>2. TimedOut' <=> TimedOut
    BY <1>7, <1>8, <2>1 DEF TimedOut
  <2>3. Ended' <=> Ended
    BY <1>4 DEF Ended
  <2> QED BY <2>2, <2>3
<1>10. TimedOut => path'.base = path.base
  <2>1. TimedOut => ~Passes(path, 1, k)
    <3>1. Boundary > 0 => Boundary \in 1..k
      BY <1>2, <1>4
    <3> QED BY <3>1 DEF TimedOut, Passes
  <2> QED BY <1>6, <2>1 DEF Advances
<1>11. Ended => TimedOut
  <2>1. at["handler"] # Boundary
    BY <1>2, <1>3
  <2> QED BY <1>1, <2>1 DEF Places, Stopped
<1>12. TypeOK'
  <2>1. path' \in [layer : [Layers -> Wrappers], base : Responses]
    BY <1>2, <1>8 DEF Paths
  <2> QED BY <1>1, <1>3, <1>4, <1>7, <1>8, <2>1
          DEF TypeOK, Wrappers, Responses, Goroutines
<1>13. Places'
  <2>1. at'["handler"] >= Boundary
    BY <1>2, <1>4
  <2>2. \A i \in Layers : path'.layer[i].timedOut => i = Boundary
    BY <1>1, <1>8 DEF Places
  <2>3. /\ mode["server"] \in {"select", "answer", "return", "done"}
        /\ mode["server"] = "select" => ~TimedOut
        /\ mode["server"] = "answer" => TimedOut
        /\ Ended => Boundary > 0 /\ at["server"] < Boundary
    BY <1>1 DEF Places
  <2> QED BY <1>4, <1>7, <1>9, <1>11, <2>1, <2>2, <2>3 DEF Places
<1>14. OneAuthor'
  <2>1. "recovery" \notin path.base.authors
    BY <1>1, <1>3 DEF OneAuthor
  <2>2. "handler" \in path.base.authors => mode'["handler"] = "return"
    BY <1>1, <1>4, <1>6 DEF OneAuthor
  <2>3. path'.base.status = 0 => path.base.status = 0
    BY <1>8
  <2> QED BY <1>1, <1>7, <1>8, <1>9, <2>1, <2>2, <2>3 DEF OneAuthor
<1>15. Mirrored'
  <2>1. Edge \in Nat /\ Edge' \in 0..Edge /\ Edge' <= k
    BY <1>1, <1>2, <1>4, <1>7, <1>9 DEF Edge, Places
  <2>2. InStep(path, Edge')
    BY <1>1, <2>1, Inwards DEF Mirrored
  <2>3. InStep(path', Edge')
    BY <1>1, <1>4, <1>6, <2>1, <2>2 DEF Mirrored, Advances
  <2>4. ASSUME NEW i \in Layers, entry[i] # NoEntry, Boundary = 0 \/ i < Boundary
        PROVE  /\ path'.base = path.base
               /\ mode'[Outer] = mode[Outer]
    <3>1. mode[Outer] \in {"return", "done"}
      BY <1>1, <2>4 DEF Mirrored
    <3>2. Ended /\ Outer = "server"
      BY <1>3, <3>1 DEF Outer, Ended
    <3> QED BY <3>2, <1>4, <1>10, <1>11
  <2>5. \A i \in Layers : order[i] = "log" /\ ~path'.layer[i].wrote => path'.layer[i].status = 200
    BY <1>1, <1>8 DEF Mirrored
  <2>6. path'.base.hijacked => path'.base.bypassed
    BY <1>1, <1>8 DEF Mirrored
  <2> QED
    BY <1>1, <1>3, <1>7, <2>3, <2>4, <2>5, <2>6 DEF Mirrored
<1>16. Recovering'
  <2> SUFFICES ASSUME Guarded
               PROVE  /\ ~path'.base.bypassed
                      /\ Quiet(path', k)
                      /\ Ended /\ TimedOut /\ ~path'.base.early => path'.base.status # 0
                      /\ clean =>
                          /\ ~path'.base.early
                          /\ \/ /\ path'.base.status = 0
                                /\ mode["server"] = "answer"
                                /\ ~Ended
                             \/ BareAnswer'
                             \/ path'.base.status = 500 /\ path'.base.authors = {"recovery"}
                             \/ path'.base.status = 503 /\ path'.base.authors = {"timeout"}
    BY <1>3, <1>4, <1>7, <1>9 DEF Recovering
  <2>1. ~path.base.bypassed /\ ~path.base.hijacked /\ ~path'.base.bypassed
    BY <1>1, <1>8 DEF Recovering, Mirrored
  <2>2. Quiet(path, at["handler"])
    BY <1>1 DEF Recovering
  <2>3. Quiet(path, k)
    <3>1. at["handler"] \in Nat /\ k \in 0..at["handler"]
      BY <1>2, <1>4
    <3> QED BY <2>2, <3>1, Inwards
  <2>4. Quiet(path', k)
    BY <1>4, <1>6, <2>1, <2>3 DEF Advances
  <2>5. Ended /\ TimedOut /\ ~path'.base.early => path'.base.status # 0
    BY <1>1, <1>8, <1>10 DEF Recovering
  <2>6. ASSUME clean
        PROVE  \/ /\ path'.base.status = 0
                  /\ mode["server"] = "answer"
                  /\ ~Ended
               \/ BareAnswer'
               \/ path'.base.status = 500 /\ path'.base.authors = {"recovery"}
               \/ path'.base.status = 503 /\ path'.base.authors = {"timeout"}
    <3>1. /\ ~path.base.early
          /\ \/ path.base.status = 0 /\ ~Ended
             \/ BareAnswer
             \/ path.base.status = 500 /\ path.base.authors = {"recovery"}
             \/ path.base.status = 503 /\ path.base.authors = {"timeout"}
      BY <1>1, <2>6 DEF Recovering
    <3>2. CASE TimedOut
      <4>1. ~Ended => mode["server"] = "answer"
        BY <1>1, <3>2 DEF Places, Ended
      <4>2. BareAnswer => BareAnswer'
        <5>1. \A i \in 1..Boundary : i \in Layers
          BY <1>2
        <5> QED BY <1>7, <1>8, <1>9, <1>10, <3>2, <5>1 DEF BareAnswer
      <4> QED BY <1>10, <3>1, <3>2, <4>1, <4>2
    <3>3. CASE ~TimedOut
      <4>1. path.base.status = 0 /\ path.base.authors = {}
        BY <1>1, <1>3, <3>1, <3>3 DEF OneAuthor, BareAnswer
      <4>2. \A i \in Layers : ~path.layer[i].timedOut
        BY <1>1, <1>2, <3>3 DEF Places, TimedOut
      <4>3. \A i \in 1..at["handler"] : ~path.layer[i].wrote
        <5>1. \A i \in 1..at["handler"] : \A j \in 1..(i - 1) : j \in Layers
          BY <1>2, <1>4
        <5> QED BY <2>2, <3>1, <4>1, <4>2, <5>1 DEF Quiet
      <4>4. Open(path, 1, k)
        BY <1>2, <1>4, <4>2, <4>3 DEF Open
      <4>5. ~path.layer[at["handler"]].wrote
        BY <1>2, <1>4, <4>3
      <4>6. /\ mode'["handler"] = "recovering"
            /\ path'.base.status = 500 /\ path'.base.authors = {}
            /\ \A i \in 1..k : path'.layer[i].wrote
        BY <1>6, <2>1, <4>1, <4>4, <4>5
      <4>7. \A i \in 1..Boundary : path'.layer[i].wrote
        BY <1>2, <1>4, <4>6
      <4> QED BY <1>7, <4>6, <4>7 DEF BareAnswer
    <3> QED BY <3>2, <3>3
  <2>7. clean => ~path'.base.early
    BY <1>1, <1>8 DEF Recovering
  <2> QED BY <2>1, <2>4, <2>5, <2>6, <2>7
<1> QED BY <1>12, <1>13, <1>14, <1>15, <1>16 DEF IInv

\* The body of recovery's answer follows, unless the deadline has passed.
LEMMA RecoveryAnswers ==
    ASSUME IInv, NEW g \in Goroutines, RecoverBody(g)
    PROVE  IInv'
<1> DEFINE N == Len(order)
           k == at["handler"]
<1>1. TypeOK /\ Places /\ OneAuthor /\ Mirrored /\ Recovering
  BY DEF IInv
<1>2. /\ N \in Nat /\ Layers = 1..N /\ Boundary \in 0..N
      /\ at \in [Goroutines -> 0..N] /\ "handler" \in Goroutines /\ "server" \in Goroutines
      /\ path \in Paths(N)
  BY <1>1, Setting
<1>3. /\ mode["handler"] = "recovering"
      /\ UNCHANGED <<order, at, entry, clean, proc>>
      /\ mode' = [mode EXCEPT !["handler"] = "return"]
      /\ path' = Write(path, k, "recovery")
  BY <1>1 DEF RecoverBody, Places, Goroutines
<1>4. /\ k \in Boundary..N /\ k \in 0..N
      /\ mode'["handler"] = "return" /\ mode'["server"] = mode["server"]
      /\ mode' \in [Goroutines -> {"run", "select", "answer", "return", "panic", "recovering",
                                   "done", "aborted"}]
  BY <1>1, <1>2, <1>3 DEF TypeOK, Places, Goroutines
<1>5. /\ Advances(N, path, path', k, "recovery")
      /\ path'.base.early = path.base.early
      /\ Passes(path, 1, k) /\ ~path.base.hijacked =>
           /\ path'.base.status = Final(path.base)
           /\ path'.base.authors = path.base.authors \cup {"recovery"}
  BY <1>2, <1>3, <1>4, ErrorBodyAdvances
<1>6. /\ Boundary' = Boundary /\ Outer' = Outer /\ Layers' = Layers /\ Guarded' = Guarded
  BY <1>3, Kept
<1>7. /\ path' \in Paths(N)
      /\ \A i \in Layers :
           /\ path'.layer[i].timedOut = path.layer[i].timedOut
           /\ path.layer[i].wrote => path'.layer[i].wrote
           /\ path.layer[i].status # 0 => path'.layer[i].status # 0
           /\ ~path'.layer[i].wrote => path'.layer[i] = path.layer[i]
      /\ path'.base.hijacked = path.base.hijacked
      /\ path'.base.bypassed = path.base.bypassed
      /\ path.base.status # 0 => path'.base.status = path.base.status
  BY <1>2, <1>5 DEF Advances
<1>8. (TimedOut' <=> TimedOut) /\ (Ended' <=> Ended) /\ Edge' = Edge
  <2>1. TimedOut' <=> TimedOut
    BY <1>2, <1>6, <1>7 DEF TimedOut
  <2>2. Ended' <=> Ended
    BY <1>4 DEF Ended
  <2> QED BY <1>3, <1>6, <2>1, <2>2 DEF Edge
<1>9. TimedOut => path'.base = path.base
  <2>1. TimedOut => ~Passes(path, 1, k)
    <3>1. Boundary > 0 => Boundary \in 1..k
      BY <1>2, <1>4
    <3> QED BY <3>1 DEF TimedOut, Passes
  <2> QED BY <1>5, <2>1 DEF Advances
<1>10. Ended => TimedOut
  BY <1>1, <1>3 DEF Places, Stopped
<1>11. TypeOK'
  <2>1. path' \in [layer : [Layers -> Wrappers], base : Responses]
    BY <1>2, <1>7 DEF Paths
  <2> QED BY <1>1, <1>3, <1>4, <1>6, <1>7, <2>1
          DEF TypeOK, Wrappers, Responses, Goroutines
<1>12. Places'
  <2>1. \A i \in Layers : path'.layer[i].timedOut => i = Boundary
    BY <1>1, <1>7 DEF Places
  <2> QED BY <1>1, <1>3, <1>4, <1>6, <1>8, <1>10, <2>1 DEF Places
<1>13. OneAuthor'
  <2>1. "handler" \notin path.base.authors /\ "recovery" \notin path.base.authors
    BY <1>1, <1>3 DEF OneAuthor
  <2>2. CASE path'.base.authors = path.base.authors
    <3>1. path'.base.status = 0 => path.base.status = 0
      BY <1>7
    <3> QED BY <1>1, <1>6, <1>8, <2>1, <2>2, <3>1 DEF OneAuthor
  <2>3. CASE path'.base.authors # path.base.authors
    <3>1. /\ path'.base.authors = path.base.authors \cup {"recovery"}
          /\ path'.base.status # 0
          /\ \A i \in 1..k : path'.layer[i].wrote
      BY <1>5, <2>3 DEF Advances
    <3>2. "timeout" \notin path.base.authors
      BY <1>1, <1>9, <2>3 DEF OneAuthor
    <3>3. path.base.authors \subseteq {"handler", "recovery", "timeout"}
      BY <1>1 DEF TypeOK
    <3>4. path'.base.authors = {"recovery"}
      BY <2>1, <3>1, <3>2, <3>3
    <3>5. \A i \in 1..Boundary : path'.layer[i].wrote
      BY <1>2, <1>4, <3>1
    <3> QED BY <1>4, <1>6, <3>1, <3>4, <3>5 DEF OneAuthor
  <2> QED BY <2>2, <2>3
<1>14. Mirrored'
  <2>1. Edge \in 0..k
    BY <1>1, <1>2, <1>4 DEF Edge, Places
  <2>2. InStep(path', Edge)
    BY <1>1, <1>5, <2>1 DEF Mirrored, Advances
  <2>3. ASSUME NEW i \in Layers, entry[i] # NoEntry, Boundary = 0 \/ i < Boundary
        PROVE  /\ path'.base = path.base
               /\ mode'[Outer] = mode[Outer]
    <3>1. mode[Outer] \in {"return", "done"}
      BY <1>1, <2>3 DEF Mirrored
    <3>2. Ended /\ Outer = "server"
      BY <1>3, <3>1 DEF Outer, Ended
    <3> QED BY <3>2, <1>4, <1>9, <1>10
  <2>4. \A i \in Layers : order[i] = "log" /\ ~path'.layer[i].wrote => path'.layer[i].status = 200
    BY <1>1, <1>7 DEF Mirrored
  <2>5. path'.base.hijacked => path'.base.bypassed
    BY <1>1, <1>7 DEF Mirrored
  <2> QED
    BY <1>1, <1>3, <1>6, <1>8, <2>2, <2>3, <2>4, <2>5 DEF Mirrored
<1>15. Recovering'
  <2> SUFFICES ASSUME Guarded
               PROVE  /\ ~path'.base.bypassed
                      /\ Quiet(path', k)
                      /\ Ended /\ TimedOut /\ ~path'.base.early => path'.base.status # 0
                      /\ clean =>
                          /\ ~path'.base.early
                          /\ \/ /\ path'.base.status = 0
                                /\ mode["server"] = "answer"
                                /\ ~Ended
                             \/ BareAnswer'
                             \/ path'.base.status = 500 /\ path'.base.authors = {"recovery"}
                             \/ path'.base.status = 503 /\ path'.base.authors = {"timeout"}
    BY <1>3, <1>4, <1>6, <1>8 DEF Recovering
  <2>1. ~path.base.bypassed /\ ~path.base.hijacked /\ ~path'.base.bypassed
    BY <1>1, <1>7 DEF Recovering, Mirrored
  <2>2. Quiet(path', k)
    BY <1>1, <1>4, <1>5, <2>1 DEF Recovering, Advances
  <2>3. Ended /\ TimedOut /\ ~path'.base.early => path'.base.status # 0
    BY <1>1, <1>5, <1>9 DEF Recovering
  <2>4. ASSUME clean
        PROVE  /\ ~path'.base.early
               /\ \/ /\ path'.base.status = 0
                     /\ mode["server"] = "answer"
                     /\ ~Ended
                  \/ BareAnswer'
                  \/ path'.base.status = 500 /\ path'.base.authors = {"recovery"}
                  \/ path'.base.status = 503 /\ path'.base.authors = {"timeout"}
    <3>1. /\ ~path.base.early
          /\ \/ path.base.status = 0 /\ mode["server"] = "answer" /\ ~Ended
             \/ BareAnswer
             \/ path.base.status = 503 /\ path.base.authors = {"timeout"}
      BY <1>1, <1>3, <2>4 DEF Recovering, OneAuthor
    <3>2. CASE TimedOut
      <4>1. BareAnswer => BareAnswer'
        <5>1. \A i \in 1..Boundary : i \in Layers
          BY <1>2
        <5> QED BY <1>6, <1>7, <1>8, <1>9, <3>2, <5>1 DEF BareAnswer
      <4> QED BY <1>9, <3>1, <3>2, <4>1
    <3>3. CASE ~TimedOut
      <4>1. path.base.status = 500 /\ path.base.authors = {}
        BY <1>1, <3>1, <3>3 DEF OneAuthor, Places, BareAnswer
      <4>2. Passes(path, 1, k)
        <5>1. \A i \in 1..k : i \in Layers
          BY <1>2, <1>4
        <5> QED BY <1>1, <1>2, <3>3, <5>1 DEF Places, TimedOut, Passes
      <4> QED BY <1>5, <2>1, <3>1, <4>1, <4>2 DEF Final
    <3> QED BY <3>2, <3>3
  <2> QED BY <2>1, <2>2, <2>3, <2>4
<1> QED BY <1>11, <1>12, <1>13, <1>14, <1>15 DEF IInv

\* The timeout's goroutine sees that the handler's has ended.
LEMMA DoneIsSelected ==
    ASSUME IInv, SelectDone
    PROVE  IInv'
<1> DEFINE N == Len(order)
<1>1. TypeOK /\ Places /\ OneAuthor /\ Mirrored /\ Recovering
  BY DEF IInv
<1>2. /\ N \in Nat /\ Layers = 1..N /\ Boundary \in 0..N
      /\ at \in [Goroutines -> 0..N] /\ "handler" \in Goroutines /\ "server" \in Goroutines
  BY <1>1, Setting
<1>3. /\ Boundary > 0 /\ mode["server"] = "select"
      /\ at["handler"] = Boundary /\ mode["handler"] \in {"return", "panic"}
      /\ UNCHANGED <<order, path, entry, clean, proc>>
  BY DEF SelectDone, Selects
<1>4. /\ at' \in [Goroutines -> 0..N]
      /\ at'["handler"] = at["handler"] /\ at'["server"] = Boundary - 1
      /\ mode' \in [Goroutines -> {"run", "select", "answer", "return", "panic", "recovering",
                                   "done", "aborted"}]
      /\ mode'["handler"] = mode["handler"] /\ mode'["server"] = "return"
  BY <1>1, <1>2, <1>3 DEF SelectDone, TypeOK, Goroutines
<1>5. /\ Boundary' = Boundary /\ Outer' = Outer /\ Layers' = Layers /\ Guarded' = Guarded
  BY <1>3, Kept
<1>6. ~TimedOut /\ ~TimedOut' /\ ~Ended /\ Ended'
  BY <1>1, <1>3, <1>4, <1>5 DEF TimedOut, Ended, Places
<1>7. Edge' = Edge
  BY <1>3, <1>4, <1>5, <1>6 DEF Edge
<1>8. TypeOK'
  BY <1>1, <1>3, <1>4, <1>5 DEF TypeOK, Goroutines
<1>9. Places'
  BY <1>1, <1>2, <1>3, <1>4, <1>5, <1>6 DEF Places, Stopped
<1>10. OneAuthor'
  BY <1>1, <1>3, <1>4, <1>5, <1>6 DEF OneAuthor
<1>11. Mirrored'
  <2>1. Outer = "server" /\ mode[Outer] \notin {"return", "done"}
    BY <1>3 DEF Outer
  <2> QED BY <1>1, <1>3, <1>5, <1>7, <2>1 DEF Mirrored
<1>12. Recovering'
  <2>1. Guarded => mode["handler"] # "panic"
    BY <1>1, <1>3 DEF Guarded, Places
  <2> QED BY <1>1, <1>3, <1>4, <1>5, <1>6, <2>1 DEF Recovering, BareAnswer
<1> QED BY <1>8, <1>9, <1>10, <1>11, <1>12 DEF IInv

\* The deadline: from here on the timeout layer lets nothing through.
LEMMA TimeoutIsSelected ==
    ASSUME IInv, SelectTimeout
    PROVE  IInv'
<1> DEFINE N == Len(order)
<1>1. TypeOK /\ Places /\ OneAuthor /\ Mirrored /\ Recovering
  BY DEF IInv
<1>2. /\ N \in Nat /\ Layers = 1..N /\ Boundary \in 0..N
      /\ at \in [Goroutines -> 0..N] /\ "handler" \in Goroutines /\ "server" \in Goroutines
      /\ path \in Paths(N)
  BY <1>1, Setting
<1>3. /\ Boundary > 0 /\ Boundary \in Layers /\ mode["server"] = "select"
      /\ UNCHANGED <<order, at, entry, clean, proc>>
  BY <1>2 DEF SelectTimeout, Selects
<1>4. /\ mode' \in [Goroutines -> {"run", "select", "answer", "return", "panic", "recovering",
                                   "done", "aborted"}]
      /\ mode'["handler"] = mode["handler"] /\ mode'["server"] = "answer"
  BY <1>1, <1>2 DEF SelectTimeout, TypeOK, Goroutines
<1>5. /\ Boundary' = Boundary /\ Outer' = Outer /\ Layers' = Layers /\ Guarded' = Guarded
  BY <1>3, Kept
<1>6. /\ path' \in Paths(N) /\ path'.base = path.base
      /\ \A i \in Layers :
           /\ path'.layer[i].timedOut <=> path.layer[i].timedOut \/ i = Boundary
           /\ path'.layer[i].wrote = path.layer[i].wrote
           /\ path'.layer[i].status = path.layer[i].status
           /\ path'.layer[i].bytes = path.layer[i].bytes
  <2> DEFINE w == [path.layer[Boundary] EXCEPT !.timedOut = TRUE]
             L == [path.layer EXCEPT ![Boundary] = w]
  <2>1. path' = [path EXCEPT !.layer = L]
    BY DEF SelectTimeout
  <2>2. path.layer \in [Layers -> Wrappers]
    BY <1>2 DEF Paths
  <2>3. /\ w \in Wrappers /\ w.timedOut
        /\ w.wrote = path.layer[Boundary].wrote
        /\ w.status = path.layer[Boundary].status
        /\ w.bytes = path.layer[Boundary].bytes
    BY <1>3, <2>2 DEF Wrappers
  <2> HIDE DEF w
  <2>4. /\ L \in [Layers -> Wrappers] /\ L[Boundary] = w
        /\ \A i \in Layers : i # Boundary => L[i] = path.layer[i]
    BY <1>3, <2>2, <2>3
  <2> HIDE DEF L
  <2>5. path'.layer = L /\ path'.base = path.base /\ path' \in Paths(N)
    BY <1>2, <2>1, <2>4 DEF Paths
  <2> QED BY <2>3, <2>4, <2>5
<1>7. TimedOut' /\ ~Ended /\ ~Ended'
  BY <1>3, <1>4, <1>5, <1>6 DEF TimedOut, Ended
<1>8. Edge' = Edge /\ Edge = Boundary - 1
  BY <1>3, <1>5, <1>7 DEF Edge
<1>9. TypeOK'
  <2>1. path' \in [layer : [Layers -> Wrappers], base : Responses]
    BY <1>2, <1>6 DEF Paths
  <2> QED BY <1>1, <1>3, <1>4, <1>5, <1>6, <2>1 DEF TypeOK, Wrappers, Responses, Goroutines
<1>10. Places'
  BY <1>1, <1>3, <1>4, <1>5, <1>6, <1>7 DEF Places, Stopped
<1>11. OneAuthor'
  <2>1. \A i \in 1..Boundary : i \in Layers
    BY <1>2
  <2> QED BY <1>1, <1>4, <1>5, <1>6, <1>7, <2>1 DEF OneAuthor
<1>12. Mirrored'
  <2>1. InStep(path', Edge)
    <3>1. \A i \in 1..Edge : i \in Layers /\ i # Boundary
      BY <1>2, <1>8
    <3> QED BY <1>1, <1>6, <3>1 DEF Mirrored, InStep
  <2>2. Outer = "server" /\ mode[Outer] \notin {"return", "done"}
    BY <1>3 DEF Outer
  <2> QED BY <1>1, <1>3, <1>5, <1>6, <1>8, <2>1, <2>2 DEF Mirrored
<1>13. Recovering'
  <2>1. Quiet(path, at["handler"]) => Quiet(path', at["handler"])
    <3>1. \A i \in 1..at["handler"] : i \in Layers /\ \A j \in 1..(i - 1) : j \in Layers
      BY <1>2
    <3> QED BY <1>6, <3>1 DEF Quiet
  <2>2. BareAnswer => BareAnswer'
    <3>1. \A i \in 1..Boundary : i \in Layers
      BY <1>2
    <3> QED BY <1>5, <1>6, <1>7, <3>1 DEF BareAnswer
  <2> QED BY <1>1, <1>3, <1>4, <1>5, <1>6, <1>7, <2>1, <2>2 DEF Recovering
<1> QED BY <1>9, <1>10, <1>11, <1>12, <1>13 DEF IInv

\* The 503, unless a response had been begun.
LEMMA TimeoutAnswers ==
    ASSUME IInv, TimeoutAnswer
    PROVE  IInv'
<1> DEFINE N == Len(order)
           k == Boundary - 1
<1>1. TypeOK /\ Places /\ OneAuthor /\ Mirrored /\ Recovering
  BY DEF IInv
<1>2. /\ N \in Nat /\ Layers = 1..N /\ Boundary \in 0..N
      /\ at \in [Goroutines -> 0..N] /\ "handler" \in Goroutines /\ "server" \in Goroutines
      /\ path \in Paths(N)
  BY <1>1, Setting
<1>3. /\ mode["server"] = "answer" /\ TimedOut /\ Boundary > 0
      /\ UNCHANGED <<order, entry, clean, proc>>
  BY <1>1 DEF TimeoutAnswer, Places, TimedOut
<1>4. /\ k \in 0..N /\ Boundary \in Layers
      /\ at' \in [Goroutines -> 0..N]
      /\ at'["handler"] = at["handler"] /\ at'["server"] = k
      /\ mode' \in [Goroutines -> {"run", "select", "answer", "return", "panic", "recovering",
                                   "done", "aborted"}]
      /\ mode'["handler"] = mode["handler"] /\ mode'["server"] = "return"
  BY <1>1, <1>2, <1>3 DEF TimeoutAnswer, TypeOK, Goroutines
<1>5. \/ path.layer[Boundary].wrote /\ path' = path
      \/ ~path.layer[Boundary].wrote /\ path' = Respond(path, k, 503, "timeout")
  BY DEF TimeoutAnswer
<1>6. \/ path.layer[Boundary].wrote /\ path' = path
      \/ /\ ~path.layer[Boundary].wrote
         /\ Advances(N, path, path', k, "timeout")
         /\ path'.base.early = path.base.early
         /\ Open(path, 1, k) /\ path.base.status = 0 /\ ~path.base.hijacked =>
              /\ path'.base.status = 503
              /\ path'.base.authors = path.base.authors \cup {"timeout"}
  BY <1>2, <1>4, <1>5, RespondAdvances
<1>7. /\ Boundary' = Boundary /\ Outer' = Outer /\ Layers' = Layers /\ Guarded' = Guarded
  BY <1>3, Kept
<1>8. /\ path' \in Paths(N)
      /\ \A i \in Layers :
           /\ path'.layer[i].timedOut = path.layer[i].timedOut
           /\ path.layer[i].wrote => path'.layer[i].wrote
           /\ path.layer[i].status # 0 => path'.layer[i].status # 0
           /\ ~path'.layer[i].wrote => path'.layer[i] = path.layer[i]
      /\ path'.base.hijacked = path.base.hijacked
      /\ path'.base.bypassed = path.base.bypassed
      /\ path'.base.early = path.base.early
      /\ path.base.status # 0 => path'.base.status = path.base.status
  BY <1>2, <1>6 DEF Advances
<1>9. TimedOut' /\ ~Ended /\ Ended'
  BY <1>3, <1>4, <1>7, <1>8 DEF TimedOut, Ended
<1>10. \A i \in Layers : path.layer[i].timedOut => i = Boundary
  BY <1>1 DEF Places, Stopped
<1>11. TypeOK'
  <2>1. path' \in [layer : [Layers -> Wrappers], base : Responses]
    BY <1>2, <1>8 DEF Paths
  <2> QED BY <1>1, <1>3, <1>4, <1>7, <1>8, <2>1
          DEF TypeOK, Wrappers, Responses, Goroutines
<1>12. Places'
  <2>1. \A i \in Layers : path'.layer[i].timedOut => i = Boundary
    BY <1>8, <1>10
  <2>2. at'["server"] < Boundary
    BY <1>2, <1>4
  <2> QED BY <1>1, <1>3, <1>4, <1>7, <1>9, <2>1, <2>2 DEF Places, Stopped
<1>13. OneAuthor'
  <2>1. \A i \in 1..Boundary : i \in Layers
    BY <1>2
  <2>2. CASE path'.base.authors = path.base.authors
    <3>1. path'.base.status = 0 => path.base.status = 0
      BY <1>8
    <3> QED BY <1>1, <1>4, <1>7, <1>8, <1>9, <2>1, <2>2, <3>1 DEF OneAuthor
  <2>3. CASE path'.base.authors # path.base.authors
    <3>1. /\ ~path.layer[Boundary].wrote
          /\ path'.base.authors = path.base.authors \cup {"timeout"}
          /\ path'.base.status # 0
      BY <1>6, <2>3 DEF Advances
    <3>2. Boundary \in 1..Boundary
      BY <1>2, <1>3
    <3>3. "handler" \notin path.base.authors /\ "recovery" \notin path.base.authors
      BY <1>1, <1>4, <3>1, <3>2 DEF OneAuthor
    <3>4. path.base.authors \subseteq {"handler", "recovery", "timeout"}
      BY <1>1 DEF TypeOK
    <3>5. path'.base.authors = {"timeout"}
      BY <3>1, <3>3, <3>4
    <3> QED BY <1>9, <3>1, <3>5 DEF OneAuthor
  <2> QED BY <2>2, <2>3
<1>14. Mirrored'
  <2>1. Edge = k /\ Edge' = k
    BY <1>3, <1>4, <1>7, <1>9 DEF Edge
  <2>2. InStep(path', k)
    BY <1>1, <1>4, <1>6, <2>1 DEF Mirrored, Advances
  <2>3. Outer = "server" /\ mode[Outer] \notin {"return", "done"}
    BY <1>3 DEF Outer
  <2>4. \A i \in Layers : order[i] = "log" /\ ~path'.layer[i].wrote => path'.layer[i].status = 200
    BY <1>1, <1>8 DEF Mirrored
  <2>5. path'.base.hijacked => path'.base.bypassed
    BY <1>1, <1>8 DEF Mirrored
  <2> QED
    BY <1>1, <1>3, <1>7, <2>1, <2>2, <2>3, <2>4, <2>5 DEF Mirrored
<1>15. Recovering'
  <2> SUFFICES ASSUME Guarded
               PROVE  /\ ~path'.base.bypassed
                      /\ Quiet(path', at["handler"])
                      /\ ~path'.base.early => path'.base.status # 0
                      /\ clean =>
                          /\ ~path'.base.early
                          /\ mode["handler"] # "run"
                          /\ \/ BareAnswer'
                             \/ path'.base.status = 500 /\ path'.base.authors = {"recovery"}
                             \/ path'.base.status = 503 /\ path'.base.authors = {"timeout"}
    BY <1>3, <1>4, <1>7, <1>9 DEF Recovering
  <2>1. ~path.base.bypassed /\ ~path.base.hijacked /\ ~path'.base.bypassed
    BY <1>1, <1>8 DEF Recovering, Mirrored
  <2>2. at["handler"] \in k..N /\ Boundary \in 1..at["handler"]
    BY <1>1, <1>2, <1>3 DEF Places, Stopped
  <2>3. Quiet(path, at["handler"])
    BY <1>1 DEF Recovering
  <2>4. Quiet(path', at["handler"])
    BY <1>6, <2>1, <2>2, <2>3 DEF Advances
  <2>5. ASSUME ~path.base.early, path.base.status = 0
        PROVE  path'.base.status = 503 /\ path'.base.authors = {"timeout"}
    <3>1. \A i \in 1..Boundary : ~path.layer[i].wrote
      <4>1. \A i \in 1..Boundary : /\ i \in 1..at["handler"]
                                  /\ \A j \in 1..(i - 1) : j \in Layers /\ j # Boundary
        BY <1>2, <2>2
      <4> QED BY <1>10, <2>3, <2>5, <4>1 DEF Quiet
    <3>2. Open(path, 1, k)
      <4>1. \A i \in 1..k : i \in Layers /\ i # Boundary /\ i \in 1..Boundary
        BY <1>2
      <4> QED BY <1>10, <3>1, <4>1 DEF Open
    <3>3. ~path.layer[Boundary].wrote
      BY <1>2, <1>3, <3>1
    <3>4. path.base.authors = {}
      BY <1>1, <2>5 DEF OneAuthor
    <3> QED BY <1>6, <2>1, <2>5, <3>2, <3>3, <3>4
  <2>6. ~path'.base.early => path'.base.status # 0
    BY <1>8, <2>5
  <2>7. ASSUME clean
        PROVE  /\ ~path'.base.early
               /\ mode["handler"] # "run"
               /\ \/ BareAnswer'
                  \/ path'.base.status = 500 /\ path'.base.authors = {"recovery"}
                  \/ path'.base.status = 503 /\ path'.base.authors = {"timeout"}
    <3>1. /\ ~path.base.early /\ mode["handler"] # "run"
          /\ \/ path.base.status = 0
             \/ BareAnswer
             \/ path.base.status = 500 /\ path.base.authors = {"recovery"}
             \/ path.base.status = 503 /\ path.base.authors = {"timeout"}
      BY <1>1, <2>7 DEF Recovering
    <3>2. CASE path.base.status = 0
      BY <1>8, <2>5, <3>1, <3>2
    <3>3. CASE path.base.status = 500 /\ path.base.authors = {"recovery"}
      <4>1. path.layer[Boundary].wrote
        BY <1>1, <1>2, <1>3, <3>3 DEF OneAuthor
      <4> QED BY <1>6, <3>1, <3>3, <4>1
    <3>4. CASE BareAnswer
      <4>1. path.layer[Boundary].wrote
        BY <1>2, <1>3, <3>4 DEF BareAnswer
      <4>2. path' = path
        BY <1>6, <4>1
      <4> QED BY <1>7, <1>9, <3>1, <3>4, <4>2 DEF BareAnswer
    <3>5. path.base.authors # {"timeout"}
      BY <1>1, <1>9 DEF OneAuthor
    <3> QED BY <3>1, <3>2, <3>3, <3>4, <3>5
  <2> QED BY <2>1, <2>4, <2>6, <2>7
<1> QED BY <1>11, <1>12, <1>13, <1>14, <1>15 DEF IInv

\* net/http ends the response, or drops the connection.
LEMMA ResponseEnds ==
    ASSUME IInv, Finish
    PROVE  IInv'
<1> DEFINE N == Len(order)
<1>1. TypeOK /\ Places /\ OneAuthor /\ Mirrored /\ Recovering
  BY DEF IInv
<1>2. /\ N \in Nat /\ Layers = 1..N /\ Boundary \in 0..N
      /\ at \in [Goroutines -> 0..N] /\ "handler" \in Goroutines /\ "server" \in Goroutines
      /\ path \in Paths(N) /\ Outer \in Goroutines
      /\ Outer = IF Boundary = 0 THEN "handler" ELSE "server"
  BY <1>1, Setting DEF Outer, Goroutines
<1>3. at[Outer] = 0 /\ UNCHANGED <<order, at, entry, clean, proc>>
  BY DEF Finish
<1>4. /\ Boundary' = Boundary /\ Outer' = Outer /\ Layers' = Layers /\ Guarded' = Guarded
  BY <1>3, Kept
<1>5. CASE mode[Outer] = "return"
  <2>1. /\ mode' \in [Goroutines -> {"run", "select", "answer", "return", "panic", "recovering",
                                     "done", "aborted"}]
        /\ mode'[Outer] = "done"
        /\ \A g \in Goroutines : g # Outer => mode'[g] = mode[g]
    BY <1>1, <1>2, <1>5 DEF Finish, TypeOK, Goroutines
  <2>2. /\ path' \in Paths(N) /\ path'.layer = path.layer
        /\ path'.base = BaseStatus(path.base, 200)
    <3>1. path' = [path EXCEPT !.base = BaseStatus(path.base, 200)]
      BY <1>5 DEF Finish
    <3>2. path.base \in Responses /\ BaseStatus(path.base, 200) \in Responses
      BY <1>2, BaseStatusFacts, StatusesAreFinal DEF Paths
    <3> QED BY <3>1, <3>2, <1>2 DEF Paths
  <2>3. /\ path'.base.bytes = path.base.bytes /\ path'.base.authors = path.base.authors
        /\ path'.base.hijacked = path.base.hijacked
        /\ path'.base.bypassed = path.base.bypassed
        /\ path'.base.early = path.base.early
        /\ path.base.hijacked => path'.base = path.base
        /\ path.base.status # 0 => path'.base = path.base
        /\ ~path.base.hijacked => path'.base.status = Final(path.base)
    <3>1. path.base \in Responses
      BY <1>2 DEF Paths
    <3> QED BY <2>2, <3>1, BaseStatusFacts, StatusesAreFinal DEF Final
  <2>4. (TimedOut' <=> TimedOut) /\ (Ended' <=> Ended)
    BY <1>1, <1>2, <1>4, <1>5, <2>1, <2>2 DEF TimedOut, Ended, Places, Goroutines
  <2>5. Edge' = Edge /\ Edge = 0
    <3>1. Boundary > 0 => Ended
      BY <1>2, <1>5 DEF Ended
    <3> QED BY <1>2, <1>3, <1>4, <2>4, <3>1 DEF Edge
  <2>6. TypeOK'
    <3>1. path' \in [layer : [Layers -> Wrappers], base : Responses]
      BY <1>2, <2>2 DEF Paths
    <3> QED BY <1>1, <1>3, <1>4, <2>1, <2>2, <3>1 DEF TypeOK, Wrappers, Responses, Goroutines
  <2>7. Places'
    <3>1. CASE Boundary = 0
      <4>1. mode'["handler"] = "done" /\ mode'["server"] = mode["server"]
        BY <1>2, <2>1, <3>1 DEF Goroutines
      <4> QED BY <1>1, <1>3, <1>4, <2>2, <2>4, <3>1, <4>1 DEF Places, Stopped
    <3>2. CASE Boundary # 0
      <4>1. mode'["server"] = "done" /\ mode'["handler"] = mode["handler"]
        BY <1>2, <2>1, <3>2 DEF Goroutines
      <4> QED BY <1>1, <1>3, <1>4, <2>2, <2>4, <3>2, <4>1 DEF Places, Stopped
    <3> QED BY <3>1, <3>2
  <2>8. OneAuthor'
    <3>1. mode'["handler"] \in {"run", "panic", "recovering"} =>
            mode'["handler"] = mode["handler"]
      BY <1>2, <2>1 DEF Goroutines
    <3>2. path'.base.status = 0 => path.base.status = 0
      BY <2>3
    <3> QED BY <1>1, <1>4, <2>2, <2>3, <2>4, <3>1, <3>2 DEF OneAuthor
  <2>9. Mirrored'
    <3>1. InStep(path', 0)
      BY DEF InStep
    <3>2. path.base.bypassed \/ Final(path'.base) = Final(path.base)
      BY <1>1, <2>3, StatusesAreFinal DEF Mirrored, Final
    <3> QED BY <1>1, <1>3, <1>4, <2>1, <2>2, <2>3, <2>5, <3>1, <3>2 DEF Mirrored
  <2>10. Recovering'
    <3> SUFFICES ASSUME Guarded
                 PROVE  /\ ~path.base.bypassed
                        /\ path'.base.status # 0
                        /\ clean =>
                            /\ ~path.base.early
                            /\ mode'["handler"] # "run"
                            /\ \/ BareAnswer'
                               \/ path'.base.status = 500 /\ path'.base.authors = {"recovery"}
                               \/ path'.base.status = 503 /\ path'.base.authors = {"timeout"}
      BY <1>3, <1>4, <2>3, <2>4 DEF Recovering, Quiet
    <3>1. ~path.base.bypassed /\ ~path.base.hijacked
      BY <1>1 DEF Recovering, Mirrored
    <3>2. path'.base.status # 0
      BY <2>3, <3>1 DEF Final
    <3>3. ASSUME clean
          PROVE  path.base.status # 0
      <4>1. CASE Boundary = 0
        BY <1>1, <1>2, <1>5, <3>3, <4>1 DEF Recovering, Places, TimedOut, BareAnswer
      <4>2. CASE Boundary # 0
        BY <1>1, <1>2, <1>5, <3>3, <4>2 DEF Recovering, Ended, BareAnswer
      <4> QED BY <4>1, <4>2
    <3>4. mode'["handler"] = "run" => mode["handler"] = "run"
      BY <1>2, <2>1 DEF Goroutines
    <3>5. BareAnswer => BareAnswer'
      <4>1. mode["handler"] = "recovering" => mode'["handler"] = "recovering"
        BY <1>2, <1>5, <2>1 DEF Goroutines
      <4> QED BY <1>4, <2>2, <2>3, <2>4, <4>1 DEF BareAnswer
    <3> QED BY <1>1, <2>3, <3>1, <3>2, <3>3, <3>4, <3>5 DEF Recovering
  <2> QED BY <2>6, <2>7, <2>8, <2>9, <2>10 DEF IInv
<1>6. CASE mode[Outer] = "panic"
  <2>1. Outer = "handler" /\ Boundary = 0 /\ mode["handler"] = "panic"
    BY <1>1, <1>2, <1>6 DEF Places, Stopped
  <2>2. /\ path' = path
        /\ mode' \in [Goroutines -> {"run", "select", "answer", "return", "panic", "recovering",
                                     "done", "aborted"}]
        /\ mode'["handler"] = "aborted" /\ mode'["server"] = mode["server"]
    BY <1>1, <1>2, <1>6, <2>1 DEF Finish, TypeOK, Goroutines
  <2>3. (TimedOut' <=> TimedOut) /\ (Ended' <=> Ended) /\ Edge' = Edge
    BY <1>3, <1>4, <2>2 DEF TimedOut, Ended, Edge
  <2>4. ~Guarded
    BY <1>1, <1>2, <1>3, <2>1 DEF Guarded, Places
  <2>5. TypeOK'
    BY <1>1, <1>3, <1>4, <2>2 DEF TypeOK, Goroutines
  <2>6. Places'
    BY <1>1, <1>3, <1>4, <2>1, <2>2, <2>3 DEF Places, Stopped
  <2>7. OneAuthor'
    BY <1>1, <1>4, <2>1, <2>2, <2>3 DEF OneAuthor
  <2>8. Mirrored'
    BY <1>1, <1>3, <1>4, <1>6, <2>2, <2>3 DEF Mirrored
  <2>9. Recovering'
    BY <1>4, <2>4 DEF Recovering
  <2> QED BY <2>5, <2>6, <2>7, <2>8, <2>9 DEF IInv
<1> QED BY <1>5, <1>6 DEF Finish

\* Every step keeps the invariant.
LEMMA NextIInv == IInv /\ [Next]_vars => IInv'
<1> SUFFICES ASSUME IInv, [Next]_vars
             PROVE  IInv'
  OBVIOUS
<1>1. TypeOK /\ Len(order) \in Nat /\ path \in Paths(Len(order)) /\ proc \in {"up", "crashed"}
  BY Setting DEF IInv, TypeOK
<1>2. CASE HandlerWriteHeader
  <2>1. PICK c \in Codes : HandlerDoes(WriteHeader(path, Len(order), c))
    BY <1>2 DEF HandlerWriteHeader
  <2>2. Advances(Len(order), path, path', Len(order), "handler")
    BY <1>1, <2>1, WriteHeaderAdvances DEF HandlerDoes, Statuses
  <2> QED BY <2>1, <2>2, HandlerSends DEF HandlerDoes, HandlerRuns
<1>3. CASE HandlerWrite
  <2>1. Advances(Len(order), path, path', Len(order), "handler")
    BY <1>1, <1>3, WriteAdvances DEF HandlerWrite, HandlerDoes
  <2> QED BY <1>3, <2>1, HandlerSends DEF HandlerWrite, HandlerDoes, HandlerRuns
<1>4. CASE HandlerFlush
  BY <1>4, HandlerGoesPast DEF HandlerFlush, HandlerDoes, HandlerRuns
<1>5. CASE HandlerHijack
  BY <1>5, HandlerGoesPast DEF HandlerHijack, HandlerDoes, HandlerRuns
<1>6. CASE HandlerReturn \/ HandlerPanic
  BY <1>6, HandlerEnds
<1>7. CASE \E g \in Goroutines : LeaveLog(g) \/ RecoveryReturn(g) \/ Recover(g) \/ RecoverBody(g)
  BY <1>7, LayerIsLeft, PanicIsRecovered, RecoveryAnswers
<1>8. CASE SelectDone
  BY <1>8, DoneIsSelected
<1>9. CASE SelectTimeout
  BY <1>9, TimeoutIsSelected
<1>10. CASE TimeoutAnswer
  BY <1>10, TimeoutAnswers
<1>11. CASE PanicCrash
  BY <1>11, NothingChanges DEF PanicCrash
<1>12. CASE Finish
  BY <1>12, ResponseEnds
<1>13. CASE UNCHANGED vars
  BY <1>1, <1>13, NothingChanges DEF vars
<1> QED
  BY <1>2, <1>3, <1>4, <1>5, <1>6, <1>7, <1>8, <1>9, <1>10, <1>11, <1>12, <1>13 DEF Next

-----------------------------------------------------------------------------
\* The end of a response.

\* After the end nobody reaches net/http: the handler's goroutine has stopped at
\* the timeout layer, or the layer lets nothing through.
LEMMA AnswerStays ==
    ASSUME IInv, [Next]_vars, Answered
    PROVE  path'.base = path.base
<1> DEFINE N == Len(order)
<1>1. TypeOK /\ Places
  BY DEF IInv
<1>2. /\ N \in Nat /\ Layers = 1..N /\ Boundary \in 0..N
      /\ Boundary > 0 => order[Boundary] = "timeout"
      /\ at \in [Goroutines -> 0..N]
      /\ path \in Paths(N)
  BY <1>1, Setting
<1>3. CASE Boundary = 0
  <2>1. mode["handler"] = "done" /\ mode["server"] = "select" /\ Outer = "handler"
    BY <1>1, <1>3 DEF Answered, Outer, Places, Ended, TimedOut
  <2> QED
    BY <1>3, <2>1 DEF Next, vars, HandlerWriteHeader, HandlerWrite, HandlerFlush, HandlerHijack,
         HandlerDoes, HandlerRuns, HandlerReturn, HandlerPanic, LeaveLog, RecoveryReturn,
         Recover, RecoverBody, Leaves, Goroutines, SelectDone, SelectTimeout, Selects, TimeoutAnswer,
         PanicCrash, Finish
<1>4. CASE Boundary > 0
  <2>1. /\ mode["server"] = "done" /\ Outer = "server"
        /\ TimedOut \/ (at["handler"] = Boundary /\ mode["handler"] \notin {"run", "recovering"})
    BY <1>1, <1>4 DEF Answered, Outer, Places, Ended, Stopped
  <2>2. \A k \in Boundary..N : TimedOut => ~Passes(path, 1, k)
    <3>1. \A k \in Boundary..N : Boundary \in 1..k
      BY <1>2, <1>4
    <3> QED BY <3>1 DEF TimedOut, Passes
  <2>3. CASE HandlerWriteHeader
    <3>1. PICK c \in Codes : HandlerDoes(WriteHeader(path, N, c))
      BY <2>3 DEF HandlerWriteHeader
    <3>2. Advances(N, path, path', N, "handler") /\ mode["handler"] = "run"
      BY <1>2, <3>1, WriteHeaderAdvances DEF HandlerDoes, HandlerRuns, Statuses
    <3> QED BY <1>2, <2>1, <2>2, <3>2 DEF Advances
  <2>4. CASE HandlerWrite
    <3>1. Advances(N, path, path', N, "handler") /\ mode["handler"] = "run"
      BY <1>2, <2>4, WriteAdvances DEF HandlerWrite, HandlerDoes, HandlerRuns
    <3> QED BY <1>2, <2>1, <2>2, <3>1 DEF Advances
  <2>5. CASE HandlerFlush \/ HandlerHijack
    <3>1. ~Transparent(N)
      BY <1>2, <1>4 DEF Transparent
    <3> QED BY <2>5, <3>1 DEF HandlerFlush, HandlerHijack, HandlerDoes, Flush, Hijack
  <2>6. ASSUME NEW g \in Goroutines, Recover(g)
        PROVE  path'.base = path.base
    <3>1. g = "handler" /\ at["handler"] > Boundary /\ at["handler"] \in 0..N
      BY <1>2, <2>1, <2>6 DEF Recover, Leaves, Floor, Goroutines
    <3>2. TimedOut
      BY <1>2, <2>1, <3>1
    <3> DEFINE k == at["handler"] - 1
    <3>3. k \in Boundary..N /\ k \in 0..N
      BY <1>2, <3>1
    <3>4. path' = path \/ path' = WriteHeader(path, k, 500)
      BY <2>6, <3>1 DEF Recover
    <3> HIDE DEF k
    <3>5. path' = path \/ Advances(N, path, path', k, "recovery")
      BY <1>2, <3>3, <3>4, ErrorStatusAdvances
    <3> QED BY <2>2, <3>2, <3>3, <3>5 DEF Advances
  <2>7. CASE \/ HandlerReturn \/ HandlerPanic \/ PanicCrash \/ UNCHANGED vars
             \/ \E g \in Goroutines : LeaveLog(g) \/ RecoveryReturn(g)
    BY <2>7 DEF HandlerReturn, HandlerPanic, PanicCrash, vars, LeaveLog, RecoveryReturn
  <2>8. CASE SelectDone \/ SelectTimeout \/ TimeoutAnswer \/ Finish
    BY <2>1, <2>8 DEF SelectDone, SelectTimeout, Selects, TimeoutAnswer, Finish
  <2>9. ASSUME NEW g \in Goroutines, RecoverBody(g)
        PROVE  path'.base = path.base
    <3> DEFINE k == at["handler"]
    <3>1. /\ mode["handler"] = "recovering" /\ k \in Boundary..N /\ k \in 0..N
          /\ path' = Write(path, k, "recovery")
      BY <1>1, <1>2, <2>1, <2>9 DEF RecoverBody, Goroutines, Places
    <3>2. Advances(N, path, path', k, "recovery")
      BY <1>2, <3>1, WriteAdvances
    <3> QED BY <2>1, <2>2, <3>1, <3>2 DEF Advances
  <2> QED BY <2>3, <2>4, <2>5, <2>6, <2>7, <2>8, <2>9 DEF Next
<1> QED BY <1>2, <1>3, <1>4

\* Nor does anybody log outside the timeout layer: the goroutine that does has
\* come to its end.
LEMMA EntriesStay ==
    ASSUME IInv, [Next]_vars, Answered, NEW i \in Layers, Boundary = 0 \/ i < Boundary
    PROVE  entry'[i] = entry[i]
<1>1. TypeOK /\ Places
  BY DEF IInv
<1>2. /\ Layers = 1..Len(order) /\ Len(order) \in Nat /\ Boundary \in 0..Len(order)
      /\ at \in [Goroutines -> 0..Len(order)] /\ Goroutines = {"handler", "server"}
  BY <1>1, Setting DEF Goroutines
<1>3. ASSUME NEW g \in Goroutines, LeaveLog(g)
      PROVE  entry'[i] = entry[i]
  <2>1. CASE Boundary = 0
    BY <1>1, <1>2, <1>3, <2>1 DEF Answered, Outer, Places, Ended, LeaveLog, Leaves
  <2>2. CASE Boundary # 0
    <3>1. mode["server"] = "done"
      BY <2>2 DEF Answered, Outer
    <3>2. g = "handler" /\ at["handler"] > Boundary
      BY <1>2, <1>3, <3>1 DEF LeaveLog, Leaves, Floor
    <3>3. at["handler"] # i
      BY <1>2, <2>2, <3>2
    <3>4. entry \in [Layers -> [status : Statuses \cup {0}, bytes : Nat]]
      BY <1>1 DEF TypeOK
    <3> QED BY <1>3, <3>2, <3>3, <3>4 DEF LeaveLog
  <2> QED BY <2>1, <2>2
<1>4. CASE UNCHANGED entry
  BY <1>4
<1> QED
  BY <1>3, <1>4
  DEF Next, vars, HandlerWriteHeader, HandlerWrite, HandlerFlush, HandlerHijack, HandlerDoes,
      HandlerReturn, HandlerPanic, RecoveryReturn, Recover, RecoverBody, SelectDone,
      SelectTimeout, TimeoutAnswer, PanicCrash, Finish

\* A response net/http has ended has a status, unless its connection was taken.
Completed == Answered => path.base.status # 0 \/ path.base.hijacked

LEMMA NextCompleted == IInv /\ Completed /\ [Next]_vars => Completed'
<1> SUFFICES ASSUME IInv, Completed, [Next]_vars, Answered'
             PROVE  path'.base.status # 0 \/ path'.base.hijacked
  BY DEF Completed
<1>1. CASE Answered
  BY <1>1, AnswerStays DEF Completed
<1>2. CASE ~Answered
  <2>1. TypeOK /\ path \in Paths(Len(order))
    BY Setting DEF IInv
  <2>2. order' = order
    BY DEF Next, vars, HandlerWriteHeader, HandlerWrite, HandlerFlush, HandlerHijack,
         HandlerDoes, HandlerReturn, HandlerPanic, LeaveLog, RecoveryReturn,
         Recover, RecoverBody, SelectDone, SelectTimeout, TimeoutAnswer, PanicCrash, Finish
  <2>3. Outer' = Outer /\ Outer \in Goroutines
    BY <2>2, Kept DEF Outer, Goroutines
  <2>4. mode[Outer] # "done" /\ mode'[Outer] = "done"
    BY <1>2, <2>3 DEF Answered
  <2>5. mode \in [Goroutines -> {"run", "select", "answer", "return", "panic", "recovering", "done", "aborted"}]
    BY <2>1 DEF TypeOK
  <2>6. Finish
    BY <2>3, <2>4, <2>5 DEF Next, vars, HandlerWriteHeader, HandlerWrite, HandlerFlush,
         HandlerHijack, HandlerDoes, HandlerReturn, HandlerPanic, LeaveLog, RecoveryReturn,
         Recover, RecoverBody, SelectDone, SelectTimeout, TimeoutAnswer, PanicCrash, Goroutines
  <2>7. path' = [path EXCEPT !.base = BaseStatus(path.base, 200)]
    BY <2>3, <2>4, <2>5, <2>6 DEF Finish
  <2>8. path'.base = BaseStatus(path.base, 200)
    BY <2>1, <2>7 DEF Paths
  <2>9. path.base \in Responses
    BY <2>1 DEF Paths
  <2>10. 200 \in Statuses /\ 200 \notin Informational
    BY StatusesAreFinal
  <2>11. /\ path.base.status # 0 \/ path.base.hijacked => path'.base = path.base
         /\ path.base.status = 0 /\ ~path.base.hijacked => path'.base.status = 200
    BY <2>8, <2>9, <2>10, BaseStatusFacts
  <2> QED BY <2>11
<1> QED BY <1>1, <1>2

LEMMA Invariance == Spec => [](IInv /\ Completed)
<1>1. Init => IInv /\ Completed
  BY InitIInv DEF Init, Completed, Answered, Outer
<1>2. IInv /\ Completed /\ [Next]_vars => (IInv /\ Completed)'
  BY NextIInv, NextCompleted
<1> QED BY <1>1, <1>2, PTL DEF Spec

-----------------------------------------------------------------------------
\* The theorems.

\* Type correctness: no nesting of the wrappers leaves the states modelled.
THEOREM TypeCorrect == Spec => []TypeOK
<1>1. IInv => TypeOK
  BY DEF IInv
<1> QED BY <1>1, Invariance, PTL

\* The body of a response has one author, in every nesting of any number of
\* log and recovery layers and at most one timeout layer: no error response is
\* appended to what a handler has begun.
THEOREM BodiesAreNotMixed == Spec => []NoMixedBody
<1>1. ASSUME IInv
      PROVE  NoMixedBody
  <2>1. \A a, b \in path.base.authors : a = b
    BY <1>1 DEF IInv, OneAuthor
  <2>2. CASE path.base.authors = {}
    BY <2>2, FS_EmptySet DEF NoMixedBody
  <2>3. CASE path.base.authors # {}
    <3>1. PICK a : path.base.authors = {a}
      BY <2>1, <2>3
    <3>2. Cardinality({a}) = 1
      BY FS_Singleton
    <3> QED BY <3>1, <3>2 DEF NoMixedBody
  <2> QED BY <2>2, <2>3
<1> QED BY <1>1, Invariance, PTL

\* A panic before anything was sent gets the 500, or the 503 of a timeout that
\* came first, wherever the recovery layer is on the handler's goroutine; and if
\* the deadline passes while recovery answers, the 500 without its body
\* (handlePanic, writeErrorResponse).
THEOREM PanicsAreAnswered == Spec => []PanicIsAnswered
<1>1. ASSUME IInv
      PROVE  PanicIsAnswered
  <2> SUFFICES ASSUME Answered, clean, Guarded
               PROVE  \/ /\ path.base.status = 500
                         /\ path.base.authors = {"recovery"} \/ (path.base.authors = {} /\ TimedOut)
                      \/ path.base.status = 503 /\ path.base.authors = {"timeout"}
    BY DEF PanicIsAnswered
  <2>1. TypeOK /\ Places /\ Recovering
    BY <1>1 DEF IInv
  <2>2. CASE Boundary = 0
    BY <2>1, <2>2 DEF Answered, Outer, Recovering, BareAnswer, Places, TimedOut
  <2>3. CASE Boundary # 0
    <3>1. Ended /\ (mode["handler"] = "recovering" => TimedOut)
      BY <2>1, <2>3 DEF Answered, Outer, Ended, Places, Stopped
    <3> QED BY <2>1, <3>1 DEF Recovering, BareAnswer
  <2> QED BY <2>2, <2>3
<1> QED BY <1>1, Invariance, PTL

\* An entry tells the size and the status the client received, unless the
\* handler went past mwlog's writer or began with a 1xx status.
THEOREM LogsMatch == Spec => []LogMatchesClient
<1>1. ASSUME IInv, Completed
      PROVE  LogMatchesClient
  <2>1. Mirrored
    BY <1>1 DEF IInv
  <2>2. Answered => path.base.bypassed \/ path.base.status # 0
    BY <1>1, <2>1 DEF Completed, Mirrored
  <2> QED BY <2>1, <2>2 DEF LogMatchesClient, Mirrored, Final
<1> QED BY <1>1, Invariance, PTL

\* A response that net/http has ended stays as it is, and so do the entries that
\* the log layers outside the timeout have written, whatever a handler that
\* outlives its request, or the recovery of its late panic, does.
THEOREM FinishedStaysFinal == Spec => FinishedIsFinal
<1>1. IInv /\ [Next]_vars =>
        [Answered =>
           /\ path'.base = path.base
           /\ \A i \in Layers : Boundary = 0 \/ i < Boundary => entry'[i] = entry[i]]_vars
  BY AnswerStays, EntriesStay
<1> QED BY <1>1, Invariance, PTL DEF Spec, FinishedIsFinal
=============================================================================
