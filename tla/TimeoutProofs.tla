--------------------------- MODULE TimeoutProofs ---------------------------
(***************************************************************************)
(* Proofs about Timeout, for every set of status codes, with and without   *)
(* panicking handlers.  The argument: tw.mu is held exactly while the      *)
(* handler is inside WriteHeader or Write (MutexHeld), so the timeout      *)
(* branch reads wroteHeader between two of the handler's operations;       *)
(* Phases says how far the two goroutines can be apart; Remembered says    *)
(* that the flags agree with what has been sent.  Together they are        *)
(* inductive, and the three theorems about the response follow from them.  *)
(***************************************************************************)
EXTENDS Timeout, TLAPS

\* A request starts in agreement: nothing sent, nothing remembered.
LEMMA InitIInv == Init => IInv
<1> SUFFICES ASSUME Init
             PROVE  IInv
    OBVIOUS
<1>1. TypeOK
  <2>1. base \in [status : Codes \cup {0, 200, 503}, by : Authors \cup {"none"},
                 headers : SUBSET Authors, body : SUBSET Authors, early : Informational \cup {0}]
    BY DEF Init, NothingSent, Authors
  <2> QED BY <2>1 DEF Init, TypeOK
<1>2. MutexHeld
    BY DEF Init, MutexHeld
<1>3. Phases
    BY DEF Init, Phases
<1>4. Remembered
    BY DEF Init, Remembered, NothingSent
<1>5. OneAuthor
    BY DEF Init, OneAuthor, NothingSent
<1> QED
    BY <1>1, <1>2, <1>3, <1>4, <1>5 DEF IInv

\* What the server's writer may hold.
Responses == [status : Codes \cup {0, 200, 503}, by : Authors \cup {"none"},
              headers : SUBSET Authors, body : SUBSET Authors, early : Informational \cup {0}]

\* The operations of the server's writer keep it a response.
LEMMA BaseOps ==
    ASSUME NEW b \in Responses, NEW who \in Authors, NEW c \in Codes \cup {0, 200, 503}
    PROVE  /\ BaseWriteHeader(b, c, who) \in Responses
           /\ BaseWrite(b, who) \in Responses
           /\ BaseSetHeader(b, who) \in Responses
<1>1. BaseWriteHeader(b, c, who) \in Responses
  BY DEF Responses, BaseWriteHeader
<1>2. BaseWriteHeader(b, 200, who) \in Responses
  BY DEF Responses, BaseWriteHeader
<1>3. \A x \in Responses : AddBody(x, who) \in Responses
  BY DEF Responses, AddBody
<1>4. BaseSetHeader(b, who) \in Responses
  BY DEF Responses, BaseSetHeader
<1> QED BY <1>1, <1>2, <1>3, <1>4 DEF BaseWrite

\* The fields of what they return.
LEMMA BaseFields ==
    ASSUME NEW b, NEW who, NEW c
    PROVE  /\ LET a == AddBody(b, who)
              IN  /\ a.status = b.status /\ a.by = b.by /\ a.body = b.body \cup {who}
                  /\ a.early = b.early
           /\ LET h == BaseSetHeader(b, who)
              IN  /\ h.status = b.status /\ h.by = b.by /\ h.body = b.body
                  /\ h.early = b.early
           /\ b.status # 0 => BaseWriteHeader(b, c, who) = b
           /\ b.status = 0 /\ c \in Informational =>
                LET n == BaseWriteHeader(b, c, who)
                IN  n.status = 0 /\ n.by = b.by /\ n.body = b.body /\ n.early = c
           /\ b.status = 0 /\ c \notin Informational =>
                LET n == BaseWriteHeader(b, c, who)
                IN  n.status = c /\ n.by = who /\ n.body = b.body /\ n.early = b.early
BY DEF AddBody, BaseSetHeader, BaseWriteHeader

\* Every step keeps the types.
LEMMA TypeNext == TypeOK /\ [Next]_vars => TypeOK'
<1> SUFFICES ASSUME TypeOK, [Next]_vars
             PROVE  TypeOK'
    OBVIOUS
<1>0. base \in Responses
    BY DEF TypeOK, Responses
<1>1. CASE Inline
    BY <1>1 DEF Inline, TypeOK, tw
<1>2. CASE Spawn
    BY <1>2 DEF Spawn, TypeOK, tw
<1>3. CASE SelectDone
    BY <1>3 DEF SelectDone, TypeOK, tw, Return
<1>4. CASE SelectTimeout
    BY <1>4 DEF SelectTimeout, TypeOK, tw
<1>5. CASE SetTimedOut
    BY <1>5 DEF SetTimedOut, TypeOK
<1>6. CASE HasWritten
    BY <1>6 DEF HasWritten, TypeOK, tw, Return
<1>7. CASE SetHeaders
    <2>1. base' \in Responses
        BY <1>0, <1>7, BaseOps DEF SetHeaders, Authors
    <2> QED
        BY <1>7, <2>1 DEF SetHeaders, TypeOK, tw, Responses
<1>8. CASE Commit
    <2>1. base' \in Responses
        BY <1>0, <1>8, BaseOps DEF Commit, Authors
    <2> QED
        BY <1>8, <2>1 DEF Commit, TypeOK, tw, Responses
<1>9. CASE Body
    <2>1. base' \in Responses
        BY <1>0, <1>9, BaseOps DEF Body, Authors
    <2> QED
        BY <1>9, <2>1 DEF Body, TypeOK, tw, Responses, Return
<1>10. CASE ReturnInline
    BY <1>10 DEF ReturnInline, TypeOK, tw
<1>11. CASE Finish
    <2>1. base' \in Responses
        BY <1>0, <1>11, BaseOps DEF Finish, Authors
    <2> QED
        BY <1>11, <2>1 DEF Finish, TypeOK, tw, Responses
<1>12. CASE SetHeaderEnd
    <2>1. base' \in Responses
        BY <1>0, <1>12, BaseOps DEF SetHeaderEnd, Authors
    <2> QED
        BY <1>12, <2>1 DEF SetHeaderEnd, TypeOK, tw, Responses
<1>13. CASE WriteHeader
    <2>1. base' \in Responses
        BY <1>0, <1>13, BaseOps DEF WriteHeader, TypeOK, Authors
    <2>2. timedOut' \in BOOLEAN /\ wroteHeader' \in BOOLEAN /\ mu' \in {"free", "handler"}
        BY <1>13 DEF WriteHeader, TypeOK
    <2> QED
        BY <1>13, <2>1, <2>2 DEF WriteHeader, TypeOK, Responses
<1>14. CASE Write
    <2>1. base' \in Responses
        BY <1>0, <1>14, BaseOps DEF Write, Authors
    <2>2. timedOut' \in BOOLEAN /\ wroteHeader' \in BOOLEAN /\ mu' \in {"free", "handler"}
        <3>1. /\ timedOut' = timedOut
              /\ wroteHeader' = TRUE \/ wroteHeader' = wroteHeader
              /\ mu' = "free" \/ mu' = mu
            BY <1>14, Zenon DEF Write
        <3>2. timedOut \in BOOLEAN /\ wroteHeader \in BOOLEAN /\ mu \in {"free", "handler"}
            BY DEF TypeOK
        <3> QED
            BY <3>1, <3>2
    <2> QED
        BY <1>14, <2>1, <2>2 DEF Write, TypeOK, Responses
<1>15. CASE WriteBody
    <2>1. base' \in Responses
        BY <1>0, <1>15, BaseOps DEF WriteBody, Authors
    <2> QED
        BY <1>15, <2>1 DEF WriteBody, TypeOK, tw, Responses
<1>16. CASE SetHeaderBegin
    BY <1>16 DEF SetHeaderBegin, TypeOK, tw
<1>17. CASE DirectWrite
    <2>1. base' \in Responses
        BY <1>0, <1>17, BaseOps DEF DirectWrite, Authors
    <2> QED
        BY <1>17, <2>1 DEF DirectWrite, TypeOK, tw, Responses
<1>18. CASE LockWriteHeader
    BY <1>18 DEF LockWriteHeader, TypeOK, tw
<1>19. CASE LockWrite
    BY <1>19 DEF LockWrite, TypeOK, tw
<1>20. CASE HandlerReturn
    <2>1. done' \in BOOLEAN
        BY <1>20 DEF HandlerReturn, TypeOK
    <2> QED
        BY <1>20, <2>1 DEF HandlerReturn, TypeOK, tw
<1>21. CASE HandlerPanic
    <2>1. done' \in BOOLEAN
        BY <1>21 DEF HandlerPanic, TypeOK
    <2> QED
        BY <1>21, <2>1 DEF HandlerPanic, TypeOK, tw
<1>22. CASE Deadline
    BY <1>22 DEF Deadline, TypeOK, tw
<1>23. CASE ParentCancel
    BY <1>23 DEF ParentCancel, TypeOK, tw
<1>24. CASE PanicCrash
    BY <1>24 DEF PanicCrash, TypeOK, tw
<1>25. CASE HeaderRace
    BY <1>25 DEF HeaderRace, TypeOK, tw
<1>26. CASE UNCHANGED vars
    BY <1>26 DEF TypeOK, vars
<1> QED
    BY <1>1, <1>2, <1>3, <1>4, <1>5, <1>6, <1>7, <1>8, <1>9, <1>10, <1>11, <1>12, <1>13, <1>14, <1>15, <1>16, <1>17, <1>18, <1>19, <1>20, <1>21, <1>22, <1>23, <1>24, <1>25, <1>26
    DEF Next, Middleware, Handler, HandlerOperation

\* Every step keeps the invariant.
LEMMA IInvNext == IInv /\ [Next]_vars => IInv'
<1> SUFFICES ASSUME IInv, [Next]_vars
             PROVE  IInv'
    OBVIOUS
<1>0. TypeOK /\ TypeOK'
    BY TypeNext DEF IInv
<1>c. /\ 200 \notin Informational /\ 503 \notin Informational
      /\ 0 \notin Codes /\ 0 \notin Informational
    BY TimeoutAssumption
<1>1. CASE Inline
    <2>1. MutexHeld'
        BY <1>1 DEF Inline, IInv, MutexHeld, Phases
    <2>2. Phases'
        BY <1>1 DEF Inline, IInv, tw, Phases
    <2>3. Remembered'
        BY <1>1 DEF Inline, IInv, tw, Remembered
    <2>4. OneAuthor'
        BY <1>1 DEF Inline, IInv, OneAuthor
    <2> QED
        BY <1>0, <2>1, <2>2, <2>3, <2>4 DEF IInv
<1>2. CASE Spawn
    <2>1. MutexHeld'
        BY <1>2 DEF Spawn, IInv, MutexHeld, Phases
    <2>2. Phases'
        BY <1>2 DEF Spawn, IInv, tw, Phases
    <2>3. Remembered'
        BY <1>2 DEF Spawn, IInv, tw, Remembered
    <2>4. OneAuthor'
        BY <1>2 DEF Spawn, IInv, OneAuthor
    <2> QED
        BY <1>0, <2>1, <2>2, <2>3, <2>4 DEF IInv
<1>3. CASE SelectDone
    <2>1. MutexHeld'
        BY <1>3 DEF SelectDone, IInv, MutexHeld
    <2>2. Phases'
        BY <1>3 DEF SelectDone, Return, IInv, Phases
    <2>3. Remembered'
        BY <1>3 DEF SelectDone, Return, IInv, tw, Phases, Remembered
    <2>4. OneAuthor'
        BY <1>3 DEF SelectDone, IInv, OneAuthor
    <2> QED
        BY <1>0, <2>1, <2>2, <2>3, <2>4 DEF IInv
<1>4. CASE SelectTimeout
    <2>1. MutexHeld'
        BY <1>4 DEF SelectTimeout, IInv, MutexHeld
    <2>2. Phases'
        BY <1>4 DEF SelectTimeout, IInv, tw, Phases
    <2>3. Remembered'
        BY <1>4 DEF SelectTimeout, IInv, tw, Remembered
    <2>4. OneAuthor'
        BY <1>4 DEF SelectTimeout, IInv, OneAuthor
    <2> QED
        BY <1>0, <2>1, <2>2, <2>3, <2>4 DEF IInv
<1>5. CASE SetTimedOut
    <2>1. MutexHeld'
        BY <1>5 DEF SetTimedOut, IInv, MutexHeld
    <2>2. Phases'
        BY <1>5 DEF SetTimedOut, IInv, Phases
    <2>3. Remembered'
        BY <1>5 DEF SetTimedOut, IInv, MutexHeld, Remembered
    <2>4. OneAuthor'
        BY <1>5 DEF SetTimedOut, IInv, OneAuthor
    <2> QED
        BY <1>0, <2>1, <2>2, <2>3, <2>4 DEF IInv
<1>6. CASE HasWritten
    <2>1. MutexHeld'
        BY <1>6 DEF HasWritten, IInv, MutexHeld
    <2>2. Phases'
        BY <1>6 DEF HasWritten, Return, IInv, tw, Phases
    <2>3. Remembered'
        BY <1>6 DEF HasWritten, Return, IInv, tw, Remembered
    <2>4. OneAuthor'
        BY <1>6 DEF HasWritten, IInv, OneAuthor
    <2> QED
        BY <1>0, <2>1, <2>2, <2>3, <2>4 DEF IInv
<1>7. CASE SetHeaders
    <2>0. /\ base.status' = base.status /\ base.by' = base.by /\ base.body' = base.body
          /\ base.early' = base.early
        BY <1>7, BaseFields DEF SetHeaders
    <2>1. MutexHeld'
        BY <1>7, <2>0 DEF SetHeaders, IInv, MutexHeld
    <2>2. Phases'
        BY <1>7, <2>0 DEF SetHeaders, IInv, tw, Phases
    <2>3. Remembered'
        BY <1>7, <2>0 DEF SetHeaders, IInv, tw, Remembered
    <2>4. OneAuthor'
        BY <1>7, <2>0 DEF SetHeaders, IInv, OneAuthor
    <2> QED
        BY <1>0, <2>1, <2>2, <2>3, <2>4 DEF IInv
<1>8. CASE Commit
    <2>1. MutexHeld'
        BY <1>8 DEF Commit, IInv, MutexHeld
    <2>2. Phases'
        BY <1>8 DEF Commit, IInv, tw, Phases
    <2>3. Remembered'
        BY <1>8, <1>c, BaseFields DEF Commit, IInv, TypeOK, tw, Authors, Phases, Remembered
    <2>4. OneAuthor'
        BY <1>8, BaseFields DEF Commit, IInv, TypeOK, Authors, OneAuthor, Remembered
    <2> QED
        BY <1>0, <2>1, <2>2, <2>3, <2>4 DEF IInv
<1>9. CASE Body
    <2>1. MutexHeld'
        BY <1>9 DEF Body, IInv, MutexHeld
    <2>2. Phases'
        BY <1>9 DEF Body, Return, IInv, tw, Phases
    <2>3. Remembered'
        BY <1>9, BaseFields DEF Body, Return, BaseWrite, IInv, tw, Remembered
    <2>4. OneAuthor'
        BY <1>9, BaseFields DEF Body, BaseWrite, IInv, OneAuthor, Remembered
    <2> QED
        BY <1>0, <2>1, <2>2, <2>3, <2>4 DEF IInv
<1>10. CASE ReturnInline
    <2>1. MutexHeld'
        BY <1>10 DEF ReturnInline, IInv, MutexHeld
    <2>2. Phases'
        BY <1>10 DEF ReturnInline, IInv, tw, Phases
    <2>3. Remembered'
        BY <1>10 DEF ReturnInline, IInv, tw, Phases, Remembered
    <2>4. OneAuthor'
        BY <1>10 DEF ReturnInline, IInv, OneAuthor
    <2> QED
        BY <1>0, <2>1, <2>2, <2>3, <2>4 DEF IInv
<1>11. CASE Finish
    <2>0. base'.status # 0
        BY <1>c, <1>11, BaseFields DEF Finish
    <2>1. MutexHeld'
        BY <1>11 DEF Finish, IInv, MutexHeld
    <2>2. Phases'
        BY <1>11 DEF Finish, IInv, tw, Phases
    <2>3. Remembered'
        BY <1>11, <2>0, BaseFields DEF Finish, IInv, tw, Remembered
    <2>4. OneAuthor'
        BY <1>11, BaseFields DEF Finish, IInv, TypeOK, Authors, OneAuthor, Remembered
    <2> QED
        BY <1>0, <2>1, <2>2, <2>3, <2>4 DEF IInv
<1>12. CASE SetHeaderEnd
    <2>0. /\ base.status' = base.status /\ base.by' = base.by /\ base.body' = base.body
          /\ base.early' = base.early
        BY <1>12, BaseFields DEF SetHeaderEnd
    <2>1. MutexHeld'
        BY <1>12, <2>0 DEF SetHeaderEnd, IInv, MutexHeld
    <2>2. Phases'
        BY <1>12, <2>0 DEF SetHeaderEnd, IInv, tw, Phases
    <2>3. Remembered'
        BY <1>12, <2>0 DEF SetHeaderEnd, IInv, tw, Remembered
    <2>4. OneAuthor'
        BY <1>12, <2>0 DEF SetHeaderEnd, IInv, OneAuthor
    <2> QED
        BY <1>0, <2>1, <2>2, <2>3, <2>4 DEF IInv
<1>13. CASE WriteHeader
    <2>1. MutexHeld'
        BY <1>13 DEF WriteHeader, IInv, MutexHeld
    <2>2. Phases'
        BY <1>13 DEF WriteHeader, IInv, Phases
    <2>3. Remembered'
        <3>1. CASE timedOut \/ wroteHeader
            BY <1>13, <3>1 DEF WriteHeader, IInv, Remembered
        <3>2. CASE ~timedOut /\ ~wroteHeader
            <4>1. code \in Codes /\ base.by # "timeout" /\ base.by # "server" /\ ~skip
                BY <1>13, <3>2 DEF WriteHeader, IInv, MutexHeld, Phases, Remembered
            <4>2. base.status = 0 /\ base.by = "none"
                BY <3>2, <4>1 DEF IInv, TypeOK, Authors, Remembered
            <4>3. IF code \in Informational
                  THEN base.status' = 0 /\ base.by' = "none" /\ base.early' = code
                  ELSE base.status' = code /\ base.by' = "handler"
                BY <1>13, <3>2, <4>2, BaseFields DEF WriteHeader
            <4> QED
                BY <1>c, <1>13, <3>2, <4>1, <4>2, <4>3
                DEF WriteHeader, IInv, tw, MutexHeld, Phases, Remembered
        <3> QED
            BY <3>1, <3>2
    <2>4. OneAuthor'
        BY <1>13, BaseFields DEF WriteHeader, IInv, TypeOK, Authors, OneAuthor, Remembered
    <2> QED
        BY <1>0, <2>1, <2>2, <2>3, <2>4 DEF IInv
<1>14. CASE Write
    <2>1. MutexHeld'
        BY <1>14 DEF Write, IInv, MutexHeld
    <2>2. Phases'
        BY <1>14 DEF Write, IInv, Phases
    <2>3. Remembered'
        BY <1>14, BaseFields DEF Write, IInv, TypeOK, Authors, Phases, Remembered
    <2>4. OneAuthor'
        BY <1>14, BaseFields DEF Write, IInv, TypeOK, Authors, OneAuthor, Remembered
    <2> QED
        BY <1>0, <2>1, <2>2, <2>3, <2>4 DEF IInv
<1>15. CASE WriteBody
    <2>0. /\ base.status # 0 => base.status' = base.status /\ base.by' = base.by
          /\ base.status = 0 => base.status' = 200 /\ base.by' = "handler"
          /\ base.body' = base.body \cup {"handler"}
          /\ base.early' = base.early
        <3> DEFINE h == BaseWriteHeader(base, 200, "handler")
        <3>1. base' = AddBody(h, "handler")
            BY <1>15 DEF WriteBody, BaseWrite
        <3>2. base.status # 0 => h = base
            BY BaseFields
        <3>3. base.status = 0 => /\ h.status = 200 /\ h.by = "handler" /\ h.body = base.body
                                 /\ h.early = base.early
            BY <1>c, BaseFields
        <3>4. /\ base.status' = h.status /\ base.by' = h.by /\ base.early' = h.early
              /\ base.body' = h.body \cup {"handler"}
            BY <3>1 DEF AddBody
        <3> QED
            BY <3>2, <3>3, <3>4
    <2>1. MutexHeld'
        BY <1>15, <2>0 DEF WriteBody, IInv, MutexHeld
    <2>2. Phases'
        BY <1>15, <2>0 DEF WriteBody, IInv, tw, Phases
    <2>3. Remembered'
        BY <1>15, <2>0 DEF WriteBody, IInv, tw, Remembered
    <2>4. OneAuthor'
        BY <1>15, <2>0 DEF WriteBody, IInv, TypeOK, Authors, OneAuthor, Remembered, Phases
    <2> QED
        BY <1>0, <2>1, <2>2, <2>3, <2>4 DEF IInv
<1>16. CASE SetHeaderBegin
    <2>1. MutexHeld'
        BY <1>16 DEF SetHeaderBegin, IInv, MutexHeld
    <2>2. Phases'
        BY <1>16 DEF SetHeaderBegin, IInv, tw, Phases
    <2>3. Remembered'
        BY <1>16 DEF SetHeaderBegin, IInv, tw, Remembered
    <2>4. OneAuthor'
        BY <1>16 DEF SetHeaderBegin, IInv, OneAuthor
    <2> QED
        BY <1>0, <2>1, <2>2, <2>3, <2>4 DEF IInv
<1>17. CASE DirectWrite
    <2>0. /\ base.status # 0 => base.status' = base.status /\ base.by' = base.by
          /\ base.status = 0 =>
               \/ base.status' = 0 /\ base.by' = base.by
               \/ base.status' # 0 /\ base.by' = "handler"
          /\ base.early # 0 => base.early' # 0
          /\ \/ base.body' = base.body
             \/ base.body' = base.body \cup {"handler"} /\ base.status' # 0
        <3>1. CASE base' = BaseWrite(base, "handler")
            <4> DEFINE h == BaseWriteHeader(base, 200, "handler")
            <4>1. base.status # 0 => h = base
                BY BaseFields
            <4>2. base.status = 0 => /\ h.status = 200 /\ h.by = "handler" /\ h.body = base.body
                                     /\ h.early = base.early
                BY <1>c, BaseFields
            <4>3. /\ base.status' = h.status /\ base.by' = h.by /\ base.early' = h.early
                  /\ base.body' = h.body \cup {"handler"}
                BY <3>1 DEF AddBody, BaseWrite
            <4> QED
                BY <4>1, <4>2, <4>3
        <3>2. ASSUME NEW c \in Codes, base' = BaseWriteHeader(base, c, "handler")
              PROVE  /\ base.status # 0 => base' = base
                     /\ base.early # 0 => base.early' # 0
                     /\ base.status = 0 /\ c \in Informational =>
                          base.status' = 0 /\ base.by' = base.by /\ base.body' = base.body
                     /\ base.status = 0 /\ c \notin Informational =>
                          base.status' # 0 /\ base.by' = "handler" /\ base.body' = base.body
            BY <1>c, <3>2, BaseFields
        <3> QED
            BY <1>17, <3>1, <3>2 DEF DirectWrite
    <2>1. MutexHeld'
        BY <1>17, <2>0 DEF DirectWrite, IInv, MutexHeld
    <2>2. Phases'
        BY <1>17, <2>0 DEF DirectWrite, IInv, tw, Phases
    <2>3. Remembered'
        BY <1>17, <2>0 DEF DirectWrite, IInv, tw, Remembered
    <2>4. OneAuthor'
        BY <1>17, <2>0 DEF DirectWrite, IInv, TypeOK, Authors, OneAuthor, Remembered, Phases
    <2> QED
        BY <1>0, <2>1, <2>2, <2>3, <2>4 DEF IInv
<1>18. CASE LockWriteHeader
    <2>1. MutexHeld'
        BY <1>18 DEF LockWriteHeader, IInv, MutexHeld
    <2>2. Phases'
        BY <1>18 DEF LockWriteHeader, IInv, tw, Phases
    <2>3. Remembered'
        BY <1>18 DEF LockWriteHeader, IInv, tw, Remembered
    <2>4. OneAuthor'
        BY <1>18 DEF LockWriteHeader, IInv, OneAuthor
    <2> QED
        BY <1>0, <2>1, <2>2, <2>3, <2>4 DEF IInv
<1>19. CASE LockWrite
    <2>1. MutexHeld'
        BY <1>19 DEF LockWrite, IInv, MutexHeld
    <2>2. Phases'
        BY <1>19 DEF LockWrite, IInv, tw, Phases
    <2>3. Remembered'
        BY <1>19 DEF LockWrite, IInv, tw, Remembered
    <2>4. OneAuthor'
        BY <1>19 DEF LockWrite, IInv, OneAuthor
    <2> QED
        BY <1>0, <2>1, <2>2, <2>3, <2>4 DEF IInv
<1>20. CASE HandlerReturn
    <2>1. MutexHeld'
        BY <1>20 DEF HandlerReturn, IInv, MutexHeld
    <2>2. Phases'
        BY <1>20 DEF HandlerReturn, IInv, tw, Phases
    <2>3. Remembered'
        BY <1>20 DEF HandlerReturn, IInv, tw, Remembered
    <2>4. OneAuthor'
        BY <1>20 DEF HandlerReturn, IInv, OneAuthor
    <2> QED
        BY <1>0, <2>1, <2>2, <2>3, <2>4 DEF IInv
<1>21. CASE HandlerPanic
    <2>1. MutexHeld'
        BY <1>21 DEF HandlerPanic, IInv, MutexHeld
    <2>2. Phases'
        BY <1>21 DEF HandlerPanic, IInv, tw, Phases
    <2>3. Remembered'
        BY <1>21 DEF HandlerPanic, IInv, tw, Remembered
    <2>4. OneAuthor'
        BY <1>21 DEF HandlerPanic, IInv, OneAuthor
    <2> QED
        BY <1>0, <2>1, <2>2, <2>3, <2>4 DEF IInv
<1>22. CASE Deadline
    <2>1. MutexHeld'
        BY <1>22 DEF Deadline, IInv, MutexHeld
    <2>2. Phases'
        BY <1>22 DEF Deadline, IInv, tw, Phases
    <2>3. Remembered'
        BY <1>22 DEF Deadline, IInv, tw, Remembered
    <2>4. OneAuthor'
        BY <1>22 DEF Deadline, IInv, OneAuthor
    <2> QED
        BY <1>0, <2>1, <2>2, <2>3, <2>4 DEF IInv
<1>23. CASE ParentCancel
    <2>1. MutexHeld'
        BY <1>23 DEF ParentCancel, IInv, MutexHeld
    <2>2. Phases'
        BY <1>23 DEF ParentCancel, IInv, tw, Phases
    <2>3. Remembered'
        BY <1>23 DEF ParentCancel, IInv, tw, Remembered
    <2>4. OneAuthor'
        BY <1>23 DEF ParentCancel, IInv, OneAuthor
    <2> QED
        BY <1>0, <2>1, <2>2, <2>3, <2>4 DEF IInv
<1>24. CASE PanicCrash
    <2>1. MutexHeld'
        BY <1>24 DEF PanicCrash, IInv, MutexHeld
    <2>2. Phases'
        BY <1>24 DEF PanicCrash, IInv, tw, Phases
    <2>3. Remembered'
        BY <1>24 DEF PanicCrash, IInv, tw, Remembered
    <2>4. OneAuthor'
        BY <1>24 DEF PanicCrash, IInv, OneAuthor
    <2> QED
        BY <1>0, <2>1, <2>2, <2>3, <2>4 DEF IInv
<1>25. CASE HeaderRace
    <2>1. MutexHeld'
        BY <1>25 DEF HeaderRace, IInv, MutexHeld
    <2>2. Phases'
        BY <1>25 DEF HeaderRace, IInv, tw, Phases
    <2>3. Remembered'
        BY <1>25 DEF HeaderRace, IInv, tw, Remembered
    <2>4. OneAuthor'
        BY <1>25 DEF HeaderRace, IInv, OneAuthor
    <2> QED
        BY <1>0, <2>1, <2>2, <2>3, <2>4 DEF IInv
<1>26. CASE UNCHANGED vars
    BY <1>0, <1>26 DEF vars, IInv, MutexHeld, Phases, Remembered, OneAuthor
<1> QED
    BY <1>1, <1>2, <1>3, <1>4, <1>5, <1>6, <1>7, <1>8, <1>9, <1>10, <1>11, <1>12, <1>13, <1>14, <1>15, <1>16, <1>17, <1>18, <1>19, <1>20, <1>21, <1>22, <1>23, <1>24, <1>25, <1>26
    DEF Next, Middleware, Handler, HandlerOperation

\* The inductive invariant: in every state of every request the goroutines,
\* the flags of the timeoutWriter and the response agree (timeout.go, 44-97
\* and 137-166).
THEOREM Invariance == Spec => []IInv
BY InitIInv, IInvNext, PTL DEF Spec

\* Flags, phases and response keep their types; the only status the middleware
\* itself sends is the 503 (RequestTimeout, timeout.go 154-159).
THEOREM TypeCorrect == Spec => []TypeOK
BY Invariance, PTL DEF IInv

\* The response has one author (timeoutWriter's mutex and flags).
THEOREM ResponseHasOneAuthor == Spec => []OneAuthor
BY Invariance, PTL DEF IInv

\* Whatever the handler does, a request that times out is answered by
\* somebody, unless its handler began with a 1xx status (hasWritten in the
\* timeout branch, timeout.go 151-166).
THEOREM TimeoutAlwaysAnswers == Spec => []TimeoutIsAnswered
<1>1. IInv => TimeoutIsAnswered
    BY DEF IInv, TypeOK, Authors, TimeoutIsAnswered, Remembered
<1> QED
    BY <1>1, Invariance, PTL

\* A process that ends without a panic had timed out: before that the header
\* map is the handler's alone (Header() is not overridden, timeout.go 44-51).
THEOREM HeadersRaceOnlyAfterTimeout == Spec => []RaceNeedsTimeout
<1>1. Init => RaceNeedsTimeout
    BY DEF Init, RaceNeedsTimeout
<1>2. IInv /\ RaceNeedsTimeout /\ [Next]_vars => RaceNeedsTimeout'
    <2> SUFFICES ASSUME IInv, RaceNeedsTimeout, [Next]_vars
                 PROVE  RaceNeedsTimeout'
        OBVIOUS
    <2>1. CASE UNCHANGED vars
        BY <2>1 DEF vars, RaceNeedsTimeout
    <2>2. CASE PanicCrash
        BY <2>2 DEF PanicCrash, RaceNeedsTimeout
    <2>3. CASE HeaderRace
        BY <2>3 DEF HeaderRace, RaceNeedsTimeout, IInv, Phases, tw
    <2>4. CASE proc' = "up"
        BY <2>4 DEF RaceNeedsTimeout
    <2> QED
        BY <2>1, <2>2, <2>3, <2>4
        DEF Next, Middleware, Handler, HandlerOperation, vars, Inline, Spawn, SelectDone,
            SelectTimeout, SetTimedOut, HasWritten, SetHeaders, Commit, Body, ReturnInline,
            Finish, SetHeaderBegin, SetHeaderEnd, DirectWrite, LockWriteHeader, WriteHeader,
            LockWrite, Write, WriteBody, HandlerReturn, HandlerPanic, Deadline, ParentCancel
<1> QED
    BY <1>1, <1>2, Invariance, PTL DEF Spec

\* After the middleware has returned, a late handler finds timedOut set, or
\* has nothing left to do: it adds neither status nor body.
LEMMA LateHandlerIsInert ==
    IInv /\ [Next]_vars /\ mpc \in {"returned", "finished"} =>
        /\ base.body' = base.body
        /\ base.status' # base.status => base.by' = "server"
<1> SUFFICES ASSUME IInv, [Next]_vars, mpc \in {"returned", "finished"}
             PROVE  /\ base.body' = base.body
                    /\ base.status' # base.status => base.by' = "server"
    OBVIOUS
<1>1. CASE UNCHANGED base
    BY <1>1
<1>2. CASE Finish
    BY <1>2, BaseFields, TimeoutAssumption DEF Finish, IInv
<1>3. hpc \in {"writeHeader", "write"} => timedOut
    BY DEF IInv, Phases
<1>4. hpc # "writeBody" /\ ~(hpc = "run" /\ skip)
    BY DEF IInv, Phases, Remembered
<1>5. CASE SetHeaderEnd
    BY <1>5, BaseFields DEF SetHeaderEnd
<1> QED
    BY <1>1, <1>2, <1>3, <1>4, <1>5
    DEF Next, Middleware, Handler, HandlerOperation, vars, Inline, Spawn, SelectDone,
        SelectTimeout, SetTimedOut, HasWritten, SetHeaders, Commit, Body, ReturnInline,
        SetHeaderBegin, DirectWrite, LockWriteHeader, WriteHeader, LockWrite, Write,
        WriteBody, HandlerReturn, HandlerPanic, Deadline, ParentCancel, PanicCrash, HeaderRace

\* Once the middleware has returned, nothing the handler's goroutine still does
\* changes the status or the body (the timedOut checks of timeout.go, 58 and 72).
THEOREM ResponseIsSealed == Spec => SealedAfterReturn
<1>1. IInv /\ [Next]_vars =>
        [(mpc \in {"returned", "finished"}) =>
            /\ base.body' = base.body
            /\ base.status' # base.status => base.by' = "server"]_vars
    BY LateHandlerIsInert
<1> QED
    BY <1>1, Invariance, PTL DEF Spec, SealedAfterReturn

-----------------------------------------------------------------------------
\* The refinement of OneAnswer.

\* What the 503 finds when it is alone: a handler that has begun nothing has
\* sent nothing early, and the timeout's own body is its last step.  A skipped
\* path has no timeoutWriter to remember anything.
Untouched ==
    /\ skip => ~wroteHeader
    /\ base.early # 0 => skip \/ wroteHeader
    /\ mpc = "body" => base.body = {}

\* A response, as OneAnswer sees it: the headers are left out.
Answered(b) == [status |-> b.status, by |-> b.by, body |-> b.body, early |-> b.early]

\* The operations of the server's writer are those of the answer.
LEMMA OperationsMap ==
    ASSUME NEW b, NEW c, NEW who
    PROVE  /\ Answered(BaseWriteHeader(b, c, who)) = O!WithStatus(Answered(b), c, who)
           /\ Answered(BaseWrite(b, who)) = O!WithBody(Answered(b), who)
           /\ Answered(BaseSetHeader(b, who)) = Answered(b)
<1>1. ASSUME NEW d
      PROVE  Answered(BaseWriteHeader(b, d, who)) = O!WithStatus(Answered(b), d, who)
    BY DEF Answered, BaseWriteHeader, O!WithStatus
<1>2. Answered(BaseWrite(b, who)) = O!WithBody(Answered(b), who)
    <2> DEFINE h == BaseWriteHeader(b, 200, who)
    <2>1. Answered(h) = O!WithStatus(Answered(b), 200, who)
        BY <1>1
    <2>2. Answered(AddBody(h, who)) = [Answered(h) EXCEPT !.body = @ \cup {who}]
        BY DEF Answered, AddBody
    <2> QED
        BY <2>1, <2>2 DEF BaseWrite, O!WithBody
<1>3. Answered(BaseSetHeader(b, who)) = Answered(b)
    BY DEF Answered, BaseSetHeader
<1> QED
    BY <1>1, <1>2, <1>3

\* The answer in the three kinds of states.
LEMMA AnswerCases ==
    /\ mpc # "body" /\ hpc # "writeBody" => Answer = Answered(base)
    /\ mpc # "body" /\ hpc = "writeBody" => Answer = Answered(BaseWrite(base, "handler"))
    /\ mpc = "body" /\ hpc # "writeBody" =>
         Answer = [status |-> 0, by |-> "none", body |-> base.body, early |-> base.early]
BY DEF Answer, Answered

\* Until the 503 has been tried there is no answer beside it.
LEMMA RefusalIsAlone ==
    ASSUME IInv, Untouched, mpc \in {"setHeaders", "commit", "body"}
    PROVE  /\ ~skip /\ timedOut /\ ~wroteHeader /\ hpc # "writeBody"
           /\ base.body = {} /\ base.early = 0
           /\ mpc # "body" => base.status = 0 /\ base.by = "none"
           /\ Answer = O!NoAnswer
<1>1. /\ ~skip /\ timedOut /\ ~wroteHeader /\ hpc # "writeBody"
      /\ base.early = 0
    BY DEF IInv, Phases, Remembered, Untouched
<1>2. mpc # "body" => base.status = 0 /\ base.by = "none" /\ base.body = {}
    <2>1. base.by \in {"handler", "timeout", "server", "none"} /\ base.body \subseteq Authors
        BY DEF IInv, TypeOK, Authors
    <2>2. mpc # "body" => base.by = "none"
        BY <1>1, <2>1 DEF IInv, Remembered
    <2>3. base.body \subseteq {base.by}
        BY DEF IInv, OneAuthor
    <2> QED
        BY <2>1, <2>2, <2>3 DEF IInv, Remembered, Authors
<1>3. base.body = {}
    BY <1>2 DEF Untouched
<1>4. Answer = O!NoAnswer
    BY <1>1, <1>2, <1>3 DEF Answer, O!NoAnswer
<1> QED
    BY <1>1, <1>2, <1>3, <1>4

LEMMA UntouchedNext == IInv /\ Untouched /\ [Next]_vars => Untouched'
<1> SUFFICES ASSUME IInv, Untouched, [Next]_vars
             PROVE  Untouched'
    OBVIOUS
<1>0. base.status \in Nat /\ 200 \notin Informational
    <2>1. base.status \in Codes \cup {0, 200, 503}
        BY DEF IInv, TypeOK
    <2>2. Codes \subseteq Nat /\ 200 \notin Informational
        BY TimeoutAssumption
    <2>3. 0 \in Nat /\ 200 \in Nat /\ 503 \in Nat
        OBVIOUS
    <2> QED
        BY <2>1, <2>2, <2>3, Zenon
<1>s. skip' => ~wroteHeader'
    <2>1. skip' = skip
        BY DEF Next, Middleware, Handler, HandlerOperation, vars, tw, Inline, Spawn, SelectDone,
            SelectTimeout, SetTimedOut, HasWritten, SetHeaders, Commit, Body, ReturnInline,
            Finish, SetHeaderBegin, SetHeaderEnd, DirectWrite, LockWriteHeader, WriteHeader,
            LockWrite, Write, WriteBody, HandlerReturn, HandlerPanic, Deadline, ParentCancel,
            PanicCrash, HeaderRace
    <2>2. CASE WriteHeader \/ Write
        BY <2>1, <2>2 DEF WriteHeader, Write, IInv, MutexHeld, Phases
    <2>3. CASE ~(WriteHeader \/ Write)
        <3>1. wroteHeader' = wroteHeader
            BY <2>3 DEF Next, Middleware, Handler, HandlerOperation, vars, tw, Inline, Spawn,
                SelectDone, SelectTimeout, SetTimedOut, HasWritten, SetHeaders, Commit, Body,
                ReturnInline, Finish, SetHeaderBegin, SetHeaderEnd, DirectWrite,
                LockWriteHeader, LockWrite, WriteBody, HandlerReturn, HandlerPanic, Deadline,
                ParentCancel, PanicCrash, HeaderRace
        <3> QED
            BY <2>1, <3>1 DEF Untouched
    <2> QED
        BY <2>2, <2>3
<1>1. CASE UNCHANGED base /\ mpc' # "body"
    <2>1. skip' = skip /\ (wroteHeader => wroteHeader')
        BY DEF Next, Middleware, Handler, HandlerOperation, vars, tw, Inline, Spawn, SelectDone,
            SelectTimeout, SetTimedOut, HasWritten, SetHeaders, Commit, Body, ReturnInline,
            Finish, SetHeaderBegin, SetHeaderEnd, DirectWrite, LockWriteHeader, WriteHeader,
            LockWrite, Write, WriteBody, HandlerReturn, HandlerPanic, Deadline, ParentCancel,
            PanicCrash, HeaderRace
    <2>2. base' = base
        BY <1>1
    <2> QED
        BY <1>s, <1>1, <2>1, <2>2 DEF Untouched
<1>2. CASE UNCHANGED base /\ mpc' = mpc
    <2>1. skip' = skip /\ (wroteHeader => wroteHeader')
        BY DEF Next, Middleware, Handler, HandlerOperation, vars, tw, Inline, Spawn, SelectDone,
            SelectTimeout, SetTimedOut, HasWritten, SetHeaders, Commit, Body, ReturnInline,
            Finish, SetHeaderBegin, SetHeaderEnd, DirectWrite, LockWriteHeader, WriteHeader,
            LockWrite, Write, WriteBody, HandlerReturn, HandlerPanic, Deadline, ParentCancel,
            PanicCrash, HeaderRace
    <2>2. base' = base /\ mpc' = mpc
        BY <1>2
    <2> QED
        BY <1>s, <2>1, <2>2 DEF Untouched
<1>3. CASE SetHeaders \/ SetHeaderEnd
    <2>1. base'.body = base.body /\ base'.early = base.early
        BY <1>3 DEF SetHeaders, SetHeaderEnd, BaseSetHeader
    <2>2. skip' = skip /\ wroteHeader' = wroteHeader /\ (mpc' = "body" => mpc = "body")
        BY <1>3 DEF SetHeaders, SetHeaderEnd, tw
    <2> QED
        BY <1>s, <2>1, <2>2 DEF Untouched
<1>4. CASE Commit
    <2>1. base.body = {} /\ base.early = 0 /\ base.status = 0
        BY <1>4, RefusalIsAlone DEF Commit
    <2>2. base'.body = {} /\ base'.early = 0
        BY <1>4, <2>1, BaseFields, TimeoutAssumption DEF Commit
    <2> QED
        BY <1>s, <2>2 DEF Untouched
<1>5. CASE Body
    <2>1. base.early = 0 /\ base.status = 503
        BY <1>5, RefusalIsAlone DEF Body, IInv, Remembered
    <2>2. base'.early = 0 /\ mpc' = "returned"
        BY <1>5, <2>1, BaseFields DEF Body, Return, BaseWrite
    <2> QED
        BY <1>s, <2>2 DEF Untouched
<1>6. CASE Finish
    BY <1>s, <1>0, <1>6, BaseFields DEF Finish, Untouched, tw
<1>7. CASE DirectWrite
    BY <1>s, <1>7 DEF DirectWrite, IInv, Phases, Untouched
<1>8. CASE WriteHeader
    BY <1>s, <1>8 DEF WriteHeader, IInv, Phases, Remembered, Untouched
<1>9. CASE Write
    BY <1>s, <1>0, <1>9, BaseFields DEF Write, IInv, Phases, Remembered, Untouched
<1>10. CASE WriteBody
    <2>1. wroteHeader /\ mpc # "body"
        BY <1>10 DEF WriteBody, IInv, Phases, Remembered
    <2> QED
        BY <1>s, <1>10, <2>1 DEF WriteBody, Untouched, tw
<1> QED
    BY <1>1, <1>2, <1>3, <1>4, <1>5, <1>6, <1>7, <1>8, <1>9, <1>10
    DEF Next, Middleware, Handler, HandlerOperation, vars, Inline, Spawn, SelectDone,
        SelectTimeout, SetTimedOut, HasWritten, ReturnInline, SetHeaderBegin,
        LockWriteHeader, LockWrite, HandlerReturn, HandlerPanic, Deadline, ParentCancel,
        PanicCrash, HeaderRace, Return

Over == hpc \in {"finished", "panicked"}

\* A step that changes nothing of what OneAnswer speaks of.
LEMMA UnseenStep ==
    ASSUME skip' = skip, Answer' = Answer, wroteHeader' = wroteHeader,
           timedOut' = timedOut, Over' = Over, Phase' = Phase
    PROVE  UNCHANGED O!ovars
BY DEF O!ovars, Over

\* Every step of the two goroutines, of the context and of the runtime is a
\* step of OneAnswer, or one it does not see.
LEMMA StepIsAnswerStep ==
    IInv /\ IInv' /\ Untouched /\ Untouched' /\ [Next]_vars => [O!ONext]_(O!ovars)
<1> SUFFICES ASSUME IInv, IInv', Untouched, Untouched', [Next]_vars
             PROVE  O!ONext \/ UNCHANGED O!ovars
    OBVIOUS
<1>0. mpc = "body" => hpc # "writeBody" /\ Answer = O!NoAnswer
    BY RefusalIsAlone
<1>1. CASE UNCHANGED base /\ hpc' = hpc /\ mpc' = mpc
    <2>1. skip' = skip /\ tw' = tw
        BY <1>1 DEF Next, Middleware, Handler, HandlerOperation, vars, tw, Inline, Spawn, SelectDone,
            SelectTimeout, SetTimedOut, HasWritten, SetHeaders, Commit, Body, ReturnInline,
            Finish, SetHeaderBegin, SetHeaderEnd, DirectWrite, LockWriteHeader, WriteHeader,
            LockWrite, Write, WriteBody, HandlerReturn, HandlerPanic, Deadline, ParentCancel,
            PanicCrash, HeaderRace, Return
    <2> QED
        BY <1>1, <2>1, UnseenStep DEF tw, Over, Phase, Answer
<1>2. CASE Inline \/ Spawn
    BY <1>2, UnseenStep DEF Inline, Spawn, tw, Over, Phase, Answer, IInv, Phases
<1>3. CASE SelectTimeout
    BY <1>3, UnseenStep DEF SelectTimeout, tw, Over, Phase, Answer
<1>4. CASE SetHeaderBegin \/ LockWriteHeader \/ LockWrite
    BY <1>4, UnseenStep DEF SetHeaderBegin, LockWriteHeader, LockWrite, tw, Over, Phase, Answer
<1>5. CASE SelectDone \/ ReturnInline
    <2>1. /\ Answer' = Answer /\ UNCHANGED <<skip, tw, hpc>>
          /\ Phase = "open" /\ Phase' = "closed"
        BY <1>5 DEF SelectDone, ReturnInline, Return, Answer, Phase, tw
    <2>2. Over /\ ~timedOut
        BY <1>5 DEF SelectDone, ReturnInline, IInv, Phases, Over
    <2>3. O!Close
        BY <2>1, <2>2 DEF O!Close, Over, tw
    <2> QED
        BY <2>3 DEF O!ONext
<1>6. CASE SetTimedOut
    <2>1. /\ Answer' = Answer /\ UNCHANGED <<skip, wroteHeader, hpc>>
          /\ Phase = "open" /\ Phase' = "open" /\ timedOut' = TRUE /\ ~skip
        BY <1>6 DEF SetTimedOut, Answer, Phase, IInv, Phases
    <2>2. O!Seal
        BY <2>1 DEF O!Seal
    <2> QED
        BY <2>2 DEF O!ONext
<1>7. CASE HasWritten
    <2>1. timedOut /\ Answer' = Answer /\ UNCHANGED <<skip, tw, hpc>> /\ Phase = "open"
        BY <1>7 DEF HasWritten, Return, Answer, Phase, tw, IInv, Phases
    <2>2. CASE mpc' = "returned" /\ wroteHeader
        <3>1. Phase' = "closed"
            BY <2>2 DEF Phase
        <3>2. O!Close
            BY <2>1, <2>2, <3>1 DEF O!Close, tw
        <3> QED
            BY <3>2 DEF O!ONext
    <2>3. CASE mpc' = "setHeaders"
        <3>1. Phase' = "open"
            BY <2>3 DEF Phase
        <3> QED
            BY <2>1, <3>1, UnseenStep DEF tw, Over
    <2> QED
        BY <1>7, <2>2, <2>3 DEF HasWritten, Return
<1>8. CASE SetHeaders \/ Commit
    <2>1. /\ mpc \in {"setHeaders", "commit"} /\ mpc' \in {"commit", "body"}
          /\ UNCHANGED <<skip, tw, hpc>>
        BY <1>8 DEF SetHeaders, Commit, tw
    <2>2. /\ Answer = O!NoAnswer /\ hpc # "writeBody" /\ base.body = {} /\ base.early = 0
          /\ base.status = 0 /\ base.by = "none"
        BY <2>1, RefusalIsAlone
    <2>3. ASSUME SetHeaders
          PROVE  Answer' = Answer
        <3>1. Answered(base') = Answered(base)
            BY <2>3, OperationsMap DEF SetHeaders
        <3>2. Answer = Answered(base) /\ Answer' = Answered(base')
            BY <2>1, <2>2, <2>3 DEF SetHeaders, Answer, Answered
        <3> QED
            BY <3>1, <3>2
    <2>4. ASSUME Commit
          PROVE  Answer' = Answer
        <3>1. base'.body = {} /\ base'.early = 0
            BY <2>2, <2>4, TimeoutAssumption DEF Commit, BaseWriteHeader
        <3>2. Answer' = [status |-> 0, by |-> "none", body |-> base'.body, early |-> base'.early]
            BY <2>1, <2>2, <2>4 DEF Commit, Answer
        <3> QED
            BY <2>2, <3>1, <3>2 DEF O!NoAnswer
    <2>5. Answer' = Answer
        BY <1>8, <2>3, <2>4
    <2> QED
        BY <2>1, <2>5, UnseenStep DEF tw, Over, Phase
<1>9. CASE Body
    <2>1. /\ mpc = "body" /\ mpc' = "returned" /\ UNCHANGED <<skip, tw, hpc>>
          /\ base' \in {base, BaseWrite(base, "timeout")}
        BY <1>9 DEF Body, Return, tw
    <2>2. /\ Answer = O!NoAnswer /\ timedOut /\ ~wroteHeader /\ hpc # "writeBody"
          /\ base.status = 503 /\ base.by = "timeout" /\ base.body = {} /\ base.early = 0
        BY <2>1, RefusalIsAlone DEF IInv, Remembered
    <2>3. Answered(base) = O!WithStatus(Answer, 503, "timeout")
        <3>1. 503 \notin Informational
            BY TimeoutAssumption
        <3> QED
            <4>1. O!WithStatus(O!NoAnswer, 503, "timeout") =
                    [status |-> 503, by |-> "timeout", body |-> {}, early |-> 0]
                BY <3>1 DEF O!WithStatus, O!NoAnswer
            <4> QED
                BY <2>2, <4>1 DEF Answered
    <2>4. Answered(BaseWrite(base, "timeout")) = O!WithBody(Answered(base), "timeout")
        BY OperationsMap
    <2>5. Answer' = Answered(base')
        BY <2>1, <2>2 DEF Answer, Answered
    <2>6. Answer' \in {O!WithStatus(Answer, 503, "timeout"),
                       O!WithBody(O!WithStatus(Answer, 503, "timeout"), "timeout")}
        BY <2>1, <2>3, <2>4, <2>5
    <2>7. Phase = "open" /\ Phase' = "closed"
        BY <2>1 DEF Phase
    <2>8. O!Refuse
        BY <2>1, <2>2, <2>6, <2>7 DEF O!Refuse, tw
    <2> QED
        BY <2>8 DEF O!ONext
<1>10. CASE Finish
    <2>1. hpc # "writeBody"
        BY <1>10 DEF Finish, IInv, Phases, Remembered
    <2>2. Answer = Answered(base) /\ Answer' = Answered(base')
        BY <1>10, <2>1 DEF Finish, Answer, Answered
    <2>3. Answer' = O!WithStatus(Answer, 200, "server")
        BY <1>10, <2>2, OperationsMap DEF Finish
    <2>4. Phase = "closed" /\ Phase' = "ended" /\ UNCHANGED <<skip, tw, hpc>>
        BY <1>10 DEF Finish, Phase, tw
    <2>5. O!End
        BY <2>3, <2>4 DEF O!End, tw
    <2> QED
        BY <2>5 DEF O!ONext
<1>11. CASE SetHeaderEnd
    <2>1. Answered(base') = Answered(base) /\ hpc = "hdr" /\ hpc' = "run"
        BY <1>11, OperationsMap DEF SetHeaderEnd
    <2>2. Answer' = Answer
        BY <1>0, <1>11, <2>1, AnswerCases DEF SetHeaderEnd, Answer, Answered
    <2> QED
        BY <1>11, <2>1, <2>2, UnseenStep DEF SetHeaderEnd, tw, Over, Phase
<1>12. CASE DirectWrite
    <2>1. /\ hpc = "run" /\ hpc' = "run" /\ skip /\ ~wroteHeader /\ ~timedOut /\ mpc = "inline"
          /\ UNCHANGED <<skip, tw, mpc>>
        BY <1>12 DEF DirectWrite, IInv, Phases, Untouched, tw
    <2>2. /\ Answer = Answered(base) /\ Answer' = Answered(base')
          /\ Phase = "open" /\ Phase' = "open"
        BY <2>1 DEF Answer, Answered, Phase
    <2>3. \/ \E c \in Codes : Answer' = O!WithStatus(Answer, c, "handler")
          \/ Answer' = O!WithBody(Answer, "handler")
        BY <1>12, <2>2, OperationsMap DEF DirectWrite
    <2>4. UNCHANGED <<skip, timedOut, hpc, wroteHeader>> /\ ~Over
        BY <2>1 DEF tw, Over
    <2>5. wroteHeader' = ~skip
        <3>1. wroteHeader \in BOOLEAN
            BY DEF IInv, TypeOK
        <3> QED
            BY <2>1, <2>4, <3>1
    <2>6. O!HandlerMayWrite
        BY <2>1, <2>2, <2>4, Zenon DEF O!HandlerMayWrite, Over
    <2>7. O!SendStatus \/ O!SendBody
        BY <2>1, <2>2, <2>3, <2>4, <2>5, <2>6, Zenon DEF O!SendStatus, O!SendBody
    <2> QED
        BY <2>7 DEF O!ONext
<1>13. CASE WriteHeader
    <2>1. /\ hpc = "writeHeader" /\ hpc' = "run" /\ code \in Codes /\ ~skip
          /\ UNCHANGED <<skip, timedOut, mpc>>
        BY <1>13 DEF WriteHeader, IInv, Phases, Remembered, MutexHeld
    <2>2. CASE timedOut \/ wroteHeader
        <3>1. UNCHANGED <<wroteHeader, base>>
            BY <1>13, <2>2 DEF WriteHeader
        <3> QED
            BY <2>1, <3>1, UnseenStep DEF Over, Phase, Answer
    <2>3. CASE ~timedOut /\ ~wroteHeader
        <3>1. wroteHeader' = TRUE /\ base' = BaseWriteHeader(base, code, "handler")
            BY <1>13, <2>3 DEF WriteHeader
        <3>2. mpc \in {"select", "setTimedOut"}
            BY <2>1, <2>3 DEF IInv, TypeOK, Phases
        <3>3. /\ Answer = Answered(base) /\ Answer' = Answered(base')
              /\ Phase = "open" /\ Phase' = "open"
            BY <2>1, <3>2 DEF Answer, Answered, Phase
        <3>4. Answer' = O!WithStatus(Answer, code, "handler")
            BY <3>1, <3>3, OperationsMap
        <3>5. wroteHeader' = ~skip
            BY <2>1, <3>1
        <3>6. skip' = skip /\ timedOut' = timedOut /\ ~Over /\ ~Over'
            BY <2>1 DEF Over
        <3>7. Over' = Over /\ Phase' = Phase
            BY <2>1, <3>3 DEF Over
        <3>8. \E c \in Codes : Answer' = O!WithStatus(Answer, c, "handler")
            BY <2>1, <3>4
        <3>9. O!SendStatus
            BY <2>3, <3>3, <3>5, <3>6, <3>7, <3>8, Zenon DEF O!SendStatus, O!HandlerMayWrite, Over
        <3> QED
            BY <3>9 DEF O!ONext
    <2> QED
        BY <2>2, <2>3
<1>14. CASE Write
    <2>1. hpc = "write" /\ ~skip /\ UNCHANGED <<skip, timedOut, mpc>>
        BY <1>14 DEF Write, IInv, Phases, MutexHeld
    <2>2. CASE timedOut
        <3>1. UNCHANGED <<wroteHeader, base>> /\ hpc' = "run"
            BY <1>14, <2>2 DEF Write
        <3> QED
            BY <2>1, <3>1, UnseenStep DEF Over, Phase, Answer
    <2>3. CASE ~timedOut
        <3>1. /\ wroteHeader' = TRUE /\ hpc' = "writeBody"
              /\ base' = IF wroteHeader THEN base ELSE BaseWriteHeader(base, 200, "handler")
            BY <1>14, <2>3 DEF Write
        <3>2. mpc \in {"select", "setTimedOut"}
            BY <2>1, <2>3 DEF IInv, TypeOK, Phases
        <3>3. /\ Answer = Answered(base) /\ Answer' = Answered(BaseWrite(base', "handler"))
              /\ Phase = "open" /\ Phase' = "open"
            BY <2>1, <3>1, <3>2 DEF Answer, Answered, Phase
        <3>4. BaseWrite(BaseWriteHeader(base, 200, "handler"), "handler") = BaseWrite(base, "handler")
            BY TimeoutAssumption DEF BaseWrite, BaseWriteHeader
        <3>5. BaseWrite(base', "handler") = BaseWrite(base, "handler")
            BY <3>1, <3>4
        <3>6. Answer' = O!WithBody(Answer, "handler")
            BY <3>3, <3>5, OperationsMap
        <3>7. wroteHeader' = ~skip
            BY <2>1, <3>1
        <3>8. skip' = skip /\ timedOut' = timedOut /\ ~Over /\ ~Over'
            BY <2>1, <3>1 DEF Over
        <3>9. Over' = Over /\ Phase' = Phase
            BY <2>1, <3>1, <3>3 DEF Over
        <3>10. O!SendBody
            BY <2>3, <3>3, <3>6, <3>7, <3>8, <3>9, Zenon DEF O!SendBody, O!HandlerMayWrite, Over
        <3> QED
            BY <3>10 DEF O!ONext
    <2> QED
        BY <2>2, <2>3
<1>15. CASE WriteBody
    <2>1. /\ hpc = "writeBody" /\ hpc' = "run" /\ base' = BaseWrite(base, "handler")
          /\ UNCHANGED <<skip, tw, mpc>> /\ mpc # "body"
        BY <1>0, <1>15 DEF WriteBody, tw
    <2>2. Answer = Answered(BaseWrite(base, "handler")) /\ Answer' = Answered(base')
        BY <2>1 DEF Answer, Answered
    <2> QED
        BY <2>1, <2>2, UnseenStep DEF tw, Over, Phase
<1>16. CASE HandlerReturn \/ HandlerPanic
    <2>1. /\ hpc = "run" /\ hpc' \in {"finished", "panicked"} /\ UNCHANGED <<skip, tw, mpc, base>>
        BY <1>16 DEF HandlerReturn, HandlerPanic, tw
    <2>2. Answer' = Answer /\ Phase' = Phase
        BY <2>1 DEF Answer, Phase
    <2>3. O!EndHandler
        BY <2>1, <2>2 DEF O!EndHandler, tw
    <2> QED
        BY <2>3 DEF O!ONext
<1> QED
    BY <1>1, <1>2, <1>3, <1>4, <1>5, <1>6, <1>7, <1>8, <1>9, <1>10, <1>11, <1>12, <1>13, <1>14,
       <1>15, <1>16
    DEF Next, Middleware, Handler, HandlerOperation, vars, Deadline, ParentCancel,
        PanicCrash, HeaderRace

\* The two goroutines answer the client as one would: each WriteHeader and Write
\* of the handler counts whole or not at all, none once the timeout has sealed
\* the answer, and the 503 goes out only where the handler has begun nothing
\* (tw.mu and the two flags, timeout.go 44-97 and 141-166).
THEOREM AnswersOnce == Spec => ImplementsOneAnswer
<1>1. Init => IInv /\ Untouched /\ O!OInit
    <2> SUFFICES ASSUME Init
                 PROVE  IInv /\ Untouched /\ O!OInit
        OBVIOUS
    <2>1. Untouched
        BY DEF Init, NothingSent, Untouched
    <2>2. Answer = O!NoAnswer /\ Phase = "open" /\ ~Over
        BY DEF Init, NothingSent, Answer, O!NoAnswer, Phase, Over
    <2>3. skip \in BOOLEAN /\ wroteHeader = FALSE /\ timedOut = FALSE /\ Over = FALSE
        BY DEF Init, Over
    <2>4. O!OInit
        BY <2>2, <2>3, Zenon DEF O!OInit, Over
    <2> QED
        BY <2>1, <2>4, InitIInv
<1>2. IInv /\ Untouched /\ [Next]_vars =>
        (IInv /\ Untouched)' /\ [O!ONext]_(O!ovars)
    BY IInvNext, UntouchedNext, StepIsAnswerStep
<1> QED
    BY <1>1, <1>2, PTL DEF Spec, ImplementsOneAnswer, O!OSpec

=============================================================================
