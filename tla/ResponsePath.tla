---------------------------- MODULE ResponsePath ----------------------------
(***************************************************************************)
(* One response on its way from a handler to net/http through the writers  *)
(* that recovery, mwlog and timeout put around it, in any order of the     *)
(* three, and the way back: a return or a panic that unwinds through the   *)
(* middlewares.  Each wrapper decides from what it remembers itself        *)
(* whether a status goes further; recovery decides from its own flag       *)
(* whether a panic may still be answered, and mwlog logs its own copy of   *)
(* status and size.                                                        *)
(*                                                                         *)
(* A layer is one of the middlewares; layer 1 is the outermost and wraps   *)
(* the writer of net/http.  A path that mwlog excludes, or timeout skips,  *)
(* has no such layer.  The timeout layer divides the request between two   *)
(* goroutines: the handler and the layers inside it run on one, the        *)
(* timeout and the layers outside it on the other.  An operation of the    *)
(* handler is one step: what it does beyond the timeout layer it does      *)
(* under tw.mu (module Timeout takes it apart).  Recovery's answer is two  *)
(* operations, a status and a body, between which a deadline may pass.     *)
(***************************************************************************)
EXTENDS Naturals, Sequences, FiniteSets

CONSTANTS
    Orders,          \* the orders of the layers
    Codes,           \* status codes the handler may pass to WriteHeader
    Informational,   \* those of them that are 1xx
    MaxWrites        \* bound: body writes of the handler

ASSUME ResponsePathAssumption ==
    /\ Orders \subseteq Seq({"log", "recovery", "timeout"})
    /\ \A o \in Orders : \A i, j \in 1..Len(o) : o[i] = "timeout" /\ o[j] = "timeout" => i = j
    /\ Codes \subseteq Nat \ {0}
    /\ Informational \subseteq Codes
    /\ {200, 500, 503} \cap Informational = {}
    /\ MaxWrites \in Nat

VARIABLES
    order,    \* the layers of this request
    at,       \* per goroutine, the innermost of its layers it has not left
    mode,     \* per goroutine: run, select, answer, return, panic, recovering, done or aborted
    path,     \* layer: what each wrapper remembers; base: what net/http sent
    entry,    \* the log entry of each layer
    clean,    \* history: when the handler panicked, had nothing been sent, not even a 1xx?
    proc      \* up, or crashed

vars == <<order, at, mode, path, entry, clean, proc>>

Statuses == Codes \cup {200, 500, 503}

NoEntry == [status |-> 0, bytes |-> 0]

Layers == 1..Len(order)

\* The timeout layer, or 0.
Boundary ==
    IF \E i \in Layers : order[i] = "timeout"
    THEN CHOOSE i \in Layers : order[i] = "timeout" ELSE 0

\* The goroutine net/http has started for the request.
Outer == IF Boundary = 0 THEN "handler" ELSE "server"

-----------------------------------------------------------------------------
\* The writers.  An operation on the writer of layer k goes outwards from
\* layer k to layer 1 and then to net/http, as far as the layers let it.

\* Mutation: mwlog starts without a status.
FreshLayerZero(l) == [wrote |-> FALSE, status |-> 0, bytes |-> 0, timedOut |-> FALSE]

\* A new wrapper: mwlog presets the status that net/http will imply.
FreshLayer(l) ==
    [wrote |-> FALSE, status |-> IF l = "log" THEN 200 ELSE 0, bytes |-> 0, timedOut |-> FALSE]

\* net/http: the first final status counts; a 1xx status is sent at once and
\* leaves the final one open.  After Hijack there is nothing to send it on.
BaseStatus(b, c) ==
    IF b.status # 0 \/ b.hijacked THEN b
    ELSE IF c \in Informational THEN [b EXCEPT !.early = TRUE]
    ELSE [b EXCEPT !.status = c]

BaseWrite(b, who) ==
    IF b.hijacked THEN b
    ELSE [BaseStatus(b, 200) EXCEPT !.bytes = @ + 1, !.authors = @ \cup {who}]

\* Mutation: a repeated WriteHeader is not forwarded but remembered.
WriteHeaderRemembered(p, k, c) ==
    LET open(i) == \A j \in i..k : ~p.layer[j].wrote /\ ~p.layer[j].timedOut
    IN  [layer |-> [i \in DOMAIN p.layer |->
                      IF i <= k /\ (i = k \/ open(i))
                      THEN [p.layer[i] EXCEPT !.wrote = TRUE, !.status = c]
                      ELSE p.layer[i]],
         base  |-> IF open(1) THEN BaseStatus(p.base, c) ELSE p.base]

\* WriteHeader(c): the first one is remembered and forwarded, others end here,
\* as does one that comes too late for timeout's writer.
WriteHeader(p, k, c) ==
    LET open(i) == \A j \in i..k : ~p.layer[j].wrote /\ ~p.layer[j].timedOut
    IN  [layer |-> [i \in DOMAIN p.layer |->
                      IF i <= k /\ open(i)
                      THEN [p.layer[i] EXCEPT !.wrote = TRUE, !.status = c]
                      ELSE p.layer[i]],
         base  |-> IF open(1) THEN BaseStatus(p.base, c) ELSE p.base]

\* Mutation: timeout's writer only drops a late status.
WriteLate(p, k, who) ==
    [layer |-> [i \in DOMAIN p.layer |->
                  IF i <= k
                  THEN [p.layer[i] EXCEPT !.wrote = TRUE, !.bytes = @ + 1,
                                          !.status = IF p.layer[i].wrote THEN @ ELSE 200]
                  ELSE p.layer[i]],
     base  |-> BaseWrite(p.base, who)]

\* Write: implies status 200 wherever none is remembered, and goes on; only a
\* writer that has timed out ends it.  What was not sent does not count.
Write(p, k, who) ==
    LET passes(i) == \A j \in i..k : ~p.layer[j].timedOut
        sent == IF passes(1) /\ ~p.base.hijacked THEN 1 ELSE 0
    IN  [layer |-> [i \in DOMAIN p.layer |->
                      IF i <= k /\ passes(i)
                      THEN [p.layer[i] EXCEPT !.wrote = TRUE, !.bytes = @ + sent,
                                              !.status = IF p.layer[i].wrote THEN @ ELSE 200]
                      ELSE p.layer[i]],
         base  |-> IF passes(1) THEN BaseWrite(p.base, who) ELSE p.base]

\* The error response of timeout, a status and a body.  Only the goroutine that
\* writes it reaches the writers outside the timeout layer by then, so that
\* nothing can come between the two.
Respond(p, k, c, who) == Write(WriteHeader(p, k, c), k, who)

\* Only mwlog's writer can pass on a Flush or a Hijack.
Transparent(k) == \A i \in 1..k : order[i] = "log"

\* net/http sends the header it has, with status 200 if none was given.
Flush(p, k) ==
    IF Transparent(k) /\ p.base.status = 0 /\ ~p.base.hijacked
    THEN [p EXCEPT !.base.status = 200, !.base.bypassed = TRUE] ELSE p

\* The connection is the handler's; nothing more goes through net/http.
Hijack(p, k) ==
    IF Transparent(k) THEN [p EXCEPT !.base.hijacked = TRUE, !.base.bypassed = TRUE] ELSE p

-----------------------------------------------------------------------------

Goroutines == {"handler", "server"}

TypeOK ==
    /\ order \in Orders
    /\ at \in [Goroutines -> 0..Len(order)]
    /\ mode \in [Goroutines ->
                   {"run", "select", "answer", "return", "panic", "recovering",
                    "done", "aborted"}]
    /\ path \in [layer : [Layers -> [wrote : BOOLEAN, status : Statuses \cup {0},
                                     bytes : Nat, timedOut : BOOLEAN]],
                 base  : [status : Statuses \cup {0}, bytes : Nat,
                          authors : SUBSET {"handler", "recovery", "timeout"},
                          early : BOOLEAN, hijacked : BOOLEAN, bypassed : BOOLEAN]]
    /\ \A i \in Layers : order[i] = "log" => path.layer[i].status # 0
    /\ entry \in [Layers -> [status : Statuses \cup {0}, bytes : Nat]]
    /\ clean \in BOOLEAN
    /\ proc \in {"up", "crashed"}

Init ==
    /\ order \in Orders
    /\ at = [handler |-> Len(order), server |-> Boundary]
    /\ mode = [handler |-> "run", server |-> "select"]
    /\ path = [layer |-> [i \in Layers |-> FreshLayer(order[i])],
               base  |-> [status |-> 0, bytes |-> 0, authors |-> {},
                          early |-> FALSE, hijacked |-> FALSE, bypassed |-> FALSE]]
    /\ entry = [i \in Layers |-> NoEntry]
    /\ clean = FALSE
    /\ proc = "up"

-----------------------------------------------------------------------------
\* The handler, inside all layers.

HandlerRuns == mode["handler"] = "run"

HandlerDoes(p) ==
    /\ HandlerRuns
    /\ path' = p
    /\ UNCHANGED <<order, at, mode, entry, clean, proc>>

HandlerWriteHeader == \E c \in Codes : HandlerDoes(WriteHeader(path, Len(order), c))

HandlerWrite ==
    /\ path.base.bytes < MaxWrites
    /\ HandlerDoes(Write(path, Len(order), "handler"))

HandlerFlush == HandlerDoes(Flush(path, Len(order)))

HandlerHijack == HandlerDoes(Hijack(path, Len(order)))

HandlerReturn ==
    /\ HandlerRuns
    /\ mode' = [mode EXCEPT !["handler"] = "return"]
    /\ UNCHANGED <<order, at, path, entry, clean, proc>>

HandlerPanic ==
    /\ HandlerRuns
    /\ mode' = [mode EXCEPT !["handler"] = "panic"]
    /\ clean' = (path.base.status = 0 /\ ~path.base.early)
    /\ UNCHANGED <<order, at, path, entry, proc>>

-----------------------------------------------------------------------------
\* The middlewares, from the innermost outwards, each on its goroutine.

Floor(g) == IF g = "handler" THEN Boundary ELSE 0

\* Goroutine g, which is unwinding, leaves its innermost layer.
Leaves(g, layer) ==
    /\ mode[g] \in {"return", "panic"}
    /\ at[g] > Floor(g)
    /\ order[at[g]] = layer
    /\ at' = [at EXCEPT ![g] = @ - 1]

\* mwlog logs after next.ServeHTTP has returned, and has no deferred function,
\* so that a panic passes it by.
LeaveLog(g) ==
    /\ Leaves(g, "log")
    /\ \/ /\ mode[g] = "return"
          /\ entry' = [entry EXCEPT ![at[g]] = [status |-> path.layer[at[g]].status,
                                                bytes  |-> path.layer[at[g]].bytes]]
       \/ mode[g] = "panic" /\ UNCHANGED entry
    /\ UNCHANGED <<order, mode, path, clean, proc>>

RecoveryReturn(g) ==
    /\ mode[g] = "return"
    /\ Leaves(g, "recovery")
    /\ UNCHANGED <<order, mode, path, entry, clean, proc>>

\* Mutation: handlePanic does not look at written.
RecoverAlwaysWrites(g) ==
    /\ mode[g] = "panic"
    /\ Leaves(g, "recovery")
    /\ mode' = [mode EXCEPT ![g] = "recovering"]
    /\ path' = WriteHeader(path, at[g] - 1, 500)
    /\ UNCHANGED <<order, entry, clean, proc>>

\* Mutation: handlePanic only logs.
RecoverSilently(g) ==
    /\ mode[g] = "panic"
    /\ Leaves(g, "recovery")
    /\ mode' = [mode EXCEPT ![g] = "return"]
    /\ UNCHANGED <<order, path, entry, clean, proc>>

\* recover() and handlePanic: only if its own wrapper has seen nothing, the
\* status 500 goes to the writer recovery was given, that of layer at - 1 ...
Recover(g) ==
    /\ mode[g] = "panic"
    /\ Leaves(g, "recovery")
    /\ \/ /\ path.layer[at[g]].wrote
          /\ mode' = [mode EXCEPT ![g] = "return"]
          /\ UNCHANGED path
       \/ /\ ~path.layer[at[g]].wrote
          /\ mode' = [mode EXCEPT ![g] = "recovering"]
          /\ path' = WriteHeader(path, at[g] - 1, 500)
    /\ UNCHANGED <<order, entry, clean, proc>>

\* ... and then, to the same writer, the body.
RecoverBody(g) ==
    /\ mode[g] = "recovering"
    /\ mode' = [mode EXCEPT ![g] = "return"]
    /\ path' = Write(path, at[g], "recovery")
    /\ UNCHANGED <<order, at, entry, clean, proc>>

-----------------------------------------------------------------------------
\* The timeout layer, on the server's goroutine.

Selects == Boundary > 0 /\ mode["server"] = "select"

\* The handler's goroutine has ended and, by a panic or not, closed done.
SelectDone ==
    /\ Selects
    /\ at["handler"] = Boundary /\ mode["handler"] \in {"return", "panic"}
    /\ mode' = [mode EXCEPT !["server"] = "return"]
    /\ at' = [at EXCEPT !["server"] = Boundary - 1]
    /\ UNCHANGED <<order, path, entry, clean, proc>>

\* The context may end at any moment; timeout's writer lets nothing more through.
SelectTimeout ==
    /\ Selects
    /\ mode' = [mode EXCEPT !["server"] = "answer"]
    /\ path' = [path EXCEPT !.layer[Boundary].timedOut = TRUE]
    /\ UNCHANGED <<order, at, entry, clean, proc>>

\* The 503 goes to the writer timeout was given, if nothing went through its own.
TimeoutAnswer ==
    /\ mode["server"] = "answer"
    /\ \/ path.layer[Boundary].wrote /\ UNCHANGED path
       \/ ~path.layer[Boundary].wrote /\ path' = Respond(path, Boundary - 1, 503, "timeout")
    /\ mode' = [mode EXCEPT !["server"] = "return"]
    /\ at' = [at EXCEPT !["server"] = Boundary - 1]
    /\ UNCHANGED <<order, entry, clean, proc>>

\* A panic no layer of the timeout's goroutine has recovered ends the process.
PanicCrash ==
    /\ Boundary > 0
    /\ at["handler"] = Boundary /\ mode["handler"] = "panic"
    /\ proc' = "crashed"
    /\ UNCHANGED <<order, at, mode, path, entry, clean>>

\* net/http ends the response, or drops the connection after a panic.
Finish ==
    /\ at[Outer] = 0
    /\ \/ /\ mode[Outer] = "return"
          /\ mode' = [mode EXCEPT ![Outer] = "done"]
          /\ path' = [path EXCEPT !.base = BaseStatus(@, 200)]
       \/ /\ mode[Outer] = "panic"
          /\ mode' = [mode EXCEPT ![Outer] = "aborted"]
          /\ UNCHANGED path
    /\ UNCHANGED <<order, at, entry, clean, proc>>

Next ==
    /\ proc = "up"
    /\ \/ HandlerWriteHeader \/ HandlerWrite \/ HandlerFlush \/ HandlerHijack
       \/ HandlerReturn \/ HandlerPanic
       \/ \E g \in Goroutines : LeaveLog(g) \/ RecoveryReturn(g) \/ Recover(g) \/ RecoverBody(g)
       \/ SelectDone \/ SelectTimeout \/ TimeoutAnswer \/ PanicCrash \/ Finish

Spec == Init /\ [][Next]_vars

-----------------------------------------------------------------------------
\* Properties.

Answered == mode[Outer] = "done"

\* Can a panic of the handler reach a recovery layer on its own goroutine?
Guarded == \E i \in Layers : i > Boundary /\ order[i] = "recovery"

\* Has the deadline of the request passed before its handler was done?
TimedOut == Boundary > 0 /\ path.layer[Boundary].timedOut

\* A panic before anything was sent is answered with the 500, wherever on the
\* handler's goroutine the recovery layer is ("On panic, it ... returns a 500
\* Internal Server Error"), or with the 503 of a timeout that came before it.
\* The 500 lacks its body only if the deadline passed between the two.
PanicIsAnswered ==
    Answered /\ clean /\ Guarded =>
        \/ /\ path.base.status = 500
           /\ \/ path.base.authors = {"recovery"}
              \/ path.base.authors = {} /\ TimedOut
        \/ path.base.status = 503 /\ path.base.authors = {"timeout"}

\* The body of a response has one author: no error response is appended to one
\* the handler had begun ("writing would result in corrupted output"), and the
\* handler does not add to the 503, although up to three writers each go by
\* what they have seen themselves.
NoMixedBody == Cardinality(path.base.authors) <= 1

\* The status and the size in the entry of a log layer outside the timeout are
\* those the client received, unless the handler settled the status by a Flush
\* or a Hijack, which go past mwlog's bookkeeping, or began with a 1xx status,
\* which mwlog takes for the final one.
LogMatchesClient ==
    Answered => \A i \in Layers :
        entry[i] # NoEntry /\ (Boundary = 0 \/ i < Boundary) =>
            /\ entry[i].bytes = path.base.bytes
            /\ \/ path.base.bypassed \/ path.base.early
               \/ entry[i].status = path.base.status

\* A handler that outlives its request, and whatever recovers its late panic,
\* changes nothing in the response once net/http has ended it, nor in what the
\* log layers outside the timeout have written of it.
FinishedIsFinal ==
    [][Answered =>
         /\ path'.base = path.base
         /\ \A i \in Layers : Boundary = 0 \/ i < Boundary => entry'[i] = entry[i]]_vars

\* Every request that is answered through the logging middleware is logged,
\* also when its handler panicked ("to log all requests including recovered
\* panics").
EveryRequestLogged ==
    Answered => \A i \in Layers : order[i] = "log" => entry[i] # NoEntry

\* "Catches panics in handlers": with a recovery layer around it, a panic does
\* not end the process, and with it every other request.
PanicIsContained == (\E i \in Layers : order[i] = "recovery") => proc = "up"

=============================================================================
