------------------------------ MODULE Timeout ------------------------------
(***************************************************************************)
(* One request through timeout.Middleware (timeout/timeout.go).  Three     *)
(* parties act on it: the goroutine that runs the middleware, the          *)
(* goroutine it starts for the next handler, and the context, whose        *)
(* deadline may pass and whose parent may be cancelled at any moment.  The *)
(* two goroutines share the timeoutWriter tw, which tw.mu protects, and    *)
(* the http.ResponseWriter below it, which nothing protects.               *)
(*                                                                         *)
(* A header, a body and a status are known by who wrote them: the handler, *)
(* the timeout branch of the middleware, or the server (the implicit 200   *)
(* of a request that returns with nothing written).                        *)
(***************************************************************************)
EXTENDS Naturals, FiniteSets

CONSTANTS
    Codes,           \* status codes the handler may pass to WriteHeader
    Informational,   \* those of them that are 1xx
    HandlerPanics    \* may the handler panic?

ASSUME TimeoutAssumption ==
    /\ Codes \subseteq Nat \ {0}
    /\ Informational \subseteq Codes
    /\ {200, 503} \cap Informational = {}
    /\ HandlerPanics \in BOOLEAN

VARIABLES
    skip,   \* is the path one of SkipPaths?
    ctx,    \* the context of the request: live, deadline or cancelled
    mu,     \* tw.mu: free, or held by the handler's goroutine
    timedOut, wroteHeader,  \* the flags of the timeoutWriter, under tw.mu
    mpc,    \* the middleware's goroutine
    hpc,    \* the handler's goroutine
    code,   \* the argument of the handler's WriteHeader in progress
    done,   \* is the done channel closed?
    base,   \* the ResponseWriter of the server
    proc    \* up, or crashed

tw == <<timedOut, wroteHeader>>

vars == <<skip, ctx, mu, timedOut, wroteHeader, mpc, hpc, code, done, base, proc>>

Authors == {"handler", "timeout", "server"}

-----------------------------------------------------------------------------
\* The server's ResponseWriter: net/http, as the code uses it.

NothingSent == [status |-> 0, by |-> "none", headers |-> {}, body |-> {}, early |-> 0]

\* The first final status is the status of the response; a 1xx status is sent
\* at once (early is the last of them) and leaves the final one open.
BaseWriteHeader(b, c, who) ==
    IF b.status # 0 THEN b
    ELSE IF c \in Informational
    THEN [status |-> 0, by |-> b.by, headers |-> b.headers, body |-> b.body, early |-> c]
    ELSE [status |-> c, by |-> who, headers |-> b.headers, body |-> b.body, early |-> b.early]

AddBody(b, who) ==
    [status |-> b.status, by |-> b.by, headers |-> b.headers, body |-> b.body \cup {who},
     early |-> b.early]

BaseWrite(b, who) == AddBody(BaseWriteHeader(b, 200, who), who)

BaseSetHeader(b, who) ==
    [status |-> b.status, by |-> b.by, headers |-> b.headers \cup {who}, body |-> b.body,
     early |-> b.early]

-----------------------------------------------------------------------------

TypeOK ==
    /\ skip \in BOOLEAN
    /\ ctx \in {"live", "deadline", "cancelled"}
    /\ mu \in {"free", "handler"}
    /\ timedOut \in BOOLEAN /\ wroteHeader \in BOOLEAN
    /\ mpc \in {"start", "inline", "select", "setTimedOut", "hasWritten",
                "setHeaders", "commit", "body", "returned", "panicked", "finished"}
    /\ hpc \in {"none", "run", "hdr", "writeHeader", "write", "writeBody",
                "finished", "panicked"}
    /\ code \in Codes \cup {0}
    /\ done \in BOOLEAN
    /\ base \in [status : Codes \cup {0, 200, 503}, by : Authors \cup {"none"},
                 headers : SUBSET Authors, body : SUBSET Authors, early : Informational \cup {0}]
    /\ proc \in {"up", "crashed"}

Init ==
    /\ skip \in BOOLEAN
    /\ ctx = "live"
    /\ mu = "free"
    /\ timedOut = FALSE /\ wroteHeader = FALSE
    /\ mpc = "start"
    /\ hpc = "none"
    /\ code = 0
    /\ done = FALSE
    /\ base = NothingSent
    /\ proc = "up"

-----------------------------------------------------------------------------
\* The middleware's goroutine.

\* A skipped path runs the handler here, on the server's own writer.
Inline ==
    /\ mpc = "start" /\ skip
    /\ mpc' = "inline"
    /\ hpc' = "run"
    /\ UNCHANGED <<skip, ctx, mu, tw, code, done, base, proc>>

\* Otherwise it arms the deadline and starts the handler's goroutine.
Spawn ==
    /\ mpc = "start" /\ ~skip
    /\ mpc' = "select"
    /\ hpc' = "run"
    /\ UNCHANGED <<skip, ctx, mu, tw, code, done, base, proc>>

\* Returning runs the deferred cancel().
Return ==
    /\ mpc' = "returned"
    /\ ctx' = IF ctx = "live" THEN "cancelled" ELSE ctx

\* Mutation: the select has a default branch and waits for nothing.
SelectDoneEarly ==
    /\ mpc = "select"
    /\ Return
    /\ UNCHANGED <<skip, mu, tw, hpc, code, done, base, proc>>

\* select takes either branch when both channels are ready.
SelectDone ==
    /\ mpc = "select" /\ done
    /\ Return
    /\ UNCHANGED <<skip, mu, tw, hpc, code, done, base, proc>>

\* Mutation: the timeout branch waits for the handler before it goes on.
SelectTimeoutAfterHandler ==
    /\ mpc = "select" /\ ctx # "live" /\ done
    /\ mpc' = "setTimedOut"
    /\ UNCHANGED <<skip, ctx, mu, tw, hpc, code, done, base, proc>>

\* Mutation: the timeout branch does not mark the writer.
SelectTimeoutUnmarked ==
    /\ mpc = "select" /\ ctx # "live"
    /\ mpc' = "hasWritten"
    /\ UNCHANGED <<skip, ctx, mu, tw, hpc, code, done, base, proc>>

SelectTimeout ==
    /\ mpc = "select" /\ ctx # "live"
    /\ mpc' = "setTimedOut"
    /\ UNCHANGED <<skip, ctx, mu, tw, hpc, code, done, base, proc>>

\* tw.setTimedOut(), under tw.mu.
SetTimedOut ==
    /\ mpc = "setTimedOut" /\ mu = "free"
    /\ timedOut' = TRUE
    /\ mpc' = "hasWritten"
    /\ UNCHANGED <<skip, ctx, mu, wroteHeader, hpc, code, done, base, proc>>

\* Mutation: the outcome of hasWritten is ignored.
HasWrittenIgnored ==
    /\ mpc = "hasWritten" /\ mu = "free"
    /\ mpc' = "setHeaders"
    /\ UNCHANGED <<skip, ctx, mu, tw, hpc, code, done, base, proc>>

\* tw.hasWritten(), under tw.mu: a response that was begun is left alone.
HasWritten ==
    /\ mpc = "hasWritten" /\ mu = "free"
    /\ \/ wroteHeader /\ Return
       \/ ~wroteHeader /\ mpc' = "setHeaders" /\ UNCHANGED ctx
    /\ UNCHANGED <<skip, mu, tw, hpc, code, done, base, proc>>

\* The timeout response goes to the server's writer without tw.mu.
SetHeaders ==
    /\ mpc = "setHeaders"
    /\ base' = BaseSetHeader(base, "timeout")
    /\ mpc' = "commit"
    /\ UNCHANGED <<skip, ctx, mu, tw, hpc, code, done, proc>>

\* Mutation: the status of the core error, which does not know the code.
CommitUnmapped ==
    /\ mpc = "commit"
    /\ base' = BaseWriteHeader(base, 500, "timeout")
    /\ mpc' = "body"
    /\ UNCHANGED <<skip, ctx, mu, tw, hpc, code, done, proc>>

Commit ==
    /\ mpc = "commit"
    /\ base' = BaseWriteHeader(base, 503, "timeout")
    /\ mpc' = "body"
    /\ UNCHANGED <<skip, ctx, mu, tw, hpc, code, done, proc>>

\* WriteJSON, or http.Error when it fails: the body, or none if the write fails.
Body ==
    /\ mpc = "body"
    /\ base' \in {base, BaseWrite(base, "timeout")}
    /\ Return
    /\ UNCHANGED <<skip, mu, tw, hpc, code, done, proc>>

\* A skipped request returns, or panics, with its handler.
ReturnInline ==
    /\ mpc = "inline" /\ hpc \in {"finished", "panicked"}
    /\ mpc' = IF hpc = "finished" THEN "returned" ELSE "panicked"
    /\ UNCHANGED <<skip, ctx, mu, tw, hpc, code, done, base, proc>>

\* The server ends the response once the middleware has returned.
Finish ==
    /\ mpc = "returned"
    /\ base' = BaseWriteHeader(base, 200, "server")
    /\ mpc' = "finished"
    /\ UNCHANGED <<skip, ctx, mu, tw, hpc, code, done, proc>>

-----------------------------------------------------------------------------
\* The handler: any sequence of header, status and body operations.

\* Header() is promoted from the embedded writer: no lock, no timedOut check.
SetHeaderBegin ==
    /\ hpc = "run"
    /\ hpc' = "hdr"
    /\ UNCHANGED <<skip, ctx, mu, tw, mpc, code, done, base, proc>>

SetHeaderEnd ==
    /\ hpc = "hdr"
    /\ base' = BaseSetHeader(base, "handler")
    /\ hpc' = "run"
    /\ UNCHANGED <<skip, ctx, mu, tw, mpc, code, done, proc>>

\* On a skipped path the handler holds the server's writer itself.
DirectWrite ==
    /\ hpc = "run" /\ skip
    /\ \/ \E c \in Codes : base' = BaseWriteHeader(base, c, "handler")
       \/ base' = BaseWrite(base, "handler")
    /\ UNCHANGED <<skip, ctx, mu, tw, mpc, hpc, code, done, proc>>

\* tw.WriteHeader(c) and tw.Write take tw.mu before they look at anything.
LockWriteHeader ==
    /\ hpc = "run" /\ ~skip /\ mu = "free"
    /\ mu' = "handler"
    /\ hpc' = "writeHeader"
    /\ code' \in Codes
    /\ UNCHANGED <<skip, ctx, tw, mpc, done, base, proc>>

\* Mutation: wroteHeader is set before timedOut is looked at.
WriteHeaderMarksFirst ==
    /\ hpc = "writeHeader"
    /\ wroteHeader' = TRUE
    /\ base' = IF timedOut \/ wroteHeader
               THEN base ELSE BaseWriteHeader(base, code, "handler")
    /\ mu' = "free"
    /\ hpc' = "run"
    /\ code' = 0
    /\ UNCHANGED <<skip, ctx, timedOut, mpc, done, proc>>

WriteHeader ==
    /\ hpc = "writeHeader"
    /\ \/ /\ timedOut \/ wroteHeader
          /\ UNCHANGED <<wroteHeader, base>>
       \/ /\ ~timedOut /\ ~wroteHeader
          /\ wroteHeader' = TRUE
          /\ base' = BaseWriteHeader(base, code, "handler")
    /\ mu' = "free"
    /\ hpc' = "run"
    /\ code' = 0
    /\ UNCHANGED <<skip, ctx, timedOut, mpc, done, proc>>

LockWrite ==
    /\ hpc = "run" /\ ~skip /\ mu = "free"
    /\ mu' = "handler"
    /\ hpc' = "write"
    /\ UNCHANGED <<skip, ctx, tw, mpc, code, done, base, proc>>

\* Mutation: Write does not look at timedOut.
WriteUnchecked ==
    /\ hpc = "write"
    /\ wroteHeader' = TRUE
    /\ base' = IF wroteHeader THEN base ELSE BaseWriteHeader(base, 200, "handler")
    /\ hpc' = "writeBody"
    /\ UNCHANGED <<skip, ctx, mu, timedOut, mpc, code, done, proc>>

\* Write fails after the timeout; else it sends the implicit 200 ...
Write ==
    /\ hpc = "write"
    /\ \/ /\ timedOut
          /\ mu' = "free"
          /\ hpc' = "run"
          /\ UNCHANGED <<wroteHeader, base>>
       \/ /\ ~timedOut
          /\ wroteHeader' = TRUE
          /\ base' = IF wroteHeader THEN base ELSE BaseWriteHeader(base, 200, "handler")
          /\ hpc' = "writeBody"
          /\ UNCHANGED mu
    /\ UNCHANGED <<skip, ctx, timedOut, mpc, code, done, proc>>

\* ... and then the body, still under tw.mu.
WriteBody ==
    /\ hpc = "writeBody"
    /\ base' = BaseWrite(base, "handler")
    /\ mu' = "free"
    /\ hpc' = "run"
    /\ UNCHANGED <<skip, ctx, tw, mpc, code, done, proc>>

\* The handler returns; the deferred close(done) runs.
HandlerReturn ==
    /\ hpc = "run"
    /\ hpc' = "finished"
    /\ \/ skip /\ UNCHANGED done
       \/ ~skip /\ done' = TRUE
    /\ UNCHANGED <<skip, ctx, mu, tw, mpc, code, base, proc>>

\* The handler panics; close(done) still runs.
HandlerPanic ==
    /\ HandlerPanics
    /\ hpc = "run"
    /\ hpc' = "panicked"
    /\ \/ skip /\ UNCHANGED done
       \/ ~skip /\ done' = TRUE
    /\ UNCHANGED <<skip, ctx, mu, tw, mpc, code, base, proc>>

-----------------------------------------------------------------------------
\* The context and the runtime.

Deadline ==
    /\ mpc # "start" /\ ~skip /\ ctx = "live"
    /\ ctx' = "deadline"
    /\ UNCHANGED <<skip, mu, tw, mpc, hpc, code, done, base, proc>>

ParentCancel ==
    /\ ctx = "live"
    /\ ctx' = "cancelled"
    /\ UNCHANGED <<skip, mu, tw, mpc, hpc, code, done, base, proc>>

\* A panic that leaves the goroutine started by Spawn ends the process.
PanicCrash ==
    /\ hpc = "panicked" /\ ~skip
    /\ proc' = "crashed"
    /\ UNCHANGED <<skip, ctx, mu, tw, mpc, hpc, code, done, base>>

\* Two goroutines in the header map at once: the runtime may notice, and
\* then it ends the process.  The timeout response sets headers and sends
\* them, and the server looks at them once more when it ends the response.
HeaderRace ==
    /\ hpc = "hdr"
    /\ mpc \in {"setHeaders", "commit", "body", "returned"}
    /\ proc' = "crashed"
    /\ UNCHANGED <<skip, ctx, mu, tw, mpc, hpc, code, done, base>>

Middleware ==
    \/ Inline \/ Spawn \/ SelectDone \/ SelectTimeout \/ SetTimedOut \/ HasWritten
    \/ SetHeaders \/ Commit \/ Body \/ ReturnInline \/ Finish

\* The rest of an operation the handler has begun.
HandlerOperation == SetHeaderEnd \/ WriteHeader \/ Write \/ WriteBody

Handler ==
    \/ SetHeaderBegin \/ DirectWrite \/ LockWriteHeader \/ LockWrite
    \/ HandlerReturn \/ HandlerPanic \/ HandlerOperation

Next ==
    /\ proc = "up"
    /\ Middleware \/ Handler \/ Deadline \/ ParentCancel \/ PanicCrash \/ HeaderRace

Spec == Init /\ [][Next]_vars

Up(A) == proc = "up" /\ A

\* The steps of the middleware that give nothing to the writer of the server.
Computes ==
    \/ Inline \/ Spawn \/ SelectDone \/ SelectTimeout \/ SetTimedOut \/ HasWritten
    \/ SetHeaders \/ ReturnInline

\* The scheduler runs the middleware and timers fire.  A sync.Mutex that is
\* taken again and again is still handed to a waiter (starvation mode), so
\* the two steps that need it are strongly fair.  Nothing makes a write to the
\* server's writer return, for the client may have stopped reading, and nothing
\* makes the handler begin an operation, return, or look at its context.
FairSpec ==
    /\ Spec
    /\ WF_vars(Up(Computes)) /\ WF_vars(Up(Deadline))
    /\ SF_vars(Up(SetTimedOut)) /\ SF_vars(Up(HasWritten))

-----------------------------------------------------------------------------
\* Properties.

\* The client gets one response: its status and its body have one author,
\* whatever the order of the handler's writes and the timeout.
OneAuthor == base.body \subseteq {base.by}

\* Once the middleware has returned, a handler that is still running cannot
\* touch status or body: only the server's implicit 200 may follow.
SealedAfterReturn ==
    [][(mpc \in {"returned", "finished"}) =>
         /\ base.body' = base.body
         /\ base.status' # base.status => base.by' = "server"]_vars

\* tw.mu is held exactly while the handler is inside WriteHeader or Write.
MutexHeld == mu = "handler" <=> hpc \in {"writeHeader", "write", "writeBody"}

\* How far the two goroutines can be apart.
Phases ==
    /\ mpc = "start" <=> hpc = "none"
    /\ mpc \in {"hasWritten", "setHeaders", "commit", "body"} => timedOut
    /\ timedOut => mpc \notin {"start", "inline", "select", "setTimedOut", "panicked"}
    /\ mpc \in {"returned", "finished"} => skip \/ done \/ timedOut
    /\ skip => /\ mpc \in {"start", "inline", "returned", "finished", "panicked"}
               /\ mpc \in {"start", "inline"} \/ hpc \in {"finished", "panicked"}
               /\ ~done /\ ~timedOut /\ mu = "free"
    /\ ~skip => /\ mpc \notin {"inline", "panicked"}
                /\ done <=> hpc \in {"finished", "panicked"}

\* What the timeoutWriter remembers agrees with what has been sent.
Remembered ==
    /\ mpc \in {"setHeaders", "commit", "body"} => ~wroteHeader
    /\ hpc = "writeBody" => ~timedOut /\ wroteHeader
    /\ hpc = "writeHeader" => code \in Codes
    /\ base.status = 0 <=> base.by = "none"
    /\ base.by = "handler" => skip \/ wroteHeader
    /\ base.by = "server" => mpc = "finished"
    /\ mpc = "finished" => base.status # 0
    /\ base.by = "timeout" =>
         /\ base.status = 503 /\ timedOut /\ ~wroteHeader
         /\ mpc \in {"body", "returned", "finished"}
    /\ mpc = "body" => base.by = "timeout"
    /\ mpc \in {"returned", "finished"} /\ timedOut /\ ~wroteHeader
         => base.by = "timeout"
    /\ wroteHeader => base.by = "handler" \/ base.early # 0

\* The inductive invariant (its proof is in TimeoutProofs): whoever wins the
\* race, the goroutines, the timeoutWriter and the response agree on it.
IInv == TypeOK /\ MutexHeld /\ Phases /\ Remembered /\ OneAuthor

\* When the deadline decides, the client still gets an answer somebody wrote:
\* the 503, or the response the handler had begun.  The one exception is a
\* handler that began with a 1xx status, which the timeoutWriter takes for the
\* response: then the server ends the request with an empty 200.
TimeoutIsAnswered ==
    mpc = "finished" /\ timedOut =>
        \/ base.by = "timeout" /\ base.status = 503 /\ ~wroteHeader
        \/ base.by = "handler" /\ wroteHeader
        \/ base.by = "server" /\ wroteHeader /\ base.early # 0

\* No write to the client lasts for ever, of the handler or of the timeout's answer.
ClientReads ==
    /\ []<>(hpc \notin {"writeHeader", "write", "writeBody"})
    /\ []<>(mpc \notin {"commit", "body"})

\* While the client takes what is written, a handler that never returns cannot
\* hold the request: the middleware returns once the deadline has passed, also
\* if the handler takes tw.mu again and again.  (A write that blocks does hold
\* it: the handler's Write holds tw.mu, and setTimedOut waits for that.)
MiddlewareReturns ==
    ClientReads => (mpc = "select" ~> (mpc \in {"returned", "finished"} \/ proc = "crashed"))

\* The header map, which no lock protects, is used by two goroutines only when
\* a request has timed out: a process that ends although no handler has panicked
\* had a handler that was still setting headers after its deadline.
RaceNeedsTimeout == proc = "crashed" /\ hpc # "panicked" => timedOut

\* The two goroutines together do what OneAnswer says, in one step each: a
\* Write of the handler counts once it has passed the check of timedOut, and the
\* timeout's answer once its body has been tried.
Answer ==
    LET sent == IF hpc = "writeBody" THEN BaseWrite(base, "handler") ELSE base
    IN  [status |-> IF mpc = "body" THEN 0 ELSE sent.status,
         by |-> IF mpc = "body" THEN "none" ELSE sent.by,
         body |-> sent.body, early |-> sent.early]

Phase ==
    CASE mpc = "finished" -> "ended"
      [] mpc \in {"returned", "panicked"} -> "closed"
      [] OTHER -> "open"

O == INSTANCE OneAnswer WITH
    direct <- skip, answer <- Answer, begun <- wroteHeader, sealed <- timedOut,
    over <- hpc \in {"finished", "panicked"}, phase <- Phase

ImplementsOneAnswer == O!OSpec

=============================================================================
