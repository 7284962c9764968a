----------------------------- MODULE OneAnswer -----------------------------
(***************************************************************************)
(* What the timeout middleware promises about one request: the client gets *)
(* one answer.  Each WriteHeader and each Write of the handler reaches it  *)
(* whole or not at all; none does after the timeout has sealed it; and the *)
(* 503 is sent by itself, never on top of something the handler began.     *)
(*                                                                         *)
(* A skipped path is direct: the handler then writes to the server itself. *)
(***************************************************************************)
EXTENDS Naturals

CONSTANTS
    Codes,           \* status codes the handler may pass to WriteHeader
    Informational    \* those of them that are 1xx

VARIABLES
    direct,   \* does the handler write without the timeout's writer?
    answer,   \* what the client gets: status, body, and who wrote them
    begun,    \* has the handler begun an answer of its own?
    sealed,   \* has the timeout closed the answer to the handler?
    over,     \* has the handler returned, or panicked?
    phase     \* the request: open, closed (the middleware has returned), ended

ovars == <<direct, answer, begun, sealed, over, phase>>

NoAnswer == [status |-> 0, by |-> "none", body |-> {}, early |-> 0]

\* The first final status counts; a 1xx status is sent early, before it.
WithStatus(a, c, who) ==
    IF a.status # 0 THEN a
    ELSE IF c \in Informational THEN [a EXCEPT !.early = c]
    ELSE [a EXCEPT !.status = c, !.by = who]

WithBody(a, who) == [WithStatus(a, 200, who) EXCEPT !.body = @ \cup {who}]

OInit ==
    /\ direct \in BOOLEAN
    /\ answer = NoAnswer
    /\ begun = FALSE /\ sealed = FALSE /\ over = FALSE
    /\ phase = "open"

HandlerMayWrite == phase = "open" /\ ~over /\ ~sealed

\* WriteHeader: the timeout's writer passes the first status on, final or not.
SendStatus ==
    /\ HandlerMayWrite
    /\ direct \/ ~begun
    /\ begun' = ~direct
    /\ \E c \in Codes : answer' = WithStatus(answer, c, "handler")
    /\ UNCHANGED <<direct, sealed, over, phase>>

SendBody ==
    /\ HandlerMayWrite
    /\ begun' = ~direct
    /\ answer' = WithBody(answer, "handler")
    /\ UNCHANGED <<direct, sealed, over, phase>>

EndHandler ==
    /\ over' = TRUE
    /\ UNCHANGED <<direct, answer, begun, sealed, phase>>

Seal ==
    /\ phase = "open" /\ ~direct
    /\ sealed' = TRUE
    /\ UNCHANGED <<direct, answer, begun, over, phase>>

\* The 503 is the whole answer; its body may fail to be sent.
Refuse ==
    /\ phase = "open" /\ sealed /\ ~begun /\ answer = NoAnswer
    /\ answer' \in {WithStatus(answer, 503, "timeout"),
                    WithBody(WithStatus(answer, 503, "timeout"), "timeout")}
    /\ phase' = "closed"
    /\ UNCHANGED <<direct, begun, sealed, over>>

\* The handler is waited for, unless it began an answer and ran out of time.
Close ==
    /\ phase = "open"
    /\ (over /\ ~sealed) \/ (sealed /\ begun)
    /\ phase' = "closed"
    /\ UNCHANGED <<direct, answer, begun, sealed, over>>

\* The server ends the response.
End ==
    /\ phase = "closed"
    /\ answer' = WithStatus(answer, 200, "server")
    /\ phase' = "ended"
    /\ UNCHANGED <<direct, begun, sealed, over>>

ONext == SendStatus \/ SendBody \/ EndHandler \/ Seal \/ Refuse \/ Close \/ End

OSpec == OInit /\ [][ONext]_ovars

=============================================================================
