------------------------------ MODULE Pipeline ------------------------------
(***************************************************************************)
(* One request through a whole route and back: request ID, recovery, log,  *)
(* CORS, timeout, maintenance and rate limit in any order around the       *)
(* layers of module Access, and the handler.                               *)
(*                                                                         *)
(* A middleware gives the layers inside it a new context and keeps the old *)
(* one.  What a layer logs on the way back, or after a panic, it takes     *)
(* from the context it was given, whatever the layers inside have added to *)
(* theirs; what a rate limit goes by is what the layers outside have put   *)
(* there.  So it depends on the order who knows the request ID and whom.   *)
(*                                                                         *)
(* The counters of a rate limit are in Ratelimit, the flags of maintenance *)
(* in Maintenance: here the one may reject and the other may block at any  *)
(* time.  What a layer writes is in ResponsePath.  A timeout layer matters *)
(* here because the layers inside it run on a goroutine of their own, which*)
(* a panic cannot leave; that its deadline passes, and the layers outside  *)
(* return while those inside go on, is in Timeout and ResponsePath.        *)
(***************************************************************************)
EXTENDS Access, FiniteSets

VARIABLES
    incoming,   \* the X-Request-ID header of the request
    preflight,  \* is it a preflight request?
    held,       \* per layer the request has passed, the context it was given
    issued,     \* the X-Request-ID header of the response
    counted     \* the keys under which rate limits have counted the request

vars == <<accessVars, incoming, preflight, held, issued, counted>>

inputs == <<stack, header, token, param, incoming, preflight>>

Has(kind) == \E i \in 1..Len(stack) : stack[i].kind = kind

-----------------------------------------------------------------------------
\* Request IDs: 1 is the client's, and a generator never repeats one.

ClientID == 1

GeneratedID(k) == k + ClientID

-----------------------------------------------------------------------------

TypeOK ==
    /\ AccessTypeOK
    /\ incoming \in {NoID, ClientID} /\ preflight \in BOOLEAN
    /\ Len(held) <= Len(stack)
    /\ issued \in Nat
    /\ \A c \in counted : stack[c.layer].kind = "ratelimit"

Init ==
    /\ AccessInit
    /\ incoming \in IF Has("requestid") THEN {NoID, ClientID} ELSE {NoID}
    /\ preflight \in IF Has("cors") THEN BOOLEAN ELSE {FALSE}
    /\ held = <<>>
    /\ issued = NoID
    /\ counted = {}

-----------------------------------------------------------------------------
\* Inwards.  A layer that lets the request pass keeps the context it was given.

Inwards == held' = IF at' > at THEN Append(held, ctx) ELSE held

\* Mutation: only an ID the client has sent is put into the response.
RequestIDEchoed ==
    /\ Reaches("requestid")
    /\ LET id == IF incoming # NoID THEN incoming ELSE GeneratedID(at)
       IN  Pass([ctx EXCEPT !.id = id])
    /\ issued' = incoming
    /\ Inwards
    /\ UNCHANGED <<incoming, preflight, counted>>

\* The header of the request decides, not an ID that is already in the context.
RequestID ==
    /\ Reaches("requestid")
    /\ LET id == IF incoming # NoID THEN incoming ELSE GeneratedID(at)
       IN  Pass([ctx EXCEPT !.id = id]) /\ issued' = id
    /\ Inwards
    /\ UNCHANGED <<incoming, preflight, counted>>

\* Recovery, log and timeout only put their writers around the layers inside.
Wrap ==
    /\ Reaches("recovery") \/ Reaches("log") \/ Reaches("timeout")
    /\ Pass(ctx)
    /\ Inwards
    /\ UNCHANGED <<incoming, preflight, issued, counted>>

\* Mutation: OptionsPassthrough.
CorsPassthrough ==
    /\ Reaches("cors")
    /\ Pass(ctx)
    /\ Inwards
    /\ UNCHANGED <<incoming, preflight, issued, counted>>

\* go-chi/cors answers a preflight request itself.
Cors ==
    /\ Reaches("cors")
    /\ \/ preflight /\ Refuse("PREFLIGHT", Unlogged)
       \/ ~preflight /\ Pass(ctx)
    /\ Inwards
    /\ UNCHANGED <<incoming, preflight, issued, counted>>

Maintenance ==
    /\ Reaches("maintenance")
    /\ Refuse("SERVICE_UNAVAILABLE", Unlogged) \/ Pass(ctx)
    /\ Inwards
    /\ UNCHANGED <<incoming, preflight, issued, counted>>

Address == [by |-> "ip", value |-> Empty]

\* Mutation: KeyByUser does not look at ok and the empty user.
WhoUnchecked == [by |-> "user", value |-> ctx.user]

\* KeyByUser falls back to the address if no layer outside has set a user.
Who == IF ctx.user = Empty THEN Address ELSE [by |-> "user", value |-> ctx.user]

\* The key functions, by what they look at; KeyByIP is the default.
Key(need) ==
    (IF need = {"path"} THEN {} ELSE IF "user" \in need THEN {Who} ELSE {Address})
    \cup (IF "path" \in need THEN {[by |-> "path", value |-> Empty]} ELSE {})

\* What SkipFunc skips is not counted.
RateLimit ==
    /\ Reaches("ratelimit")
    /\ \/ /\ layer.excluded
          /\ Pass(ctx)
          /\ UNCHANGED counted
       \/ /\ ~layer.excluded
          /\ counted' = counted \cup {[layer |-> at, key |-> Key(layer.need)]}
          /\ Pass(ctx) \/ Refuse("RATE_LIMITED", Unlogged)
    /\ Inwards
    /\ UNCHANGED <<incoming, preflight, issued>>

Authorize ==
    /\ AccessStep
    /\ Inwards
    /\ UNCHANGED <<incoming, preflight, issued, counted>>

HandlerPanic ==
    /\ answer = "none" /\ at = Len(stack) + 1
    /\ answer' = "panicked"
    /\ UNCHANGED <<inputs, clock, at, ctx, log, seen, held, issued, counted>>

-----------------------------------------------------------------------------
\* Outwards, from the layer that answered or panicked.

Leaves(kind) ==
    /\ answer \notin {"none", "crashed"} /\ at > 1
    /\ stack[at - 1].kind = kind
    /\ at' = at - 1
    /\ UNCHANGED <<inputs, clock, ctx, seen, held, issued, counted>>

\* The entry of a layer that is left, from the context it was given.
EntryOf(event) == Entry(at - 1, event, held[at - 1].id, held[at - 1].user)

\* Mutation: what a layer inside has refused is not logged again.
LeaveLogServed ==
    /\ Leaves("log")
    /\ \/ /\ answer = "served" /\ ~stack[at - 1].excluded
          /\ log' = log \cup {EntryOf("httpRequest")}
       \/ /\ answer # "served" \/ stack[at - 1].excluded
          /\ UNCHANGED log
    /\ UNCHANGED answer

\* mwlog logs a request that returns, unless its path is excluded.
LeaveLog ==
    /\ Leaves("log")
    /\ \/ /\ answer # "panicked" /\ ~stack[at - 1].excluded
          /\ log' = log \cup {EntryOf("httpRequest")}
       \/ /\ answer = "panicked" \/ stack[at - 1].excluded
          /\ UNCHANGED log
    /\ UNCHANGED answer

\* Mutation: the panic is logged but not answered.
LeaveRecoveryPanicking ==
    /\ Leaves("recovery")
    /\ \/ /\ answer = "panicked"
          /\ log' = log \cup {EntryOf("panicRecovered")}
       \/ answer # "panicked" /\ UNCHANGED log
    /\ UNCHANGED answer

\* recover() and handlePanic.
LeaveRecovery ==
    /\ Leaves("recovery")
    /\ \/ /\ answer = "panicked"
          /\ answer' = "recovered"
          /\ log' = log \cup {EntryOf("panicRecovered")}
       \/ answer # "panicked" /\ UNCHANGED <<answer, log>>

\* A panic goes no further than the goroutine that timeout has started.  It ends
\* the process, but the deferred close(done) comes first and may let the layers
\* outside return as after an answer.
LeaveTimeout ==
    /\ Leaves("timeout")
    /\ answer' = IF answer = "panicked" /\ ~stack[at - 1].excluded THEN "dying" ELSE answer
    /\ UNCHANGED log

Crash ==
    /\ answer = "dying"
    /\ answer' = "crashed"
    /\ UNCHANGED <<inputs, clock, at, ctx, log, seen, held, issued, counted>>

\* The other layers do nothing on the way back.
LeaveOther ==
    /\ \E k \in {"requestid", "cors", "maintenance", "ratelimit"} \cup AuthKinds \cup RbacKinds :
          Leaves(k)
    /\ UNCHANGED <<answer, log>>

Next ==
    \/ RequestID \/ Wrap \/ Cors \/ Maintenance \/ RateLimit \/ Authorize \/ HandlerPanic
    \/ LeaveLog \/ LeaveRecovery \/ LeaveTimeout \/ LeaveOther \/ Crash

Spec == Init /\ [][Next]_vars

-----------------------------------------------------------------------------
\* Properties.

Finished == answer \notin {"none", "crashed"} /\ at = 1

\* Is layer k inside one of that kind?
Inside(k, kind) == \E i \in 1..(k - 1) : stack[i].kind = kind

\* Do all request ID layers agree?  One that is nested generates its own ID if
\* the client sent none, and puts it into the response.
OneID ==
    incoming # NoID \/ Cardinality({i \in 1..Len(stack) : stack[i].kind = "requestid"}) = 1

\* The ID a client finds in its response leads to everything that was logged
\* about its request inside the request ID layer: by the log, by recovery after
\* a panic, by a refusing auth or rbac layer ("First, so all logs have
\* correlation ID").
EntriesAreTraceable ==
    OneID => \A e \in log :
        IF Inside(e.layer, "requestid") THEN e.id = issued /\ e.id # NoID ELSE e.id = NoID

\* A limit by user that is inside an authentication layer counts each user
\* by name, and never lumps those without a name together as one user.
LimitedByName ==
    \A c \in counted :
        LET named == token.claims.user # Empty /\ \E i \in 1..(c.layer - 1) :
                        stack[i].kind = "auth" /\ ~stack[i].excluded
        IN  "user" \in stack[c.layer].need =>
              /\ named => [by |-> "user", value |-> token.claims.user] \in c.key
              /\ [by |-> "user", value |-> Empty] \notin c.key

\* Has the handler, or a layer, panicked?
Panicked == answer \in {"panicked", "recovered", "dying", "crashed"}

\* Does a panic end at layer i?  A timeout that skips the path starts no goroutine.
Stops(i) == stack[i].kind = "recovery" \/ (stack[i].kind = "timeout" /\ ~stack[i].excluded)

\* Is there nothing to stop a panic inside layer i?
Exposed(i) == \A j \in (i + 1)..Len(held) : ~Stops(j)

\* A panic, of the handler or of a middleware, ends at the innermost layer that
\* stops it.  If that is recovery, it is answered and logged there and nowhere
\* else ("Early, to catch panics from any middleware"); if it is timeout, the
\* process ends, and no recovery layer outside can help; if there is none, it
\* reaches net/http and is logged by nobody.
PanicsEndAtInnermost ==
    LET recovered == {e \in log : e.event = "panicRecovered"}
        innermost(kind) == {i \in 1..Len(held) : Stops(i) /\ Exposed(i) /\ stack[i].kind = kind}
    IN  /\ answer = "recovered" =>
              \E i \in innermost("recovery") :
                  recovered = {Entry(i, "panicRecovered", held[i].id, held[i].user)}
        /\ answer \in {"dying", "crashed"} => innermost("timeout") # {}
        /\ Finished /\ answer = "panicked" => Exposed(0)
        /\ answer # "recovered" => recovered = {}

\* In the end a log layer that the request has passed has logged it just if its
\* path is not excluded and no panic came past, whatever layer inside answered.
RequestsAreLogged ==
    Finished => \A i \in 1..Len(held) :
        stack[i].kind = "log" =>
            ((\E e \in log : e.layer = i) <=> ~stack[i].excluded /\ ~(Panicked /\ Exposed(i)))

\* A preflight request, which carries no credentials, is answered by a CORS
\* layer that is outside authentication, or not at all because of what is
\* outside it ("Before auth to handle preflight requests").
PreflightNeedsNoIdentity ==
    \A i \in 1..Len(stack) :
        /\ preflight /\ stack[i].kind = "cors"
        /\ \A j \in 1..(i - 1) : stack[j].kind \notin AuthKinds \cup RbacKinds
        => answer \notin Refusals \cup {"served"} /\ ctx.user = Empty

\* The log field user_id is the "Authenticated user (if any)".
EntriesNameTheUser ==
    Finished /\ answer = "served" =>
        \A e \in log : e.event = "httpRequest" => e.user = ctx.user

=============================================================================
