---------------------------- MODULE Maintenance ----------------------------
(***************************************************************************)
(* One request through maintenance.Middleware (maintenance/maintenance.go) *)
(* while an operator turns maintenance on and off and changes its          *)
(* announcement.  A blocked request reads the flag, the message and the    *)
(* end time with three calls to a FlagStore, each of which may fail or     *)
(* never return, and the operator may act between any two of them.  The    *)
(* middleware keeps nothing between requests, so one request is enough.    *)
(***************************************************************************)
EXTENDS ClientAddress

CONSTANTS
    Requests,        \* the requests that may arrive
    BypassIPs,       \* Config.BypassIPs
    Messages, Ends,  \* announcements an operator may make
    Nothing,         \* an empty message, a nil end time
    DefaultMessage   \* Config.DefaultMessage

ASSUME MaintenanceAssumption ==
    /\ Nothing \notin Messages \cup Ends
    /\ \A r \in Requests : r.headers \in Headers /\ r.bypassPath \in BOOLEAN
    /\ BypassIPs \subseteq Addresses

VARIABLES
    flags,   \* the store: enabled, message and end
    request, \* what the client has sent
    pc,      \* the next step of the middleware, or how it ended
    text,    \* the message the response will show
    until,   \* the end time the response will show
    failed,  \* history: the calls that failed
    past     \* history: what each flag has been since the request arrived

vars == <<flags, request, pc, text, until, failed, past>>

Flags == [enabled : BOOLEAN, message : Messages \cup {Nothing}, end : Ends \cup {Nothing}]

\* The history of a request that has just arrived.
Since(f) == [enabled |-> {f.enabled}, message |-> {f.message}, end |-> {f.end}]

Calls == {"IsEnabled", "GetMessage", "GetEndTime"}

TypeOK ==
    /\ flags \in Flags
    /\ request \in Requests
    /\ pc \in Calls \cup {"arrived", "write", "served", "blocked"}
    /\ text \in Messages \cup {DefaultMessage, Nothing}
    /\ until \in Ends \cup {Nothing}
    /\ failed \in SUBSET Calls
    /\ past \in [enabled : SUBSET BOOLEAN, message : SUBSET (Messages \cup {Nothing}),
                 end : SUBSET (Ends \cup {Nothing})]
    /\ DefaultMessage # Nothing /\ pc \in {"GetEndTime", "write", "blocked"} => text # Nothing

Init ==
    /\ flags \in Flags
    /\ request \in Requests
    /\ pc = "arrived"
    /\ text = Nothing
    /\ until = Nothing
    /\ failed = {}
    /\ past = Since(flags)

-----------------------------------------------------------------------------
\* The environment.

\* The operator changes one flag; once the request is answered it no longer matters.
Operate ==
    /\ \/ \E b \in BOOLEAN : flags' = [flags EXCEPT !.enabled = b]
       \/ \E m \in Messages \cup {Nothing} : flags' = [flags EXCEPT !.message = m]
       \/ \E e \in Ends \cup {Nothing} : flags' = [flags EXCEPT !.end = e]
    /\ pc \notin {"served", "blocked"}
    /\ past' = [enabled |-> past.enabled \cup {flags'.enabled},
                message |-> past.message \cup {flags'.message},
                end     |-> past.end \cup {flags'.end}]
    /\ UNCHANGED <<request, pc, text, until, failed>>

-----------------------------------------------------------------------------
\* The middleware.

Fails(call) == failed' = failed \cup {call}

Bypasses == request.bypassPath \/ GetClientIP(request.headers) \in BypassIPs

\* Mutation: the bypass lists are consulted only while maintenance is on.
CheckBypassLater ==
    /\ pc = "arrived"
    /\ pc' = "IsEnabled"
    /\ UNCHANGED <<flags, request, text, until, failed, past>>

\* A bypass path, /health and /ready among them, or a bypass IP goes straight on.
CheckBypass ==
    /\ pc = "arrived"
    /\ \/ Bypasses /\ pc' = "served"
       \/ ~Bypasses /\ pc' = "IsEnabled"
    /\ UNCHANGED <<flags, request, text, until, failed, past>>

\* Mutation: the flag is read the wrong way round.
IsEnabledInverted ==
    /\ pc = "IsEnabled"
    /\ \/ ~flags.enabled /\ pc' = "GetMessage" /\ UNCHANGED failed
       \/ flags.enabled /\ pc' = "served" /\ UNCHANGED failed
       \/ pc' = "served" /\ Fails("IsEnabled")
    /\ UNCHANGED <<flags, request, text, until, past>>

\* The flag decides; a store that fails lets the request through.
IsEnabled ==
    /\ pc = "IsEnabled"
    /\ \/ flags.enabled /\ pc' = "GetMessage" /\ UNCHANGED failed
       \/ ~flags.enabled /\ pc' = "served" /\ UNCHANGED failed
       \/ pc' = "served" /\ Fails("IsEnabled")
    /\ UNCHANGED <<flags, request, text, until, past>>

\* Mutation: an empty message replaces the default one.
GetMessageEmpty ==
    /\ pc = "GetMessage"
    /\ \/ text' = flags.message /\ UNCHANGED failed
       \/ text' = DefaultMessage /\ Fails("GetMessage")
    /\ pc' = "GetEndTime"
    /\ UNCHANGED <<flags, request, until, past>>

\* Mutation: the default message is always shown.
GetMessageDefault ==
    /\ pc = "GetMessage"
    /\ text' = DefaultMessage
    /\ pc' = "GetEndTime"
    /\ UNCHANGED <<flags, request, until, failed, past>>

\* The message of the store, or the default one if there is none or the call fails.
GetMessage ==
    /\ pc = "GetMessage"
    /\ \/ flags.message # Nothing /\ text' = flags.message /\ UNCHANGED failed
       \/ flags.message = Nothing /\ text' = DefaultMessage /\ UNCHANGED failed
       \/ text' = DefaultMessage /\ Fails("GetMessage")
    /\ pc' = "GetEndTime"
    /\ UNCHANGED <<flags, request, until, past>>

GetEndTime ==
    /\ pc = "GetEndTime"
    /\ \/ until' = flags.end /\ UNCHANGED failed
       \/ Fails("GetEndTime") /\ UNCHANGED until
    /\ pc' = "write"
    /\ UNCHANGED <<flags, request, text, past>>

\* The 503 with the message and the end time.
WriteMaintenanceResponse ==
    /\ pc = "write"
    /\ pc' = "blocked"
    /\ UNCHANGED <<flags, request, text, until, failed, past>>

\* The steps that do not wait for the store.
OwnStep == CheckBypass \/ WriteMaintenanceResponse

StoreCall == IsEnabled \/ GetMessage \/ GetEndTime

Next ==
    \/ OwnStep \/ StoreCall \/ Operate

Spec == Init /\ [][Next]_vars

\* A goroutine that can run does; a call to the store may never return.
FairSpec == Spec /\ WF_vars(OwnStep)

-----------------------------------------------------------------------------
\* Properties.

\* Is the request for a bypass path, or from a bypass address, as the comment
\* of GetClientIP explains whom a request is from?
MayBypass ==
    request.bypassPath \/ \E a \in BypassIPs : IsFrom(request.headers, a)

MustPass == MayBypass /\ Readable(request.headers)

\* A request is blocked only if maintenance was on at some moment between its
\* arrival and its answer, and never if it is on a bypass list, whatever proxies
\* have added to its headers; only a list that does not begin with an address
\* may hide the one that is meant ("X-Forwarded-For (first IP in the list)").
BlockedOnlyInMaintenance ==
    pc = "blocked" => ~MustPass /\ TRUE \in past.enabled

\* A request that is let through is on a bypass list, met a store that failed
\* on the flag itself, or found maintenance off at some moment after it arrived.
ServedOnlyForCause ==
    pc = "served" =>
        \/ MayBypass
        \/ "IsEnabled" \in failed
        \/ FALSE \in past.enabled

\* Whatever the operator changes between the three calls, a blocked request
\* shows a message and an end time that were announced while it was handled;
\* the default message stands in only for a missing one.
NoticeIsCurrent ==
    pc = "blocked" =>
        /\ \/ text \in past.message
           \/ /\ text = DefaultMessage
              /\ "GetMessage" \in failed \/ Nothing \in past.message
        /\ until \in past.end \/ "GetEndTime" \in failed

\* Health checks and bypass clients are served even if the store never answers.
BypassNeverWaits == MustPass ~> pc = "served"

=============================================================================
