------------------------- MODULE MaintenanceProofs -------------------------
(***************************************************************************)
(* What module Maintenance promises of a request, for every set of         *)
(* messages and end times.  The three properties are about how a request   *)
(* ended, so the invariant says what is known on the way there: in each    *)
(* state of the middleware, which flags it has found and what it holds.    *)
(***************************************************************************)
EXTENDS Maintenance, TLAPS

\* The request is past the first call, and has not been let through.
Blocking == pc \in {"GetMessage", "GetEndTime", "write", "blocked"}

\* The flags as they are now belong to the history of a request on its way.
PastIncludesNow ==
    pc \notin {"served", "blocked"} =>
        flags.enabled \in past.enabled /\ flags.message \in past.message /\ flags.end \in past.end

\* What the middleware holds it has found in the store, or put in its place.
Found ==
    /\ pc # "arrived" /\ Bypasses => pc = "served"
    /\ Blocking => TRUE \in past.enabled
    /\ pc \in {"GetEndTime", "write", "blocked"} =>
          \/ text \in past.message
          \/ text = DefaultMessage /\ ("GetMessage" \in failed \/ Nothing \in past.message)
    /\ pc \in {"write", "blocked"} => until \in past.end \/ "GetEndTime" \in failed

MInv == TypeOK /\ PastIncludesNow /\ Found /\ ServedOnlyForCause

-----------------------------------------------------------------------------

\* Whom GetClientIP finds the request is from, and a request whose headers can
\* be read is from nobody else.
THEOREM ClientIsFound ==
    ASSUME NEW r \in Headers, NEW a \in Addresses
    PROVE  /\ GetClientIP(r) = a => IsFrom(r, a)
           /\ Readable(r) /\ IsFrom(r, a) => GetClientIP(r) = a
<1>1. /\ r.forwarded \in Seq(Addresses \cup {Absent, Blank})
      /\ r.real \in Addresses \cup {Absent, Blank} /\ r.remote \in Addresses
      /\ Len(r.forwarded) \in Nat
  BY DEF Headers
<1>2. CASE r.forwarded = <<>>
  <2>1. ListsNone(r) /\ ~ListsFirst(r, a)
    BY <1>2 DEF ListsNone, ListsFirst
  <2> QED
    BY <1>1, <1>2, <2>1, AddressAssumption DEF GetClientIP, TrimSpace, IsFrom, Readable
<1>3. CASE r.forwarded # <<>>
  <2>1. 1 \in 1..Len(r.forwarded) /\ r.forwarded[1] \in Addresses \cup {Absent, Blank}
    BY <1>1, <1>3
  <2>2. r.forwarded[1] \in Addresses => (ListsFirst(r, a) <=> r.forwarded[1] = a) /\ ~ListsNone(r)
    BY <1>1, <2>1 DEF ListsFirst, ListsNone
  <2>3. r.forwarded[1] \in Addresses => GetClientIP(r) = r.forwarded[1]
    BY <1>3, AddressAssumption DEF GetClientIP, TrimSpace
  <2>4. r.forwarded[1] \notin Addresses => GetClientIP(r) \in {Absent, Rest}
    BY <1>3, <2>1, AddressAssumption DEF GetClientIP, TrimSpace
  <2> QED
    BY <1>3, <2>2, <2>3, <2>4, AddressAssumption DEF IsFrom, Readable
<1> QED
  BY <1>2, <1>3

LEMMA BypassIsFound ==
    ASSUME request \in Requests
    PROVE  (Bypasses => MayBypass) /\ (MustPass => Bypasses)
<1>1. request.headers \in Headers /\ BypassIPs \subseteq Addresses
  BY MaintenanceAssumption
<1> QED
  BY <1>1, ClientIsFound DEF Bypasses, MayBypass, MustPass

LEMMA RequestStays ==
    ASSUME UNCHANGED request
    PROVE  (Bypasses' <=> Bypasses) /\ (MayBypass' <=> MayBypass)
BY DEF Bypasses, MayBypass

LEMMA InitMInv == Init => MInv
BY DEF Init, MInv, TypeOK, Flags, Since, Calls, PastIncludesNow, Found, Blocking,
       ServedOnlyForCause

LEMMA OperateMInv == MInv /\ Operate => MInv'
<1> SUFFICES ASSUME MInv, Operate PROVE MInv'
  OBVIOUS
<1> USE DEF MInv
<1>1. flags' \in Flags
  BY DEF Operate, TypeOK, Flags
<1>2. TypeOK'
  BY <1>1 DEF Operate, TypeOK, Flags
<1>3. PastIncludesNow'
  BY DEF Operate, PastIncludesNow
<1>4. Found'
  BY RequestStays DEF Operate, Found, Blocking, TypeOK
<1>5. ServedOnlyForCause'
  BY RequestStays DEF Operate, ServedOnlyForCause
<1> QED
  BY <1>2, <1>3, <1>4, <1>5

LEMMA StepMInv == MInv /\ (OwnStep \/ StoreCall) => MInv'
<1> SUFFICES ASSUME MInv, OwnStep \/ StoreCall PROVE MInv'
  OBVIOUS
<1> USE DEF MInv
<1>1. CASE CheckBypass
  BY <1>1, RequestStays, BypassIsFound
     DEF CheckBypass, TypeOK, Calls, PastIncludesNow, Found, Blocking, ServedOnlyForCause
<1>2. CASE IsEnabled
  <2>1. TypeOK'
    BY <1>2 DEF IsEnabled, Fails, TypeOK, Calls
  <2>2. PastIncludesNow' /\ Found'
    BY <1>2, RequestStays
       DEF IsEnabled, Fails, TypeOK, Flags, Calls, PastIncludesNow, Found, Blocking
  <2>3. flags.enabled \in BOOLEAN /\ flags.enabled \in past.enabled
    BY <1>2 DEF IsEnabled, TypeOK, Flags, PastIncludesNow
  <2>4. CASE flags.enabled = FALSE
    BY <1>2, <2>1, <2>2, <2>3, <2>4 DEF IsEnabled, ServedOnlyForCause
  <2>5. CASE pc' = "served" /\ Fails("IsEnabled")
    BY <2>1, <2>2, <2>5 DEF Fails, ServedOnlyForCause
  <2>6. CASE pc' = "GetMessage"
    BY <2>1, <2>2, <2>6 DEF ServedOnlyForCause
  <2>7. ~flags.enabled => flags.enabled = FALSE
    BY <2>3, Zenon
  <2> QED
    BY <1>2, <2>4, <2>5, <2>6, <2>7, Zenon DEF IsEnabled
<1>3. CASE GetMessage
  <2>1. TypeOK'
    BY <1>3, MaintenanceAssumption DEF GetMessage, Fails, TypeOK, Flags, Calls
  <2>2. PastIncludesNow' /\ Found' /\ ServedOnlyForCause'
    BY <1>3, RequestStays
       DEF GetMessage, Fails, TypeOK, Calls, PastIncludesNow, Found, Blocking,
                ServedOnlyForCause
  <2> QED
    BY <2>1, <2>2
<1>4. CASE GetEndTime
  <2>1. TypeOK'
    <3>1. flags.end \in Ends \cup {Nothing}
      BY DEF TypeOK, Flags
    <3> QED
      BY <1>4, <3>1 DEF GetEndTime, Fails, TypeOK, Calls
  <2>2. PastIncludesNow' /\ Found' /\ ServedOnlyForCause'
    BY <1>4, RequestStays
       DEF GetEndTime, Fails, TypeOK, Calls, PastIncludesNow, Found, Blocking,
                ServedOnlyForCause
  <2> QED
    BY <2>1, <2>2
<1>5. CASE WriteMaintenanceResponse
  BY <1>5, RequestStays
     DEF WriteMaintenanceResponse, TypeOK, Calls, PastIncludesNow, Found, Blocking,
              ServedOnlyForCause
<1> QED
  BY <1>1, <1>2, <1>3, <1>4, <1>5 DEF OwnStep, StoreCall

LEMMA StutterMInv == MInv /\ UNCHANGED vars => MInv'
<1> SUFFICES ASSUME MInv, UNCHANGED vars PROVE MInv'
  OBVIOUS
<1> USE DEF MInv, vars
<1>1. TypeOK'
  BY DEF TypeOK
<1>2. PastIncludesNow'
  BY DEF PastIncludesNow
<1>3. Found'
  BY RequestStays DEF Found, Blocking
<1>4. ServedOnlyForCause'
  BY RequestStays DEF ServedOnlyForCause
<1> QED
  BY <1>1, <1>2, <1>3, <1>4

\* In every state of the middleware what it holds agrees with what the store
\* has been since the request arrived.
THEOREM Invariance == Spec => []MInv
<1>1. MInv /\ [Next]_vars => MInv'
  BY OperateMInv, StepMInv, StutterMInv DEF Next
<1> QED
  BY InitMInv, <1>1, PTL DEF Spec

\* The variables keep their types; a response that is written has a text.
THEOREM TypeCorrect == Spec => []TypeOK
<1>1. MInv => TypeOK
  BY DEF MInv
<1> QED
  BY <1>1, Invariance, PTL

\* No request on a bypass list, and none that saw maintenance off all along,
\* is blocked.
THEOREM BlockingIsJustified == Spec => []BlockedOnlyInMaintenance
<1>1. MInv => BlockedOnlyInMaintenance
  BY BypassIsFound DEF MInv, Found, Blocking, TypeOK, BlockedOnlyInMaintenance
<1> QED
  BY <1>1, Invariance, PTL

\* No request that saw maintenance on all along, and no failing call, is let
\* through, unless it is on a bypass list.
THEOREM ServingIsJustified == Spec => []ServedOnlyForCause
<1>1. MInv => ServedOnlyForCause
  BY DEF MInv
<1> QED
  BY <1>1, Invariance, PTL

\* Whatever the operator does between the calls, what the notice shows was
\* announced while the request was handled.
THEOREM NoticeWasAnnounced == Spec => []NoticeIsCurrent
<1>1. MInv => NoticeIsCurrent
  BY DEF MInv, Found, NoticeIsCurrent
<1> QED
  BY <1>1, Invariance, PTL

=============================================================================
