---------------------------- MODULE ClientAddress ----------------------------
(***************************************************************************)
(* Whom GetClientIP (httputil.go) takes a request to be from.              *)
(*                                                                         *)
(* A header is as it stands between its commas: addresses, with or without *)
(* blanks around them, and parts that are blank or empty.  What RemoteAddr *)
(* looks like (IPv4 or IPv6, with a port or without) makes no difference   *)
(* to its address.                                                         *)
(***************************************************************************)
EXTENDS Naturals, Sequences

CONSTANTS
    Addresses,
    Absent,   \* the empty string
    Blank,    \* nothing but blanks
    Rest      \* a header cut at none of its commas

ASSUME AddressAssumption == {Absent, Blank, Rest} \cap Addresses = {}

\* What a client may send.  X-Forwarded-For is a list; a list of one empty part
\* is the absence of the header.
Headers ==
    [forwarded : Seq(Addresses \cup {Absent, Blank}) \ {<<Absent>>},
     real      : Addresses \cup {Absent, Blank},
     remote    : Addresses]

TrimSpace(part) == IF part = Blank THEN Absent ELSE part

\* Mutation: the last address of the list, that of the nearest proxy.
GetClientIPNearest(r) ==
    IF r.forwarded # <<>> THEN TrimSpace(r.forwarded[Len(r.forwarded)])
    ELSE IF r.real # Absent THEN TrimSpace(r.real)
    ELSE r.remote

\* The first part of the list, unless a comma stands before everything else:
\* then the header is taken whole.
GetClientIP(r) ==
    IF r.forwarded # <<>>
    THEN IF Len(r.forwarded) = 1 \/ r.forwarded[1] # Absent THEN TrimSpace(r.forwarded[1]) ELSE Rest
    ELSE IF r.real # Absent THEN TrimSpace(r.real)
    ELSE r.remote

-----------------------------------------------------------------------------
\* What the comment of GetClientIP says: the first address in the list, or
\* else that of X-Real-IP, or else the remote one.

ListsFirst(r, a) ==
    \E i \in 1..Len(r.forwarded) :
        r.forwarded[i] = a /\ \A j \in 1..(i - 1) : r.forwarded[j] \notin Addresses

ListsNone(r) == \A i \in 1..Len(r.forwarded) : r.forwarded[i] \notin Addresses

IsFrom(r, a) ==
    \/ ListsFirst(r, a)
    \/ ListsNone(r) /\ r.real = a
    \/ ListsNone(r) /\ r.real \notin Addresses /\ r.remote = a

\* A header that does not begin with an address hides those after it.
Readable(r) ==
    /\ r.forwarded # <<>> => r.forwarded[1] \in Addresses
    /\ r.real # Blank

=============================================================================
