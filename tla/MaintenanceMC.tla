--------------------------- MODULE MaintenanceMC ---------------------------
(***************************************************************************)
(* Requests for model checking; the announcements and the addresses are    *)
(* model values, given in the configuration.                               *)
(***************************************************************************)
EXTENDS Maintenance, SequencesExt

\* Lists of at most two parts, an X-Real-IP, and a path.
MCRequests ==
    [headers    : [forwarded : BoundedSeq(Addresses \cup {Absent, Blank}, 2) \ {<<Absent>>},
                   real      : Addresses \cup {Absent, Blank},
                   remote    : Addresses],
     bypassPath : BOOLEAN]
=============================================================================
