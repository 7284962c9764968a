----------------------------- MODULE TimeoutMC -----------------------------
(***************************************************************************)
(* Values for model checking: two final codes, and one informational code. *)
(***************************************************************************)
EXTENDS Timeout

MCCodes == {103, 200, 404}
MCInformational == {103}
=============================================================================
