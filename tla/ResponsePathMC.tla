--------------------------- MODULE ResponsePathMC ---------------------------
(***************************************************************************)
(* Orders of the layers and status codes for model checking.               *)
(***************************************************************************)
EXTENDS ResponsePath

MCCodes == {103, 200, 404}
MCInformational == {103}

\* Every sequence of at most four layers with at most one timeout layer.
MCOrders ==
    {o \in UNION {[1..n -> {"log", "recovery", "timeout"}] : n \in 0..4} :
        \A i, j \in DOMAIN o : o[i] = "timeout" /\ o[j] = "timeout" => i = j}

\* The order of README.md and USAGE.md, without the timeout and with it.
MCRecommended == {<<"recovery", "log">>}
MCRecommendedTimeout == {<<"recovery", "log", "timeout">>}
=============================================================================
