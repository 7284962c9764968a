---------------------------- MODULE RatelimitMC ----------------------------
(***************************************************************************)
(* Two limiters over one Redis: "api" with a burst allowance and a window  *)
(* of two seconds, "login" with limit 1 and a window of one second.        *)
(***************************************************************************)
EXTENDS Ratelimit, TLC

MCLimiters == {"api", "login"}
MCLimit    == [l \in MCLimiters |-> 1]
MCBurst    == [l \in MCLimiters |-> IF l = "api" THEN 1 ELSE 0]
\* A service whose "login" limiter has a client without Eval.
MCMixed    == {"api"}

MCPrefix   == [l \in MCLimiters |-> l]

\* Whole seconds at two ticks a second.
MCWindow   == [l \in MCLimiters |-> IF l = "api" THEN 4 ELSE 2]

\* Not whole numbers of seconds: a second and a half, and half a second.
MCFractionalWindow == [l \in MCLimiters |-> IF l = "api" THEN 3 ELSE 1]

Symmetry == Permutations(Requests) \cup Permutations(Keys)
=============================================================================
