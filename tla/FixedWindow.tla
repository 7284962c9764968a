---------------------------- MODULE FixedWindow ----------------------------
(***************************************************************************)
(* What the rate limiter promises, without Redis: every bucket (a limiter  *)
(* and the key a request is counted under) has a window of a fixed length, *)
(* opened by the first request that finds none open, and at most Quota     *)
(* requests are admitted in it.  A request is rejected only when the quota *)
(* of the open window is used up, and the decision is one atomic step.     *)
(* The limiter gives traffic precedence over counting: a request may also  *)
(* be let through unjudged, whether or not it used up a unit.              *)
(***************************************************************************)
EXTENDS Naturals

CONSTANTS Requests,   \* every request is judged at most once
          Buckets,    \* what requests are counted under
          Quota,      \* units of each bucket in one window, at least 1
          Length      \* ticks each bucket's window lasts, at least 1

VARIABLES bucket,     \* the bucket of each request
          used,       \* units used in the open window
          left,       \* ticks until the open window ends, 0 if none is open
          verdict     \* what became of each request

fwvars == <<bucket, used, left, verdict>>

Verdicts == {"none", "admitted", "rejected", "bypassed"}

FWTypeOK ==
    /\ bucket \in [Requests -> Buckets]
    /\ used \in [Buckets -> Nat]
    /\ left \in [Buckets -> Nat]
    /\ verdict \in [Requests -> Verdicts]

FWInit ==
    /\ bucket \in [Requests -> Buckets]
    /\ used = [b \in Buckets |-> 0]
    /\ left = [b \in Buckets |-> 0]
    /\ verdict = [r \in Requests |-> "none"]

-----------------------------------------------------------------------------

\* One unit of bucket b is used; the first one opens the window.
Use(b) ==
    /\ used[b] < Quota[b]
    /\ used' = [used EXCEPT ![b] = @ + 1]
    /\ left' = [left EXCEPT ![b] = IF @ = 0 THEN Length[b] ELSE @]

Judge(r, v) ==
    /\ verdict[r] = "none"
    /\ verdict' = [verdict EXCEPT ![r] = v]
    /\ UNCHANGED bucket

Admit(r) == Judge(r, "admitted") /\ Use(bucket[r])

Reject(r) ==
    /\ Judge(r, "rejected")
    /\ used[bucket[r]] = Quota[bucket[r]]
    /\ UNCHANGED <<used, left>>

Bypass(r) ==
    /\ Judge(r, "bypassed")
    /\ \/ Use(bucket[r])
       \/ UNCHANGED <<used, left>>

Elapse ==
    /\ left' = [b \in Buckets |-> IF left[b] = 0 THEN 0 ELSE left[b] - 1]
    /\ used' = [b \in Buckets |-> IF left[b] <= 1 THEN 0 ELSE used[b]]
    /\ UNCHANGED <<bucket, verdict>>

FWNext ==
    \/ \E r \in Requests : Admit(r) \/ Reject(r) \/ Bypass(r)
    \/ Elapse

FWSpec == FWInit /\ [][FWNext]_fwvars

=============================================================================
