---------------------------- MODULE BracketSearch ----------------------------
(***************************************************************************)
(* What a search for the largest size that fits promises, whatever its     *)
(* order of probes: the bracket only narrows, towards the limit, by sizes  *)
(* that lie strictly inside it; it may be started again from nothing.      *)
(* The limit of a search is fixed.                                         *)
(***************************************************************************)
EXTENDS Naturals

VARIABLES
  lo,      \* the largest size known to fit (0: none)
  hi,      \* the smallest size known not to fit (0: none)
  limit    \* the largest size that fits

vars == <<lo, hi, limit>>

Inside(n) == n \in Nat /\ lo < n /\ (hi = 0 \/ n < hi)

Fits == Inside(lo') /\ lo' <= limit /\ hi' = hi
Fails == Inside(hi') /\ limit < hi' /\ lo' = lo

Narrow == (Fits \/ Fails) /\ limit' = limit

Restart == lo' = 0 /\ hi' = 0 /\ limit' \in Nat

Init == lo = 0 /\ hi = 0 /\ limit \in Nat

Spec == Init /\ [][Narrow \/ Restart]_vars

\* The limit lies in the bracket (find_max_context's loop invariant).
LimitInside == lo <= limit /\ (hi = 0 \/ limit < hi)

=============================================================================
