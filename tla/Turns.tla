------------------------------- MODULE Turns -------------------------------
(***************************************************************************)
(* What the modules of a store's day say about the order of requests, and  *)
(* how they write a row.                                                   *)
(* before[r] is a history variable: the requests that had ended, answered  *)
(* or not, when r began.                                                   *)
(***************************************************************************)

\* Two requests of which neither began after the end of the other.
Overlap(before, r, q) == r \notin before[q] /\ q \notin before[r]

\* The columns of new, written on a row.
With(new, row) == [f \in DOMAIN row |-> IF f \in DOMAIN new THEN new[f] ELSE row[f]]
=============================================================================
