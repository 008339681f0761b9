----------------------------- MODULE Iteration -----------------------------
(***************************************************************************)
(* The loops of the source: a step repeated N times.  A loop that ends     *)
(* earlier has a step that leaves its last state as it is; an N that is no *)
(* number stands for no round at all.                                      *)
(***************************************************************************)
EXTENDS Naturals

CONSTANT Step(_)

Iterate(x, N) ==
  LET run[k \in 0 .. N] == IF k = 0 THEN x ELSE Step(run[k - 1])
  IN  IF N \in Nat THEN run[N] ELSE x
=============================================================================
