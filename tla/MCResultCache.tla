----------------------------- MODULE MCResultCache -----------------------------
(* An instance of ResultCache for TLC. *)
EXTENDS ResultCache, TLC

CONSTANTS u1, t1, t2, q1

Symmetry == Permutations(Threads)
=============================================================================
