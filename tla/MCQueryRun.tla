------------------------------ MODULE MCQueryRun ------------------------------
(* Instances of QueryRun for TLC: who calls what. *)
EXTENDS QueryRun, TLC

CONSTANTS c1, c2, c3

\* One client that creates the run and polls it.
SoloOps == [c \in Clients |-> {"create", "poll"}]

\* Everybody does everything: browser tabs, the job scheduler, an operator.
AllOps == [c \in Clients |-> Calls]

Symmetry == Permutations(Clients)
=============================================================================
