-------------------------- MODULE MCClusterLifecycle --------------------------
(* Instances of ClusterLifecycle for TLC: which operations the threads run.    *)
EXTENDS ClusterLifecycle, TLC

CONSTANTS c1, c2, c3

All(S) == [c \in Callers |-> S]

\* Resume triggers racing each other, health checks and edits; the poller thread.
StartsOps == [c \in Callers |-> IF c = c3 THEN {"poll"} ELSE {"start", "health", "resize"}]

\* Teardowns racing each other (the auto-suspender and two operators).
TeardownOps == All(Teardowns)

\* Everything at once.
AllOps == All(Operations)

Symmetry == Permutations(Callers)
=============================================================================
