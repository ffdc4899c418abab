----------------------------- MODULE MCPollerTicks -----------------------------
(* An instance of PollerTicks for TLC: an autoscaled cluster with auto-suspend   *)
(* that an edit makes a fixed one without, and back.                            *)
EXTENDS PollerTicks

SomeRows ==
  {[mode |-> "autoscale", min |-> 1, max |-> 3, suspend |-> 2],
   [mode |-> "fixed", min |-> 2, max |-> 2, suspend |-> 0]}
=============================================================================
