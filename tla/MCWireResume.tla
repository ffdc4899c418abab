----------------------------- MODULE MCWireResume -----------------------------
(* Instances of WireResume for TLC. *)
EXTENDS WireResume

CONSTANTS c1, c2, poller
=============================================================================
