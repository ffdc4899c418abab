---------------------------- MODULE MCInboundEmail ----------------------------
(* An instance of InboundEmail for TLC. *)
EXTENDS InboundEmail

CONSTANTS s1
=============================================================================
