---------------------------- MODULE ClusterService ----------------------------
(***************************************************************************)
(* What the lifecycle of a cluster promises to its users, in the terms of  *)
(* docs/understanding-clusters.md: a cluster that is off costs nothing, a  *)
(* cluster is only turned on from nothing, and it is only off or gone      *)
(* again once its compute is released.                                     *)
(***************************************************************************)
VARIABLES
  mode,      \* "off", "provisioning", "on", "stopping", "broken" or "gone"
  compute    \* TRUE while a coordinator or a worker group exists

Init == \/ mode = "off" /\ ~compute
        \/ mode = "on" /\ compute

Provision == mode \in {"off", "broken"} /\ ~compute /\ mode' = "provisioning" /\ UNCHANGED compute
Launch    == mode = "provisioning" /\ compute' = TRUE /\ UNCHANGED mode
TurnOn    == mode \in {"provisioning", "broken"} /\ compute /\ mode' = "on" /\ UNCHANGED compute
Stop      == mode # "gone" /\ mode' = "stopping" /\ UNCHANGED compute
Release   == mode = "stopping" /\ compute' = FALSE /\ UNCHANGED mode
TurnOff   == mode = "stopping" /\ ~compute /\ mode' = "off" /\ UNCHANGED compute
Break     == mode \in {"provisioning", "stopping"} /\ mode' = "broken" /\ UNCHANGED compute
Remove    == mode = "stopping" /\ ~compute /\ mode' = "gone" /\ UNCHANGED compute

Next == Provision \/ Launch \/ TurnOn \/ Stop \/ Release \/ TurnOff \/ Break \/ Remove

Spec == Init /\ [][Next]_<<mode, compute>>
=============================================================================
