--------------------------- MODULE MCCoordinator ----------------------------
(* Instances of Coordinator for TLC. *)
EXTENDS Coordinator, TLC

CONSTANTS flow, automation, power, mute
=============================================================================
