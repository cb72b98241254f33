----------------------------- MODULE MCReplica ------------------------------
(* Instances of Replica for TLC. *)
EXTENDS Replica, TLC

CONSTANTS
  b1, b2, Other, power, mute,
  tight     \* a board whose byte budget holds one waveform

MCSlots == [b \in Boards |-> MaxId]
MCRoom == [b \in Boards |-> IF b = tight THEN 1 ELSE MaxId]
Symmetry == Permutations(Names)
=============================================================================
