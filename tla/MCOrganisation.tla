--------------------------- MODULE MCOrganisation ---------------------------
(* Model values for Organisation. *)
EXTENDS Organisation, TLC

CONSTANTS power, mute, fan

Symmetry == Permutations({power, mute})
=============================================================================
