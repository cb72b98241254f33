--------------------------- MODULE MCCommandStore ---------------------------
(* CommandStore on a board of one or two slots, for TLC. *)
EXTENDS CommandStore, TLC

CONSTANTS light, tv, spaced, short, long

MCPulses == [w \in Waves |-> IF w = short THEN 1 ELSE 2]

\* Two slots with room for two pulses in all, and a firmware built for one short command.
Roomy == [max_commands |-> 2, max_pulses |-> 2, room |-> 2]
Tight == [max_commands |-> 1, max_pulses |-> 1, room |-> 2]
BothConfigs == {Roomy, Tight}
OneConfig == {Roomy}
\* One slot, for the run that moves the board between two identities.
Small == [max_commands |-> 1, max_pulses |-> 2, room |-> 2]
SmallConfig == {Small}

Symmetry == Permutations(BridgeIds) \cup Permutations(ValidNames)
=============================================================================
