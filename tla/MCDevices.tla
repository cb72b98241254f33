----------------------------- MODULE MCDevices ------------------------------
(* Instances of Devices for TLC. *)
EXTENDS Devices, TLC

CONSTANTS command1, command2, fan, plain, renamed, kitchen, hall, node1, node2
=============================================================================
