---------------------------- MODULE MCReception ----------------------------
(* Reception of three short remotes, for TLC. *)
EXTENDS Reception

\* Two whose prefixes and suffixes differ and one that resembles itself.
MCRemotes == {<<4, -2, 4>>, <<2, -4, 2, -2, 4>>, <<2, -2, 2, -2, 2>>}
=============================================================================
