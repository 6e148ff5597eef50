------------------------------ MODULE MCHeartbeat ------------------------------
(***************************************************************************)
(* Values for the constants of Heartbeat.                                  *)
(***************************************************************************)
EXTENDS Heartbeat, TLC

Symmetry == Permutations(Sockets)

===============================================================================
