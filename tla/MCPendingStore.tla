---------------------------- MODULE MCPendingStore ----------------------------
(***************************************************************************)
(* Values for the constants of PendingStore.                               *)
(***************************************************************************)
EXTENDS PendingStore, TLC

\* Every request awaits its answer for two units of time.
Twos == [r \in Requests |-> 2]

Symmetry == Permutations(Clients)

===============================================================================
