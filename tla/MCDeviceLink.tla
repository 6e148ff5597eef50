---------------------------- MODULE MCDeviceLink ----------------------------
(***************************************************************************)
(* Values for the constants of DeviceLink.                                 *)
(***************************************************************************)
EXTENDS LinkRefinement, TLC

CONSTANTS d1, s1, s2

\* One agent that reconnects.
OneAgent == (s1 :> d1) @@ (s2 :> d1)

Once(troubles) == [k \in Trouble |-> IF k \in troubles THEN 1 ELSE 0]

Calm   == Once({})
Faults == Once({"revoke", "regenerate", "reject", "restart"})

Symmetry == Permutations(Jobs)

=============================================================================
