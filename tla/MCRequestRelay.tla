---------------------------- MODULE MCRequestRelay ----------------------------
(***************************************************************************)
(* Values for the constants of RequestRelay.                               *)
(***************************************************************************)
EXTENDS RelayRefinement, TLC

CONSTANTS u1, u2

Command(k, u, i) == [kind |-> k, user |-> u, id |-> i]

\* One command of each way through the gateway: an image, which is relayed after
\* an await, an action, which is not, and a chat message, with and without an id.
EachWay == {Command("camera", u1, 1), Command("lock_action", u2, 2),
            Command("chat", u1, 3), Command("chat", u2, None)}

Times(n, m) == [k \in Trouble |-> IF k = "emit" THEN n ELSE m]

Retries == Times(2, 1)

===============================================================================
