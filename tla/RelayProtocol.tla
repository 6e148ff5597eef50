---------------------------- MODULE RelayProtocol ----------------------------
(***************************************************************************)
(* What the gateway promises the dashboards of a command with a request    *)
(* id, seen from the outside: it is taken at most as often as it was sent, *)
(* a taken one is answered at most once, and nobody is sent an answer that *)
(* was not asked for.  Nothing is promised to arrive.  RelayRefinement     *)
(* shows where RequestRelay keeps this promise.                            *)
(***************************************************************************)
EXTENDS Naturals

CONSTANT Commands

VARIABLES
    emitted,  \* how often a dashboard sent the command
    taken,    \* how often it went to the device, or to the planner
    open,     \* the commands the device may answer
    relayed   \* how often an answer went to the dashboard

vars == <<emitted, taken, open, relayed>>

Once(n, c) == n' = [n EXCEPT ![c] = @ + 1]

Init ==
    /\ emitted = [c \in Commands |-> 0]
    /\ taken = [c \in Commands |-> 0]
    /\ open = {}
    /\ relayed = [c \in Commands |-> 0]

\* A dashboard sends the command, for the first time or again.
Send(c) ==
    /\ Once(emitted, c)
    /\ UNCHANGED <<taken, open, relayed>>

\* The planner answers in the task's own events; the device answers here.
Take(c) ==
    /\ taken[c] < emitted[c]
    /\ Once(taken, c)
    /\ open' = IF c.kind = "chat" THEN open ELSE open \cup {c}
    /\ UNCHANGED <<emitted, relayed>>

\* What is open is answered once, and then no longer open.
Answer(c) ==
    /\ c \in open
    /\ relayed[c] < taken[c]
    /\ Once(relayed, c)
    /\ open' = open \ {c}
    /\ UNCHANGED <<emitted, taken>>

\* Answers get lost, expire, or come when the dashboard is closed.
Lose ==
    /\ open' \in SUBSET open
    /\ UNCHANGED <<emitted, taken, relayed>>

Next ==
    \/ \E c \in Commands : Send(c) \/ Take(c) \/ Answer(c)
    \/ Lose

Spec == Init /\ [][Next]_vars

==============================================================================
