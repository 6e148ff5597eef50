--------------------------- MODULE TaskRefinement ---------------------------
(***************************************************************************)
(* The refinement mapping from TaskEngine to TaskProtocol.  status and     *)
(* iteration are the database's; what a task is owed is read off the       *)
(* requests at the device and the handlers that carry a screenshot.        *)
(***************************************************************************)
EXTENDS TaskEngine

Delivered(t) == \E j \in Jobs : T(j) = t /\ job[j].pc \in {"screen", "iterate"}

OwedTo(t) ==
    IF \E r \in RequestIds : captures[r] = t THEN "screen"
    ELSE IF Delivered(t) THEN "delivered"
    ELSE IF \E a \in executing : action[a].task = t THEN "outcome"
    ELSE "nothing"

Protocol == INSTANCE TaskProtocol WITH owed <- [t \in Tasks |-> OwedTo(t)]

\* TasksService keeps to the task protocol: however it is interrupted by lost
\* requests, expired keys, rejected queries and restarts, a task whose answers
\* come one at a time moves only along the README's life cycle, is planned once
\* per delivered screenshot and at most MaxIterations times, has one request at
\* the device at a time, and does nothing once it is over.
ImplementsProtocol == Protocol!Spec

=============================================================================
