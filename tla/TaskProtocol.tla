---------------------------- MODULE TaskProtocol ----------------------------
(***************************************************************************)
(* What TasksService promises of a task, seen from the outside: the        *)
(* statuses it goes through (README, "Task lifecycle"), at most one request *)
(* at the device at a time, one planning round per screenshot delivered,   *)
(* at most MaxIterations of them, and nothing more once it is over.        *)
(* TaskRefinement shows where TaskEngine keeps this promise.               *)
(***************************************************************************)
EXTENDS TaskLifecycle

CONSTANTS Tasks, MaxIterations

VARIABLES
    status,     \* status[t]: where the task is in its life
    iteration,  \* iteration[t]: planning rounds started
    owed        \* owed[t]: the outstanding request, or its answer

vars == <<status, iteration, owed>>

\* Nothing is asked; the device owes a screenshot; it is delivered and not yet
\* planned on; the device owes the outcome of an action.
Owed == {"nothing", "screen", "delivered", "outcome"}

Live == TaskStatus \ (Terminal \cup {"NONE"})

Init ==
    /\ status = [t \in Tasks |-> "NONE"]
    /\ iteration = [t \in Tasks |-> 0]
    /\ owed = [t \in Tasks |-> "nothing"]

\* t goes from one of the statuses in from to the status to.
Moves(t, from, to) ==
    /\ status[t] \in from
    /\ status' = [status EXCEPT ![t] = to]

Owes(t, from, to) ==
    /\ owed[t] = from
    /\ owed' = [owed EXCEPT ![t] = to]

Create(t) ==
    /\ Moves(t, {"NONE"}, "CREATED")
    /\ UNCHANGED <<iteration, owed>>

Start(t) ==
    /\ Moves(t, {"CREATED"}, "RUNNING")
    /\ UNCHANGED <<iteration, owed>>

\* Another look at the screen, while rounds are left.
Look(t) ==
    /\ Moves(t, {"RUNNING", "WAITING_FOR_ACTION", "WAITING_FOR_USER"},
             "WAITING_FOR_SCREEN")
    /\ owed[t] = "nothing"
    /\ iteration[t] < MaxIterations
    /\ UNCHANGED <<iteration, owed>>

AskScreen(t) ==
    /\ status[t] = "WAITING_FOR_SCREEN"
    /\ Owes(t, "nothing", "screen")
    /\ UNCHANGED <<status, iteration>>

Deliver(t) ==
    /\ Owes(t, "screen", "delivered")
    /\ UNCHANGED <<status, iteration>>

\* A planning round consumes the screenshot.
Plan(t) ==
    /\ Moves(t, {"WAITING_FOR_SCREEN"}, "RUNNING")
    /\ Owes(t, "delivered", "nothing")
    /\ iteration' = [iteration EXCEPT ![t] = @ + 1]

AwaitUser(t) ==
    /\ Moves(t, {"RUNNING"}, "WAITING_FOR_USER")
    /\ UNCHANGED <<iteration, owed>>

Execute(t) ==
    /\ Moves(t, {"RUNNING"}, "WAITING_FOR_ACTION")
    /\ UNCHANGED <<iteration, owed>>

AskAction(t) ==
    /\ status[t] = "WAITING_FOR_ACTION"
    /\ Owes(t, "nothing", "outcome")
    /\ UNCHANGED <<status, iteration>>

Outcome(t) ==
    /\ Owes(t, "outcome", "nothing")
    /\ UNCHANGED <<status, iteration>>

Complete(t) ==
    /\ Moves(t, {"RUNNING", "WAITING_FOR_ACTION"}, "COMPLETED")
    /\ owed[t] = "nothing"
    /\ UNCHANGED <<iteration, owed>>

\* A failed capture is both the answer and the end.
FailTask(t) ==
    /\ Moves(t, Live \ {"CREATED"}, "FAILED")
    /\ owed[t] \in {"nothing", "screen"}
    /\ owed' = [owed EXCEPT ![t] = "nothing"]
    /\ UNCHANGED iteration

Cancel(t) ==
    /\ Moves(t, Live, "CANCELLED")
    /\ UNCHANGED <<iteration, owed>>

\* Requests and answers may get lost.
Lose ==
    /\ owed' \in [Tasks -> Owed]
    /\ \A t \in Tasks : owed'[t] \in {owed[t], "nothing"}
    /\ UNCHANGED <<status, iteration>>

Next ==
    \/ \E t \in Tasks :
          \/ Create(t) \/ Start(t) \/ Look(t) \/ AskScreen(t) \/ Deliver(t)
          \/ Plan(t) \/ AwaitUser(t) \/ Execute(t) \/ AskAction(t)
          \/ Outcome(t) \/ Complete(t) \/ FailTask(t) \/ Cancel(t)
    \/ Lose

Spec == Init /\ [][Next]_vars

=============================================================================
