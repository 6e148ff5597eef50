---------------------------- MODULE MCTaskEngine ----------------------------
(***************************************************************************)
(* Values for the constants of TaskEngine: the AI service's plans, one of  *)
(* each kind the orchestrator tells apart, and the environments the runs   *)
(* ask about.                                                              *)
(***************************************************************************)
EXTENDS TaskRefinement, TLC

Answer(wireStatus, control, work) ==
    [status |-> wireStatus, control |-> control, work |-> work,
     fake |-> FALSE, mode |-> "none"]

Act      == Answer("continue", {}, 1)
ActLast  == Answer("continue", {"DONE"}, 1)
ActTwo   == Answer("continue", {}, 2)
Done     == Answer("completed", {}, 0)
Look     == Answer("continue", {"SCREENSHOT"}, 0)
Pause    == Answer("continue", {"WAIT"}, 0)
Ask      == Answer("continue", {"ASK_USER"}, 0)
NeedUser == Answer("need_user", {}, 0)
GiveUp   == Answer("failed", {}, 0)

\* The planner overrides the server's mode.
ActOn == [Act EXCEPT !.mode = "multi_step"]

\* One action at a time.
PlansSingle == {Act, ActLast, Done, Look, Pause, Ask, NeedUser, GiveUp}

\* Batches of two; the first two sets hold no plan that stores a control action.
PlansTwo   == {ActTwo, ActLast, NeedUser}
PlansBatch == {ActTwo, ActLast, ActOn, Look, NeedUser}

\* Batches of two and a stored ASK_USER: both may fall into one iteration.
PlansMixed == {ActTwo, ActLast, Look, Ask}

Once(troubles) == [k \in Trouble |-> IF k \in troubles THEN 1 ELSE 0]

Regular   == Once({})
Talk      == Once({"message"})
Races     == Once({"cancel", "duplicate"})
Faults    == Once({"message", "disconnect", "expire", "reject", "restart"})
Cancelled == Once({"cancel"})
Repeated  == Once({"duplicate"})

Symmetry == Permutations(Jobs) \cup Permutations(ActionIds)
                \cup Permutations(RequestIds)

=============================================================================
