---------------------------- MODULE TaskLifecycle ----------------------------
(***************************************************************************)
(* The vocabulary of a task and the pure decisions of the orchestrator:    *)
(* what an AI plan leads to (the chain of early returns that ends          *)
(* TasksService.runAiIteration) and what a finished batch of actions leads *)
(* to (decideAfterActionBatch).  No state: TaskEngine and its model        *)
(* checking modules build on it.                                           *)
(*                                                                         *)
(* A plan is abstracted to what those decisions tell apart: the wire       *)
(* status, which control actions it contains, how many executable actions  *)
(* it contains, whether it looks like a simulated user approval, and the   *)
(* execution mode it asks for ("none" where the optional field is absent). *)
(***************************************************************************)
EXTENDS Naturals

\* TaskStatus of the Prisma schema; "NONE" is a row not created yet.
TaskStatus == {"NONE", "CREATED", "RUNNING", "WAITING_FOR_SCREEN",
               "WAITING_FOR_ACTION", "WAITING_FOR_USER",
               "COMPLETED", "FAILED", "CANCELLED"}

\* isTerminal.
Terminal == {"COMPLETED", "FAILED", "CANCELLED"}

\* ActionStatus; "NONE" is a row not created yet (SKIPPED is never written).
ActionStatus == {"NONE", "PENDING", "SENT", "SUCCEEDED", "FAILED"}

\* The statuses recordResult treats as an answer already recorded.
Recorded == {"SUCCEEDED", "FAILED"}

ExecutionMode == {"single_action", "multi_step"}

WireStatus == {"none", "continue", "completed", "failed", "need_user"}

\* The action types that are never sent to a device.
ControlAction == {"DONE", "FAIL", "WAIT", "ASK_USER", "SCREENSHOT"}

\* Every plan with at most maxWork executable actions.
PlanSpace(maxWork) ==
    [status  : WireStatus,
     control : SUBSET ControlAction,
     work    : 0 .. maxWork,
     fake    : BOOLEAN,
     mode    : ExecutionMode \cup {"none"}]

------------------------------------------------------------------------------

\* Mutant: the planner's mode without the fallback to the server's.
PlannersMode(plan, mode) == plan.mode

\* The mode the rest of the cycle uses: the planner may override the server's.
EffectiveMode(plan, mode) ==
    IF plan.mode = "none" THEN mode ELSE plan.mode

\* The plan declares the task finished.
SaysDone(plan) == plan.status = "completed" \/ "DONE" \in plan.control

\* shouldReplanOnNonExecutablePlan.
ShouldReplan(mode, wireStatus, hasDone) ==
    /\ wireStatus \notin {"completed", "failed", "need_user"}
    /\ ~hasDone
    /\ mode # "single_action"

Verdict == {"await_user", "complete", "fail", "ask_user", "replan", "execute"}

\* The early returns of runAiIteration after the AI answered, in their order.
PlanVerdict(plan, mode) ==
    IF plan.fake THEN "await_user"
    ELSE IF SaysDone(plan) /\ plan.work = 0 THEN "complete"
    ELSE IF plan.status = "failed" \/ "FAIL" \in plan.control THEN "fail"
    ELSE IF plan.status = "need_user" THEN "await_user"
    ELSE IF "ASK_USER" \in plan.control THEN "ask_user"
    ELSE IF plan.work > 0 THEN "execute"
    ELSE IF ShouldReplan(EffectiveMode(plan, mode), plan.status,
                         "DONE" \in plan.control) THEN "replan"
    ELSE "complete"

BatchDecision == {"complete", "fail", "replan", "noop"}

\* Mutant: every batch leads to another screenshot.
AlwaysReplans(mode, allSucceeded, isTerminal) ==
    IF isTerminal THEN "noop" ELSE "replan"

\* decideAfterActionBatch.
AfterBatch(mode, allSucceeded, isTerminal) ==
    IF isTerminal THEN "noop"
    ELSE IF mode # "single_action" THEN "replan"
    ELSE IF allSucceeded THEN "complete" ELSE "fail"

==============================================================================
