------------------------------ MODULE TaskEngine ------------------------------
(***************************************************************************)
(* The task loop of TasksService (src/src/tasks/tasks.service.ts) with the *)
(* action history (src/src/actions/actions.service.ts) and the pending     *)
(* keys it uses.                                                           *)
(*                                                                         *)
(* Node runs one handler at a time and switches at every await, so a       *)
(* handler is a job with a program counter that names the await it is      *)
(* suspended at.  A step resumes one job, runs it to its next await and    *)
(* performs the database operation awaited there; what a query returned is *)
(* kept in the job and may be stale when the job resumes.  Any number of   *)
(* handlers, up to the bound Jobs, interleave.                             *)
(*                                                                         *)
(* The agent and the network are external: a request stays at the device   *)
(* until it is answered, an answer may be duplicated, a disconnect may     *)
(* lose any of the requests.  The AI service answers any of Plans, or      *)
(* fails.  Budget bounds how often each of these things happens.           *)
(***************************************************************************)
EXTENDS FiniteSets, TaskLifecycle

CONSTANTS
    Tasks,          \* task rows that may be created
    Jobs,           \* BOUND: handlers in flight at the same time
    ActionIds,      \* BOUND: action rows that may be created
    RequestIds,     \* BOUND: screenshot requests in flight at the same time
    None,           \* no task, no action, no request
    MaxIterations,  \* task.maxIterations
    Plans,          \* the plans the AI service may answer
    EchoTaskId,     \* may the agent repeat the optional taskId in SCREEN_RESULT
    Budget          \* BOUND: how often each of Trouble may happen

\* What happens to the engine from outside besides regular answers.
Trouble == {"cancel", "message", "duplicate", "disconnect",
            "expire", "reject", "restart"}

ASSUME TaskEngineAssumption ==
    /\ None \notin Tasks \cup ActionIds \cup RequestIds
    /\ IsFiniteSet(ActionIds)
    /\ MaxIterations \in Nat \ {0}
    /\ \A p \in Plans : p \in PlanSpace(p.work)
    /\ EchoTaskId \subseteq BOOLEAN
    /\ Budget \in [Trouble -> Nat]

VARIABLES
    status,         \* database: task.status
    iteration,      \* database: task.iteration
    action,         \* database: the task_action rows
    instruction,    \* database: the mode inferExecutionMode reads in the text
    active,         \* memory: activePlanCycles
    mode,           \* memory: executionModes ("unset" where there is no entry)
    screenPending,  \* memory: pending keys screen-pending:<request>
    completeAfter,  \* memory: pending keys complete-after-actions:<task>
    userReply,      \* memory: pending keys user-reply:<task>
    job,            \* memory: the suspended handlers
    captures,       \* device: unanswered CAPTURE_SCREEN, with their task
    executing,      \* device: unanswered EXECUTE_ACTION
    online,         \* device: a live agent socket is registered
    budget          \* what is left of Budget

rows    == <<status, iteration, action, instruction>>
pending == <<screenPending, completeAfter, userReply>>
device  == <<captures, executing, online>>
vars    == <<rows, active, mode, pending, job, device, budget>>

\* The awaits a handler can be suspended at; the comment names what it awaits.
PC == {"idle",           \* no handler
       "create",         \* create: chat message row, then setImmediate
       "start",          \* startTask: task read
       "request",        \* requestScreenAndPlan: status write before it
       "request_check",  \* requestScreenAndPlan: task read
       "request_send",   \* requestScreenAndPlan: WAITING_FOR_SCREEN write
       "screen",         \* handleScreenResult: task read
       "iterate",        \* runAiIteration: task read
       "ask_ai",         \* runAiIteration: iteration write
       "ai",             \* runAiIteration: planNextActions
       "ai_failed",      \* runAiIteration: status write of failTask
       "plan",           \* runAiIteration: screenshots.discard
       "asked",          \* runAiIteration: createActions([askUser])
       "wait",           \* runAiIteration: createActions([waitAction]), timer
       "created",        \* runAiIteration: createActions(executable)
       "dispatch",       \* runAiIteration: WAITING_FOR_ACTION write
       "send",           \* runAiIteration: markSent
       "return",         \* runAiIteration: last status write, or discard
       "record",         \* recordResult: action read
       "recorded",       \* recordResult: action write
       "result",         \* handleActionResult: task read
       "count",          \* handleActionResult: count of unanswered actions
       "decide",         \* handleActionResult: rows of the batch
       "cancel",         \* cancel: task read
       "message",        \* handleUserMessage: task read
       "close"}          \* failTask, completeTask, cancel: final status write

\* A handler: where it is, the task it works on, what it read of the task,
\* whether it is inside the try block of runAiIteration, its local variables.
Job == [pc    : PC,
        task  : Tasks \cup {None},
        seen  : TaskStatus,
        iter  : Nat,
        cycle : BOOLEAN,
        mode  : ExecutionMode \cup {"unset"},
        act   : ActionIds \cup {None},
        todo  : SUBSET ActionIds,
        ok    : BOOLEAN,
        req   : RequestIds \cup {None}]

Idle == [pc |-> "idle", task |-> None, seen |-> "NONE", iter |-> 0,
         cycle |-> FALSE, mode |-> "unset", act |-> None, todo |-> {},
         ok |-> FALSE, req |-> None]

ActionRow == [status : ActionStatus, task : Tasks \cup {None}, iter : Nat]

NoRow == [status |-> "NONE", task |-> None, iter |-> 0]

TypeOK ==
    /\ status \in [Tasks -> TaskStatus]
    /\ iteration \in [Tasks -> Nat]
    /\ action \in [ActionIds -> ActionRow]
    /\ instruction \in [Tasks -> ExecutionMode]
    /\ active \subseteq Tasks
    /\ mode \in [Tasks -> ExecutionMode \cup {"unset"}]
    /\ screenPending \in [RequestIds -> Tasks \cup {None}]
    /\ completeAfter \subseteq Tasks
    /\ userReply \subseteq Tasks
    /\ job \in [Jobs -> Job]
    /\ captures \in [RequestIds -> Tasks \cup {None}]
    /\ executing \subseteq ActionIds
    /\ online \in BOOLEAN
    /\ budget \in [Trouble -> Nat]

Init ==
    /\ status = [t \in Tasks |-> "NONE"]
    /\ iteration = [t \in Tasks |-> 0]
    /\ action = [a \in ActionIds |-> NoRow]
    /\ instruction \in [Tasks -> ExecutionMode]
    /\ active = {}
    /\ mode = [t \in Tasks |-> "unset"]
    /\ screenPending = [r \in RequestIds |-> None]
    /\ completeAfter = {}
    /\ userReply = {}
    /\ job = [j \in Jobs |-> Idle]
    /\ captures = [r \in RequestIds |-> None]
    /\ executing = {}
    /\ online = TRUE
    /\ budget = Budget

------------------------------------------------------------------------------
\* Moves of a handler.

At(j, p) == job[j].pc = p

T(j) == job[j].task

\* Await something that returns nothing the handler uses.
Await(j, p) == job' = [job EXCEPT ![j].pc = p]

\* Await prisma.task.findUnique.
AwaitTask(j, p) ==
    job' = [job EXCEPT ![j].pc = p,
                       ![j].seen = status[T(j)],
                       ![j].iter = iteration[T(j)]]

\* A new handler for task t whose first await is a read of the task row.
Begin(j, p, t) ==
    /\ At(j, "idle")
    /\ job' = [job EXCEPT ![j] = [Idle EXCEPT !.pc = p, !.task = t,
                                              !.seen = status[t],
                                              !.iter = iteration[t]]]

\* Mutant: no finally block.
ReturnHolding(j) ==
    /\ job' = [job EXCEPT ![j] = Idle]
    /\ active' = active

\* The handler ends; the finally block of runAiIteration releases the guard.
Return(j) ==
    /\ job' = [job EXCEPT ![j] = Idle]
    /\ active' = IF job[j].cycle THEN active \ {T(j)} ELSE active

\* clearTaskRuntime, then the handler ends.
ReturnCleared(j) ==
    /\ job' = [job EXCEPT ![j] = Idle]
    /\ active' = active \ {T(j)}
    /\ mode' = [mode EXCEPT ![T(j)] = "unset"]

SetStatus(t, s) == status' = [status EXCEPT ![t] = s]

\* failTask and completeTask up to their await; Close is the rest.
FailTask(j) == SetStatus(T(j), "FAILED") /\ Await(j, "close")
CompleteTask(j) == SetStatus(T(j), "COMPLETED") /\ Await(j, "close")

Spend(k) ==
    /\ budget[k] > 0
    /\ budget' = [budget EXCEPT ![k] = @ - 1]

\* getExecutionMode.
CachedMode(t) == IF mode[t] = "unset" THEN instruction[t] ELSE mode[t]

\* Action rows not created yet, and the sets of n of them.
Unused == {a \in ActionIds : action[a].status = "NONE"}

FreshRows(n) == {new \in SUBSET Unused : Cardinality(new) = n}

\* createActions.
CreateActions(new, t, iter) ==
    action' = [a \in ActionIds |->
                 IF a \in new
                 THEN [status |-> "PENDING", task |-> t, iter |-> iter]
                 ELSE action[a]]

\* The actions of the batch that action a belongs to.
Batch(a) == {b \in ActionIds : /\ action[b].status # "NONE"
                               /\ action[b].task = action[a].task
                               /\ action[b].iter = action[a].iter}

\* Mutants: a sent action does not count; a failed one does.
UnansweredPending == {"PENDING"}

UnansweredFailed == {"PENDING", "SENT", "FAILED"}

Unanswered == {"PENDING", "SENT"}

\* Request ids that occur nowhere (uuid).
FreshRequests ==
    {r \in RequestIds : /\ captures[r] = None
                        /\ screenPending[r] = None
                        /\ \A j \in Jobs : job[j].req # r}

------------------------------------------------------------------------------
\* create and startTask.

\* The new row of task t is written; the chat message row is awaited.
NewTask(j, t) ==
    /\ status[t] = "NONE"
    /\ online
    /\ SetStatus(t, "CREATED")
    /\ job' = [job EXCEPT ![j] = [Idle EXCEPT !.pc = "create", !.task = t]]

Create(j, t) ==
    /\ At(j, "idle")
    /\ NewTask(j, t)
    /\ UNCHANGED <<iteration, action, instruction, active, mode, pending,
                   device, budget>>

\* setImmediate runs startTask.
Start(j) ==
    /\ At(j, "create")
    /\ AwaitTask(j, "start")
    /\ UNCHANGED <<rows, active, mode, pending, device, budget>>

\* Mutant: no check for a task cancelled before it started.
StartTaskAnyway(j) ==
    /\ At(j, "start")
    /\ SetStatus(T(j), "RUNNING")
    /\ Await(j, "request")
    /\ UNCHANGED <<iteration, action, instruction, active, mode, pending,
                   device, budget>>

StartTask(j) ==
    /\ At(j, "start")
    /\ \/ /\ job[j].seen = "CANCELLED"
          /\ Return(j)
          /\ UNCHANGED status
       \/ /\ job[j].seen # "CANCELLED"
          /\ SetStatus(T(j), "RUNNING")
          /\ Await(j, "request")
          /\ UNCHANGED active
    /\ UNCHANGED <<iteration, action, instruction, mode, pending, device,
                   budget>>

------------------------------------------------------------------------------
\* requestScreenAndPlan.

Request(j) ==
    /\ At(j, "request")
    /\ AwaitTask(j, "request_check")
    /\ UNCHANGED <<rows, active, mode, pending, device, budget>>

RequestTerminal(j) ==
    /\ At(j, "request_check")
    /\ job[j].seen \in Terminal
    /\ ReturnCleared(j)
    /\ UNCHANGED <<rows, pending, device, budget>>

RequestSkipped(j) ==
    /\ At(j, "request_check")
    /\ job[j].seen \notin Terminal
    /\ T(j) \in active
    /\ Return(j)
    /\ UNCHANGED <<rows, mode, pending, device, budget>>

RequestExhausted(j) ==
    /\ At(j, "request_check")
    /\ job[j].seen \notin Terminal
    /\ T(j) \notin active
    /\ job[j].iter >= MaxIterations
    /\ FailTask(j)
    /\ UNCHANGED <<iteration, action, instruction, active, mode, pending,
                   device, budget>>

\* Mutant: the cap is off by one.
RequestScreenOnceMore(j) ==
    /\ At(j, "request_check")
    /\ job[j].seen \notin Terminal
    /\ T(j) \notin active
    /\ job[j].iter <= MaxIterations
    /\ \E r \in FreshRequests :
          /\ screenPending' = [screenPending EXCEPT ![r] = T(j)]
          /\ job' = [job EXCEPT ![j].pc = "request_send", ![j].req = r]
    /\ SetStatus(T(j), "WAITING_FOR_SCREEN")
    /\ UNCHANGED <<iteration, action, instruction, active, mode,
                   completeAfter, userReply, device, budget>>

RequestScreen(j) ==
    /\ At(j, "request_check")
    /\ job[j].seen \notin Terminal
    /\ T(j) \notin active
    /\ job[j].iter < MaxIterations
    /\ \E r \in FreshRequests :
          /\ screenPending' = [screenPending EXCEPT ![r] = T(j)]
          /\ job' = [job EXCEPT ![j].pc = "request_send", ![j].req = r]
    /\ SetStatus(T(j), "WAITING_FOR_SCREEN")
    /\ UNCHANGED <<iteration, action, instruction, active, mode,
                   completeAfter, userReply, device, budget>>

RequestSent(j) ==
    /\ At(j, "request_send")
    /\ online
    /\ captures' = [captures EXCEPT ![job[j].req] = T(j)]
    /\ Return(j)
    /\ UNCHANGED <<rows, mode, pending, executing, online, budget>>

RequestUnsent(j) ==
    /\ At(j, "request_send")
    /\ ~online
    /\ screenPending' = [screenPending EXCEPT ![job[j].req] = None]
    /\ FailTask(j)
    /\ UNCHANGED <<iteration, action, instruction, active, mode,
                   completeAfter, userReply, device, budget>>

\* failTask, completeTask and cancel after their write.
Close(j) ==
    /\ At(j, "close")
    /\ ReturnCleared(j)
    /\ UNCHANGED <<rows, pending, device, budget>>

------------------------------------------------------------------------------
\* handleScreenResult.

\* The device answers request r; a duplicate answer may follow.
Answered(r) ==
    \/ captures' = [captures EXCEPT ![r] = None] /\ UNCHANGED budget
    \/ UNCHANGED captures /\ Spend("duplicate")

\* The task an answer to request r is for: its own taskId, or the pending key.
ResultTask(r, echo) == IF echo THEN captures[r] ELSE screenPending[r]

ScreenOrphan(r, echo) ==
    /\ online
    /\ captures[r] # None
    /\ ResultTask(r, echo) = None
    /\ Answered(r)
    /\ UNCHANGED <<rows, active, mode, pending, job, executing, online>>

ScreenFailed(j, r, echo) ==
    /\ online
    /\ At(j, "idle")
    /\ captures[r] # None
    /\ ResultTask(r, echo) # None
    /\ Answered(r)
    /\ screenPending' = [screenPending EXCEPT ![r] = None]
    /\ SetStatus(ResultTask(r, echo), "FAILED")
    /\ job' = [job EXCEPT ![j] = [Idle EXCEPT !.pc = "close",
                                              !.task = ResultTask(r, echo)]]
    /\ UNCHANGED <<iteration, action, instruction, active, mode,
                   completeAfter, userReply, executing, online>>

ScreenArrived(j, r, echo) ==
    /\ online
    /\ captures[r] # None
    /\ ResultTask(r, echo) # None
    /\ Answered(r)
    /\ screenPending' = [screenPending EXCEPT ![r] = None]
    /\ Begin(j, "screen", ResultTask(r, echo))
    /\ UNCHANGED <<rows, active, mode, completeAfter, userReply, executing,
                   online>>

ScreenTerminal(j) ==
    /\ At(j, "screen")
    /\ job[j].seen \in Terminal
    /\ ReturnCleared(j)
    /\ UNCHANGED <<rows, pending, device, budget>>

ScreenDelivered(j) ==
    /\ At(j, "screen")
    /\ job[j].seen \notin Terminal
    /\ AwaitTask(j, "iterate")
    /\ UNCHANGED <<rows, active, mode, pending, device, budget>>

------------------------------------------------------------------------------
\* runAiIteration up to the answer of the AI service.

IterateTerminal(j) ==
    /\ At(j, "iterate")
    /\ job[j].seen \in Terminal
    /\ \/ job[j].seen = "CANCELLED" /\ Return(j) /\ UNCHANGED mode
       \/ job[j].seen # "CANCELLED" /\ ReturnCleared(j)
    /\ UNCHANGED <<rows, pending, device, budget>>

IterateSkipped(j) ==
    /\ At(j, "iterate")
    /\ job[j].seen \notin Terminal
    /\ T(j) \in active
    /\ Return(j)
    /\ UNCHANGED <<rows, mode, pending, device, budget>>

\* The guard is taken, the mode cached, the iteration written.
Iterate(j) ==
    /\ At(j, "iterate")
    /\ job[j].seen \notin Terminal
    /\ T(j) \notin active
    /\ active' = active \cup {T(j)}
    /\ mode' = [mode EXCEPT ![T(j)] = CachedMode(T(j))]
    /\ iteration' = [iteration EXCEPT ![T(j)] = job[j].iter + 1]
    /\ SetStatus(T(j), "RUNNING")
    /\ job' = [job EXCEPT ![j].pc = "ask_ai",
                          ![j].cycle = TRUE,
                          ![j].mode = CachedMode(T(j)),
                          ![j].iter = @ + 1]
    /\ UNCHANGED <<action, instruction, pending, device, budget>>

\* The user's reply is consumed and the AI service called.
AskAi(j) ==
    /\ At(j, "ask_ai")
    /\ userReply' = userReply \ {T(j)}
    /\ Await(j, "ai")
    /\ UNCHANGED <<rows, active, mode, screenPending, completeAfter, device,
                   budget>>

\* An error, an invalid answer, or the AI_SERVICE_TIMEOUT_MS abort.
AiFails(j) ==
    /\ At(j, "ai")
    /\ SetStatus(T(j), "FAILED")
    /\ Await(j, "ai_failed")
    /\ UNCHANGED <<iteration, action, instruction, active, mode, pending,
                   device, budget>>

\* failTask clears the runtime; the inner finally block awaits the discard.
AiFailed(j) ==
    /\ At(j, "ai_failed")
    /\ active' = active \ {T(j)}
    /\ mode' = [mode EXCEPT ![T(j)] = "unset"]
    /\ Await(j, "return")
    /\ UNCHANGED <<rows, pending, device, budget>>

\* A valid answer; screenshots.discard is awaited before it is used.
AiAnswers(j) ==
    /\ At(j, "ai")
    /\ Await(j, "plan")
    /\ UNCHANGED <<rows, active, mode, pending, device, budget>>

------------------------------------------------------------------------------
\* runAiIteration from the answer on: one action per verdict on plan p.

\* The effective mode is cached whatever the plan says next.
Planned(j, p, verdict) ==
    /\ At(j, "plan")
    /\ PlanVerdict(p, job[j].mode) = verdict
    /\ mode' = [mode EXCEPT ![T(j)] = EffectiveMode(p, job[j].mode)]

PlanAwaitsUser(j, p) ==
    /\ Planned(j, p, "await_user")
    /\ SetStatus(T(j), "WAITING_FOR_USER")
    /\ Await(j, "return")
    /\ UNCHANGED <<iteration, action, instruction, active, pending, device,
                   budget>>

PlanCompletes(j, p) ==
    /\ Planned(j, p, "complete")
    /\ CompleteTask(j)
    /\ UNCHANGED <<iteration, action, instruction, active, pending, device,
                   budget>>

PlanFails(j, p) ==
    /\ Planned(j, p, "fail")
    /\ FailTask(j)
    /\ UNCHANGED <<iteration, action, instruction, active, pending, device,
                   budget>>

PlanAsksUser(j, p) ==
    /\ Planned(j, p, "ask_user")
    /\ \E new \in FreshRows(1) : CreateActions(new, T(j), job[j].iter)
    /\ Await(j, "asked")
    /\ UNCHANGED <<status, iteration, instruction, active, pending, device,
                   budget>>

\* The ASK_USER message has been sent; the status is written.
UserAsked(j) ==
    /\ At(j, "asked")
    /\ SetStatus(T(j), "WAITING_FOR_USER")
    /\ Await(j, "return")
    /\ UNCHANGED <<iteration, action, instruction, active, mode, pending,
                   device, budget>>

\* Mutant: the guard is left to the finally block.
PlanReplansHolding(j, p) ==
    /\ Planned(j, p, "replan")
    /\ "WAIT" \notin p.control
    /\ AwaitTask(j, "request_check")
    /\ UNCHANGED <<rows, active, pending, device, budget>>

\* A screenshot-only plan: the guard is released before the next request.
PlanReplans(j, p) ==
    /\ Planned(j, p, "replan")
    /\ "WAIT" \notin p.control
    /\ active' = active \ {T(j)}
    /\ AwaitTask(j, "request_check")
    /\ UNCHANGED <<rows, pending, device, budget>>

\* A plan with WAIT stores the action and sleeps first.
PlanWaits(j, p) ==
    /\ Planned(j, p, "replan")
    /\ "WAIT" \in p.control
    /\ \E new \in FreshRows(1) : CreateActions(new, T(j), job[j].iter)
    /\ Await(j, "wait")
    /\ UNCHANGED <<status, iteration, instruction, active, pending, device,
                   budget>>

Waited(j) ==
    /\ At(j, "wait")
    /\ active' = active \ {T(j)}
    /\ AwaitTask(j, "request_check")
    /\ UNCHANGED <<rows, mode, pending, device, budget>>

PlanExecutes(j, p) ==
    /\ Planned(j, p, "execute")
    /\ \E new \in FreshRows(p.work) :
          /\ CreateActions(new, T(j), job[j].iter)
          /\ job' = [job EXCEPT ![j].pc = "created",
                                ![j].todo = new,
                                ![j].ok = SaysDone(p)]
    /\ UNCHANGED <<status, iteration, instruction, active, pending, device,
                   budget>>

ActionsCreated(j) ==
    /\ At(j, "created")
    /\ SetStatus(T(j), "WAITING_FOR_ACTION")
    /\ Await(j, "dispatch")
    /\ UNCHANGED <<iteration, action, instruction, active, mode, pending,
                   device, budget>>

\* Mutants: the action is sent without being marked, or never crossed off.
MarkNothing(j, a) ==
    /\ a \in job[j].todo
    /\ action' = action
    /\ job' = [job EXCEPT ![j].pc = "send", ![j].act = a,
                          ![j].todo = @ \ {a}]

MarkAgain(j, a) ==
    /\ a \in job[j].todo
    /\ action' = [action EXCEPT ![a].status = "SENT"]
    /\ job' = [job EXCEPT ![j].pc = "send", ![j].act = a]

\* markSent of one of the actions still to send.
MarkSent(j, a) ==
    /\ a \in job[j].todo
    /\ action' = [action EXCEPT ![a].status = "SENT"]
    /\ job' = [job EXCEPT ![j].pc = "send", ![j].act = a,
                          ![j].todo = @ \ {a}]

\* A finished plan is to complete once its actions are executed.
Dispatch(j) ==
    /\ At(j, "dispatch")
    /\ completeAfter' = IF job[j].ok THEN completeAfter \cup {T(j)}
                                     ELSE completeAfter
    /\ \E a \in job[j].todo : MarkSent(j, a)
    /\ UNCHANGED <<status, iteration, instruction, active, mode,
                   screenPending, userReply, device, budget>>

Send(j) ==
    /\ At(j, "send")
    /\ online
    /\ executing' = executing \cup {job[j].act}
    /\ \/ /\ \E a \in job[j].todo : MarkSent(j, a)
          /\ UNCHANGED active
       \/ /\ job[j].todo = {}
          /\ Return(j)
          /\ UNCHANGED action
    /\ UNCHANGED <<status, iteration, instruction, mode, pending, captures,
                   online, budget>>

SendFails(j) ==
    /\ At(j, "send")
    /\ ~online
    /\ FailTask(j)
    /\ UNCHANGED <<iteration, action, instruction, active, mode, pending,
                   device, budget>>

\* The last await of the try block is over.
LeaveCycle(j) ==
    /\ At(j, "return")
    /\ Return(j)
    /\ UNCHANGED <<rows, mode, pending, device, budget>>

------------------------------------------------------------------------------
\* handleActionResult.

\* The device answers action a; recordResult reads its row (ok: success).
ResultArrived(j, a, ok) ==
    /\ online
    /\ At(j, "idle")
    /\ a \in executing
    /\ \/ executing' = executing \ {a} /\ UNCHANGED budget
       \/ UNCHANGED executing /\ Spend("duplicate")
    /\ job' = [job EXCEPT
                 ![j] = [Idle EXCEPT
                           !.pc = IF action[a].status \in Recorded
                                  THEN "return" ELSE "record",
                           !.task = action[a].task, !.act = a, !.ok = ok]]
    /\ UNCHANGED <<rows, active, mode, pending, captures, online>>

\* recordResult writes the outcome.
Record(j) ==
    /\ At(j, "record")
    /\ action' = [action EXCEPT ![job[j].act].status =
                    IF job[j].ok THEN "SUCCEEDED" ELSE "FAILED"]
    /\ Await(j, "recorded")
    /\ UNCHANGED <<status, iteration, instruction, active, mode, pending,
                   device, budget>>

ResultRecorded(j) ==
    /\ At(j, "recorded")
    /\ AwaitTask(j, "result")
    /\ UNCHANGED <<rows, active, mode, pending, device, budget>>

ResultTerminal(j) ==
    /\ At(j, "result")
    /\ job[j].seen \in Terminal
    /\ ReturnCleared(j)
    /\ UNCHANGED <<rows, pending, device, budget>>

\* The unanswered actions of the batch are counted (ok: there are none).
CountUnanswered(j) ==
    /\ At(j, "result")
    /\ job[j].seen \notin Terminal
    /\ job' = [job EXCEPT
                 ![j].pc = "count",
                 ![j].ok = \A b \in Batch(job[j].act) :
                              action[b].status \notin Unanswered]
    /\ UNCHANGED <<rows, active, mode, pending, device, budget>>

BatchUnfinished(j) ==
    /\ At(j, "count")
    /\ ~job[j].ok
    /\ Return(j)
    /\ UNCHANGED <<rows, mode, pending, device, budget>>

\* The rows of the batch are read (ok: all of them succeeded).
BatchFinished(j) ==
    /\ At(j, "count")
    /\ job[j].ok
    /\ mode' = [mode EXCEPT ![T(j)] = CachedMode(T(j))]
    /\ job' = [job EXCEPT
                 ![j].pc = "decide",
                 ![j].mode = CachedMode(T(j)),
                 ![j].ok = \A b \in Batch(job[j].act) :
                              action[b].status = "SUCCEEDED"]
    /\ UNCHANGED <<rows, active, pending, device, budget>>

\* The plan was marked finished: its actions decide the task.
DecideMarked(j) ==
    /\ At(j, "decide")
    /\ T(j) \in completeAfter
    /\ completeAfter' = completeAfter \ {T(j)}
    /\ IF job[j].ok THEN CompleteTask(j) ELSE FailTask(j)
    /\ UNCHANGED <<iteration, action, instruction, active, mode,
                   screenPending, userReply, device, budget>>

\* Otherwise decideAfterActionBatch does.
Decision(j) ==
    AfterBatch(job[j].mode, job[j].ok, job[j].seen \in Terminal)

DecideEnds(j) ==
    /\ At(j, "decide")
    /\ T(j) \notin completeAfter
    /\ \/ Decision(j) = "complete" /\ CompleteTask(j)
       \/ Decision(j) = "fail" /\ FailTask(j)
    /\ UNCHANGED <<iteration, action, instruction, active, mode, pending,
                   device, budget>>

\* Mutant: the mark is not looked at.
DecideReplansMarked(j) ==
    /\ At(j, "decide")
    /\ Decision(j) = "replan"
    /\ AwaitTask(j, "request_check")
    /\ UNCHANGED <<rows, active, mode, pending, device, budget>>

DecideReplans(j) ==
    /\ At(j, "decide")
    /\ T(j) \notin completeAfter
    /\ Decision(j) = "replan"
    /\ AwaitTask(j, "request_check")
    /\ UNCHANGED <<rows, active, mode, pending, device, budget>>

------------------------------------------------------------------------------
\* cancel and handleUserMessage.

Cancel(j, t) ==
    /\ Spend("cancel")
    /\ status[t] # "NONE"
    /\ Begin(j, "cancel", t)
    /\ UNCHANGED <<rows, active, mode, pending, device>>

CancelTask(j) ==
    /\ At(j, "cancel")
    /\ \/ /\ job[j].seen \in Terminal
          /\ Return(j)
          /\ UNCHANGED status
       \/ /\ job[j].seen \notin Terminal
          /\ SetStatus(T(j), "CANCELLED")
          /\ Await(j, "close")
          /\ UNCHANGED active
    /\ UNCHANGED <<iteration, action, instruction, mode, pending, device,
                   budget>>

\* A chat message about task t; getOwned reads the task.
Message(j, t) ==
    /\ Spend("message")
    /\ status[t] # "NONE"
    /\ Begin(j, "message", t)
    /\ UNCHANGED <<rows, active, mode, pending, device>>

\* Mutant: every message about a task resumes it.
MessageAlwaysResumes(j) ==
    /\ At(j, "message")
    /\ userReply' = userReply \cup {T(j)}
    /\ AwaitTask(j, "request_check")
    /\ UNCHANGED <<rows, active, mode, screenPending, completeAfter, device,
                   budget>>

\* The task waits for the user: keep the reply and request a screen.
MessageResumes(j) ==
    /\ At(j, "message")
    /\ job[j].seen = "WAITING_FOR_USER"
    /\ userReply' = userReply \cup {T(j)}
    /\ AwaitTask(j, "request_check")
    /\ UNCHANGED <<rows, active, mode, screenPending, completeAfter, device,
                   budget>>

\* Otherwise the message names a device and becomes a task, or is only stored.
MessageIgnored(j) ==
    /\ At(j, "message")
    /\ job[j].seen # "WAITING_FOR_USER"
    /\ \/ /\ Return(j)
          /\ UNCHANGED status
       \/ /\ \E t \in Tasks : NewTask(j, t)
          /\ UNCHANGED active
    /\ UNCHANGED <<iteration, action, instruction, mode, pending, device,
                   budget>>

------------------------------------------------------------------------------
\* The environment.

\* The agent's socket goes away; requests it did not answer may be lost.
Disconnect ==
    /\ online
    /\ Spend("disconnect")
    /\ online' = FALSE
    /\ \E lost \in SUBSET RequestIds, kept \in SUBSET executing :
          /\ captures' = [r \in RequestIds |->
                            IF r \in lost THEN None ELSE captures[r]]
          /\ executing' = kept
    /\ UNCHANGED <<rows, active, mode, pending, job>>

Reconnect ==
    /\ ~online
    /\ online' = TRUE
    /\ UNCHANGED <<rows, active, mode, pending, job, captures, executing,
                   budget>>

\* The time to live of one pending key is over.
Expire ==
    /\ Spend("expire")
    /\ \/ /\ \E r \in RequestIds :
                /\ screenPending[r] # None
                /\ screenPending' = [screenPending EXCEPT ![r] = None]
          /\ UNCHANGED <<completeAfter, userReply>>
       \/ /\ \E t \in completeAfter : completeAfter' = completeAfter \ {t}
          /\ UNCHANGED <<screenPending, userReply>>
       \/ /\ \E t \in userReply : userReply' = userReply \ {t}
          /\ UNCHANGED <<screenPending, completeAfter>>
    /\ UNCHANGED <<rows, active, mode, job, device>>

\* What the handler awaits is rejected: nothing below it catches, and the
\* finally block runs.  Around the call of the AI service something does catch:
\* there it is the status write of failTask that is rejected.
Reject(j) ==
    /\ ~At(j, "idle")
    /\ Spend("reject")
    /\ Return(j)
    /\ UNCHANGED <<rows, mode, pending, device>>

\* The process restarts: memory and sockets are gone, the rows remain.
Restart ==
    /\ Spend("restart")
    /\ job' = [j \in Jobs |-> Idle]
    /\ active' = {}
    /\ mode' = [t \in Tasks |-> "unset"]
    /\ screenPending' = [r \in RequestIds |-> None]
    /\ completeAfter' = {}
    /\ userReply' = {}
    /\ online' = FALSE
    /\ UNCHANGED <<rows, captures, executing>>

------------------------------------------------------------------------------
\* The specification.

\* What the screen handler, the plan cycle and the result handler do next.
Plan(j) ==
    \E p \in Plans :
        \/ PlanAwaitsUser(j, p) \/ PlanCompletes(j, p) \/ PlanFails(j, p)
        \/ PlanAsksUser(j, p)   \/ PlanReplans(j, p)   \/ PlanWaits(j, p)
        \/ PlanExecutes(j, p)

Resume(j) ==
    \/ Start(j) \/ StartTask(j)
    \/ Request(j) \/ RequestTerminal(j) \/ RequestSkipped(j)
    \/ RequestExhausted(j) \/ RequestScreen(j) \/ RequestSent(j)
    \/ RequestUnsent(j) \/ Close(j)
    \/ ScreenTerminal(j) \/ ScreenDelivered(j)
    \/ IterateTerminal(j) \/ IterateSkipped(j) \/ Iterate(j) \/ AskAi(j)
    \/ AiFails(j) \/ AiFailed(j) \/ AiAnswers(j) \/ Plan(j)
    \/ UserAsked(j) \/ Waited(j) \/ ActionsCreated(j) \/ Dispatch(j)
    \/ Send(j) \/ SendFails(j) \/ LeaveCycle(j)
    \/ Record(j) \/ ResultRecorded(j) \/ ResultTerminal(j)
    \/ CountUnanswered(j) \/ BatchUnfinished(j) \/ BatchFinished(j)
    \/ DecideMarked(j) \/ DecideEnds(j) \/ DecideReplans(j)
    \/ CancelTask(j) \/ MessageResumes(j) \/ MessageIgnored(j)

\* The answers of the device.
AnswerScreen ==
    \E r \in RequestIds, echo \in EchoTaskId :
        \/ ScreenOrphan(r, echo)
        \/ \E j \in Jobs : ScreenFailed(j, r, echo) \/ ScreenArrived(j, r, echo)

AnswerAction ==
    \E j \in Jobs, a \in ActionIds, ok \in BOOLEAN : ResultArrived(j, a, ok)

Next ==
    \/ \E j \in Jobs : Resume(j) \/ Reject(j)
    \/ \E j \in Jobs, t \in Tasks : Create(j, t) \/ Cancel(j, t) \/ Message(j, t)
    \/ AnswerScreen
    \/ AnswerAction
    \/ Disconnect \/ Reconnect \/ Expire \/ Restart

Spec == Init /\ [][Next]_vars

------------------------------------------------------------------------------
\* Safety.

\* The guard of a task is held by a plan cycle that is still running: no path
\* through runAiIteration, a rejected await included, leaves it behind (a guard
\* left in activePlanCycles would make every later request be skipped).
GuardOwned == \A t \in active : \E j \in Jobs : job[j].cycle /\ T(j) = t

\* A handler that is planning task t: the guard was taken, the plan not yet
\* carried out.
Planning(j, t) ==
    /\ T(j) = t
    /\ job[j].pc \in {"ask_ai", "ai", "plan", "asked", "wait", "created",
                      "dispatch", "send"}

\* What the comment on activePlanCycles promises: plan cycles of one task do
\* not overlap.
NoOverlap ==
    \A t \in Tasks : \A i, j \in Jobs :
        Planning(i, t) /\ Planning(j, t) => i = j

\* MAX_TASK_ITERATIONS caps the AI calls of a task.
IterationCap == \A t \in Tasks : iteration[t] <= MaxIterations

\* Messages, or repeated answers, so far.
Spent(k) == Budget[k] - budget[k]

\* A single-action task that no plan turns into a multi-step one never enters a
\* screenshot -> AI -> screenshot loop: it is planned once, once more for a
\* message and once more for a screenshot that arrives again.
SingleShot ==
    \A t \in Tasks :
        instruction[t] = "single_action" /\ mode[t] # "multi_step"
            => iteration[t] <= 1 + Spent("message") + Spent("duplicate")

\* An action the device was told to execute has been marked SENT before, and a
\* row still to be sent by a dispatch loop belongs to that loop alone.
SentBeforeExecuted ==
    /\ \A a \in executing : action[a].status \in {"SENT"} \cup Recorded
    /\ \A j \in Jobs : \A a \in job[j].todo :
          /\ action[a].status = "PENDING"
          /\ \A i \in Jobs \ {j} : a \notin job[i].todo

\* handleActionResult decides on rows it read an await ago, and they are still
\* the rows of the batch: no other cycle has added one under the same iteration,
\* no late result has changed one.  (Cycles that overlap share iterations: where
\* the guard does not keep them apart, this does not hold either.)
DecisionsAreFresh ==
    \A j \in Jobs : At(j, "decide") =>
        (job[j].ok <=> \A b \in Batch(job[j].act) :
                           action[b].status = "SUCCEEDED")

\* Something is still going to happen to task t by itself.
InMotion(t) ==
    \/ \E j \in Jobs : T(j) = t /\ ~At(j, "idle")
    \/ \E r \in RequestIds : captures[r] = t
    \/ \E a \in executing : action[a].task = t

\* Neither over nor waiting for the user.
Moving == {"CREATED", "RUNNING", "WAITING_FOR_SCREEN", "WAITING_FOR_ACTION"}

\* No lost wake-up: a task that is neither over nor waiting for its user has a
\* handler in flight or a request at the device.
NeverStranded == \A t \in Tasks : status[t] \in Moving => InMotion(t)

\* A stored row that no dispatch loop is going to send: a question to the user
\* or a WAIT, which nobody ever answers.
Undispatched(a) ==
    action[a].status = "PENDING" /\ \A j \in Jobs : a \notin job[j].todo

\* Every such row of task t has a batch of its own.
QuestionsApart(t) ==
    \A a \in ActionIds :
        Undispatched(a) /\ action[a].task = t => Batch(a) = {a}

\* The one way to lose the wake-up: a question stored under the iteration number
\* of other actions, whose count of unanswered ones then never reaches zero.
\* No early return and no answer out of turn strands a task besides.
OnlyQuestionsStrand ==
    \A t \in Tasks : status[t] \in Moving /\ QuestionsApart(t) => InMotion(t)

\* The mark "complete after these actions" is only left on a task that waits
\* for those actions, or is over: it never decides a later batch.
MarkIsCurrent ==
    \A t \in completeAfter : status[t] \in {"WAITING_FOR_ACTION"} \cup Terminal

\* Where a handler may be while it holds the guard of its task.
InCycle == {"ask_ai", "ai", "ai_failed", "plan", "asked", "wait", "created",
            "dispatch", "send", "return", "close", "request_check",
            "request_send"}

\* Where a handler has an action in hand.
WithAction == {"send", "record", "recorded", "result", "count", "decide"}

HandlerOK(h) ==
    /\ h.pc = "idle" => h = Idle
    /\ h.pc # "idle" => h.task \in Tasks
    /\ h.cycle => h.pc \in InCycle
    /\ h.pc = "request_send" => h.req \in RequestIds
    /\ h.pc \in WithAction =>
          /\ h.act \in ActionIds
          /\ action[h.act].status \in {"SENT"} \cup Recorded
          /\ action[h.act].task = h.task
    /\ \A a \in h.todo : action[a].task = h.task

\* What the handlers rely on from one await to the next: an idle handler has no
\* locals, a running one has a task and takes the guard in runAiIteration only,
\* the actions it sends or records are its task's and, once it marked or
\* received them, have left PENDING; every row has its task.
WellFormed ==
    /\ \A j \in Jobs : HandlerOK(job[j])
    /\ \A a \in ActionIds :
          action[a].status # "NONE" => action[a].task \in Tasks

------------------------------------------------------------------------------
\* What a step may never do.

\* README, "Task lifecycle": a task that is COMPLETED, FAILED or CANCELLED
\* stays so.
TerminalFinal ==
    [][\A t \in Tasks : status[t] \in Terminal => status'[t] = status[t]]_vars

\* An action whose outcome is recorded never becomes unanswered again, and its
\* row never changes its task or batch.
RecordedStays ==
    [][\A a \in ActionIds :
          /\ action[a].status \in Recorded => action'[a].status \in Recorded
          /\ action[a].status # "NONE" =>
                /\ action'[a].task = action[a].task
                /\ action'[a].iter = action[a].iter]_vars

\* A handler that may still move its task on without reading its status again.
Armed(h) ==
    \/ h.pc \in {"create", "request_send", "ask_ai", "ai", "plan", "asked",
                 "created", "dispatch", "send"}
    \/ h.pc = "start" /\ h.seen # "CANCELLED"
    \/ h.pc \in {"request_check", "iterate"} /\ h.seen \notin Terminal

\* Task t is over and every handler that read it as live has drained.
Quiesced(t) ==
    /\ status[t] \in Terminal
    /\ \A j \in Jobs : T(j) = t => ~Armed(job[j])

\* A task that is over stays over once its armed handlers have drained: whatever
\* answers, messages and timeouts still arrive, its iteration does not change,
\* no screenshot of it is requested and no action of it is sent.
QuiescedStays ==
    [][\A t \in Tasks : Quiesced(t) =>
          /\ Quiesced(t)'
          /\ iteration'[t] = iteration[t]
          /\ \A r \in RequestIds : captures'[r] = t => captures[r] = t
          /\ \A a \in executing' \ executing : action[a].task # t]_vars

------------------------------------------------------------------------------
\* Liveness.

\* Handlers run on, the AI call returns within AI_SERVICE_TIMEOUT_MS, and the
\* device answers what it was asked.
Fairness ==
    /\ \A j \in Jobs : WF_vars(Resume(j))
    /\ WF_vars(AnswerScreen)
    /\ WF_vars(AnswerAction)

FairSpec == Spec /\ Fairness

\* A task that was created is over, or waits for its user, in the end.
Resolves ==
    \A t \in Tasks :
        status[t] = "CREATED"
            ~> status[t] \in Terminal \cup {"WAITING_FOR_USER"}

\* A plan cycle lets go of its task.
GuardReleased == \A t \in Tasks : t \in active ~> t \notin active

==============================================================================
