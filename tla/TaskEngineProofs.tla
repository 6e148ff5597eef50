-------------------------- MODULE TaskEngineProofs --------------------------
(***************************************************************************)
(* TLAPS proofs about TaskEngine, for every number of tasks, handlers,     *)
(* actions and requests, every set of plans and every budget of trouble.   *)
(***************************************************************************)
EXTENDS TaskEngine, TLAPS

\* The inductive invariant.
IInv == TypeOK /\ WellFormed /\ GuardOwned /\ SentBeforeExecuted

\* In this step, only handler j moves, and it becomes h.
Moved(j, h) ==
    /\ h \in Job
    /\ job' \in [Jobs -> Job]
    /\ job'[j] = h
    /\ \A i \in Jobs \ {j} : job'[i] = job[i]

------------------------------------------------------------------------------
\* The moves of a handler.

\* Any assignment of a handler to job[j] is a move of j.
LEMMA MoveTo ==
    ASSUME TypeOK, NEW j \in Jobs, NEW h \in Job, job' = [job EXCEPT ![j] = h]
    PROVE  Moved(j, h)
BY DEF TypeOK, Moved

\* Await moves the handler to the next await and keeps its locals.
LEMMA AwaitMoves ==
    ASSUME TypeOK, NEW j \in Jobs, NEW p \in PC, Await(j, p)
    PROVE  Moved(j, [job[j] EXCEPT !.pc = p])
<1>1. job[j] \in Job /\ job \in [Jobs -> Job]
  BY DEF TypeOK
<1>2. [job[j] EXCEPT !.pc = p] \in Job
  BY <1>1 DEF Job
<1>3. job' = [job EXCEPT ![j] = [job[j] EXCEPT !.pc = p]]
  BY <1>1 DEF Await
<1>. QED
  BY <1>2, <1>3, MoveTo

\* The handler after AwaitTask.
Read(j, p) == [job[j] EXCEPT !.pc = p, !.seen = status[T(j)],
                             !.iter = iteration[T(j)]]

\* AwaitTask also keeps what the query returned.
LEMMA AwaitTaskMoves ==
    ASSUME TypeOK, NEW j \in Jobs, NEW p \in PC, AwaitTask(j, p), T(j) \in Tasks
    PROVE  Moved(j, Read(j, p))
<1>1. job[j] \in Job /\ job \in [Jobs -> Job]
  BY DEF TypeOK
<1>2. status[T(j)] \in TaskStatus /\ iteration[T(j)] \in Nat
  BY DEF TypeOK
<1>3. Read(j, p) \in Job
  BY <1>1, <1>2 DEF Job, Read
<1>4. job' = [job EXCEPT ![j] = Read(j, p)]
  BY <1>1 DEF AwaitTask, Read
<1>. QED
  BY <1>3, <1>4, MoveTo

\* The handler after Begin.
Begun(p, t) == [Idle EXCEPT !.pc = p, !.task = t, !.seen = status[t],
                            !.iter = iteration[t]]

\* Begin makes an idle handler a running one.
LEMMA BeginMoves ==
    ASSUME TypeOK, NEW j \in Jobs, NEW p \in PC, NEW t \in Tasks, Begin(j, p, t)
    PROVE  Moved(j, Begun(p, t))
<1>1. status[t] \in TaskStatus /\ iteration[t] \in Nat
  BY DEF TypeOK
<1>2. Begun(p, t) \in Job
  BY <1>1 DEF Job, Idle, Begun
<1>. QED
  BY <1>2, MoveTo DEF Begin, Begun

\* Return and ReturnCleared make the handler idle.
LEMMA ReturnMoves ==
    ASSUME TypeOK, NEW j \in Jobs, Return(j) \/ ReturnCleared(j)
    PROVE  Moved(j, Idle)
<1>1. Idle \in Job
  BY DEF Job, Idle, PC, TaskStatus
<1>. QED
  BY <1>1, MoveTo DEF Return, ReturnCleared

------------------------------------------------------------------------------
\* What a move has to respect for the invariant to survive it.

\* The guard stays owned: it is dropped with the task of j, or j keeps what it
\* had, or j takes it.
LEMMA GuardKept ==
    ASSUME TypeOK, GuardOwned, NEW j \in Jobs, NEW h, Moved(j, h),
           \/ active' \subseteq active \ {T(j)}
           \/ active' \subseteq active /\ ~job[j].cycle
           \/ active' \subseteq active \cup {T(j)} /\ h.cycle /\ h.task = T(j)
           \/ active' \subseteq active /\ h.cycle = job[j].cycle /\ h.task = T(j)
    PROVE  GuardOwned'
BY DEF TypeOK, GuardOwned, Moved, T

\* A handler that touches no row and has nothing new to send.
LEMMA RowsKept ==
    ASSUME WellFormed, SentBeforeExecuted, NEW j \in Jobs, NEW h, Moved(j, h),
           HandlerOK(h), h.todo \subseteq job[j].todo,
           action' = action, executing' \subseteq executing
    PROVE  WellFormed' /\ SentBeforeExecuted'
<1>1. \A i \in Jobs : HandlerOK(job[i])'
  BY DEF WellFormed, HandlerOK, Moved
<1>2. \A i \in Jobs : job'[i].todo \subseteq job[i].todo
  BY DEF Moved
<1>. QED
  BY <1>1, <1>2 DEF WellFormed, SentBeforeExecuted

\* TypeOK of everything but the handlers.
Typed ==
    /\ status \in [Tasks -> TaskStatus]
    /\ iteration \in [Tasks -> Nat]
    /\ action \in [ActionIds -> ActionRow]
    /\ instruction \in [Tasks -> ExecutionMode]
    /\ active \subseteq Tasks
    /\ mode \in [Tasks -> ExecutionMode \cup {"unset"}]
    /\ screenPending \in [RequestIds -> Tasks \cup {None}]
    /\ completeAfter \subseteq Tasks
    /\ userReply \subseteq Tasks
    /\ captures \in [RequestIds -> Tasks \cup {None}]
    /\ executing \subseteq ActionIds
    /\ online \in BOOLEAN
    /\ budget \in [Trouble -> Nat]

\* A step that touches no row, and does right by the guard, keeps the invariant.
LEMMA CalmStep ==
    ASSUME IInv, NEW j \in Jobs, NEW h, Moved(j, h), HandlerOK(h), Typed',
           h.todo \subseteq job[j].todo,
           action' = action, executing' \subseteq executing,
           \/ active' \subseteq active \ {T(j)}
           \/ active' \subseteq active /\ ~job[j].cycle
           \/ active' \subseteq active \cup {T(j)} /\ h.cycle /\ h.task = T(j)
           \/ active' \subseteq active /\ h.cycle = job[j].cycle /\ h.task = T(j)
    PROVE  IInv'
<1>1. TypeOK'
  BY DEF TypeOK, Typed, Moved
<1>. QED
  BY <1>1, GuardKept, RowsKept DEF IInv

\* Whether handler j may go on to p with what it has.
MayGoTo(j, p) ==
    /\ p \in PC \ {"idle", "request_send"}
    /\ job[j].cycle => p \in InCycle
    /\ p \in WithAction => job[j].pc \in WithAction

\* The same for a step that only awaits something.
LEMMA AwaitStep ==
    ASSUME IInv, NEW j \in Jobs, NEW p, Await(j, p), ~At(j, "idle"),
           MayGoTo(j, p), Typed', action' = action,
           executing' \subseteq executing, active' \subseteq active
    PROVE  IInv'
<1>. DEFINE h == [job[j] EXCEPT !.pc = p]
<1>1. Moved(j, h)
  BY AwaitMoves DEF IInv, MayGoTo
<1>2. job[j] \in Job /\ HandlerOK(job[j])
  BY DEF IInv, TypeOK, WellFormed
<1>3. /\ h.pc = p /\ h.task = job[j].task /\ h.cycle = job[j].cycle
      /\ h.act = job[j].act /\ h.todo = job[j].todo
  BY <1>2 DEF Job
<1>4. HandlerOK(h)
  BY <1>2, <1>3 DEF HandlerOK, MayGoTo, At
<1>. QED
  BY <1>1, <1>3, <1>4, CalmStep DEF T

\* The same for a step that awaits a read of the task row.
LEMMA ReadStep ==
    ASSUME IInv, NEW j \in Jobs, NEW p, AwaitTask(j, p), ~At(j, "idle"),
           MayGoTo(j, p), Typed', action' = action,
           executing' \subseteq executing, active' \subseteq active
    PROVE  IInv'
<1>. DEFINE h == Read(j, p)
<1>1. job[j] \in Job /\ HandlerOK(job[j]) /\ T(j) \in Tasks
  BY DEF IInv, TypeOK, WellFormed, HandlerOK, At, T
<1>2. Moved(j, h)
  BY <1>1, AwaitTaskMoves DEF IInv, MayGoTo
<1>3. /\ h.pc = p /\ h.task = job[j].task /\ h.cycle = job[j].cycle
      /\ h.act = job[j].act /\ h.todo = job[j].todo
  BY <1>1 DEF Job, Read
<1>4. HandlerOK(h)
  BY <1>1, <1>3 DEF HandlerOK, MayGoTo, At
<1>. QED
  BY <1>2, <1>3, <1>4, CalmStep DEF T

\* The same for a step that begins a handler.
LEMMA BeginStep ==
    ASSUME IInv, NEW j \in Jobs, NEW p, NEW t \in Tasks, Begin(j, p, t),
           p \in PC \ (WithAction \cup {"idle", "request_send"}), Typed',
           action' = action, executing' \subseteq executing, active' = active
    PROVE  IInv'
<1>. DEFINE h == Begun(p, t)
<1>1. Moved(j, h)
  BY BeginMoves DEF IInv
<1>2. job[j] = Idle
  BY DEF IInv, WellFormed, HandlerOK, Begin, At
<1>3. h.pc = p /\ h.task = t /\ ~h.cycle /\ h.todo = {}
  BY DEF Begun, Idle
<1>4. HandlerOK(h)
  BY <1>3 DEF HandlerOK
<1>5. ~job[j].cycle
  BY <1>2 DEF Idle
<1>. QED
  BY <1>1, <1>3, <1>4, <1>5, CalmStep

\* The same for a step after which the handler is over.
LEMMA ReturnStep ==
    ASSUME IInv, NEW j \in Jobs, Return(j) \/ ReturnCleared(j), Typed',
           action' = action, executing' \subseteq executing
    PROVE  IInv'
<1>1. Moved(j, Idle)
  BY ReturnMoves DEF IInv
<1>2. HandlerOK(Idle) /\ Idle.todo = {}
  BY DEF HandlerOK, Idle, WithAction
<1>3. \/ active' = active \ {T(j)}
      \/ active' = active /\ ~job[j].cycle
  BY DEF Return, ReturnCleared
<1>. QED
  BY <1>1, <1>2, <1>3, CalmStep


\* The effective mode is a mode.
LEMMA PlannedMode ==
    ASSUME IInv, NEW j \in Jobs, NEW p \in Plans, NEW verdict,
           Planned(j, p, verdict)
    PROVE  mode' \in [Tasks -> ExecutionMode \cup {"unset"}]
<1>1. p.mode \in ExecutionMode \cup {"none"}
  BY TaskEngineAssumption DEF PlanSpace
<1>2. job[j].mode \in ExecutionMode \cup {"unset"}
  BY DEF IInv, TypeOK, Job
<1>. QED
  BY <1>1, <1>2 DEF Planned, EffectiveMode, IInv, TypeOK

------------------------------------------------------------------------------
\* The actions that only read a task row.
LEMMA ReadActions ==
    ASSUME IInv, NEW j \in Jobs,
           \/ Start(j)
           \/ Request(j)
           \/ ScreenDelivered(j)
           \/ ResultRecorded(j)
           \/ DecideReplans(j)
           \/ Waited(j)
           \/ MessageResumes(j)
    PROVE  IInv'
<1>. USE DEF At, rows, pending, device, MayGoTo, PC, InCycle, WithAction, Typed,
         IInv, TypeOK
<1>1. CASE Start(j)
  BY <1>1, ReadStep DEF Start, WellFormed, HandlerOK
<1>2. CASE Request(j)
  BY <1>2, ReadStep DEF Request
<1>3. CASE ScreenDelivered(j)
  BY <1>3, ReadStep DEF ScreenDelivered, WellFormed, HandlerOK
<1>4. CASE ResultRecorded(j)
  BY <1>4, ReadStep DEF ResultRecorded, WellFormed, HandlerOK
<1>5. CASE DecideReplans(j)
  BY <1>5, ReadStep DEF DecideReplans
<1>6. CASE Waited(j)
  BY <1>6, ReadStep DEF Waited
<1>7. CASE MessageResumes(j)
  BY <1>7, ReadStep DEF MessageResumes, T, WellFormed, HandlerOK
<1>. QED
  BY <1>1, <1>2, <1>3, <1>4, <1>5, <1>6, <1>7

------------------------------------------------------------------------------
\* The actions after which the handler is over.
LEMMA ReturnActions ==
    ASSUME IInv, NEW j \in Jobs,
           \/ RequestTerminal(j)
           \/ RequestSkipped(j)
           \/ RequestSent(j)
           \/ Close(j)
           \/ ScreenTerminal(j)
           \/ IterateTerminal(j)
           \/ IterateSkipped(j)
           \/ LeaveCycle(j)
           \/ ResultTerminal(j)
           \/ BatchUnfinished(j)
    PROVE  IInv'
<1>. USE DEF Return, ReturnCleared, At, rows, pending, device, Typed, IInv, TypeOK
<1>1. CASE RequestTerminal(j)
  BY <1>1, ReturnStep DEF RequestTerminal
<1>2. CASE RequestSkipped(j)
  BY <1>2, ReturnStep DEF RequestSkipped
<1>3. CASE RequestSent(j)
  BY <1>3, ReturnStep DEF RequestSent, T, WellFormed, HandlerOK
<1>4. CASE Close(j)
  BY <1>4, ReturnStep DEF Close
<1>5. CASE ScreenTerminal(j)
  BY <1>5, ReturnStep DEF ScreenTerminal
<1>6. CASE IterateTerminal(j)
  BY <1>6, ReturnStep DEF IterateTerminal
<1>7. CASE IterateSkipped(j)
  BY <1>7, ReturnStep DEF IterateSkipped
<1>8. CASE LeaveCycle(j)
  BY <1>8, ReturnStep DEF LeaveCycle
<1>9. CASE ResultTerminal(j)
  BY <1>9, ReturnStep DEF ResultTerminal
<1>10. CASE BatchUnfinished(j)
  BY <1>10, ReturnStep DEF BatchUnfinished
<1>. QED
  BY <1>1, <1>2, <1>3, <1>4, <1>5, <1>6, <1>7, <1>8, <1>9, <1>10

------------------------------------------------------------------------------
\* The actions that write the status.
LEMMA StatusActions ==
    ASSUME IInv, NEW j \in Jobs,
           \/ RequestExhausted(j)
           \/ RequestUnsent(j)
           \/ AiFails(j)
           \/ UserAsked(j)
           \/ ActionsCreated(j)
           \/ SendFails(j)
           \/ DecideMarked(j)
           \/ DecideEnds(j)
    PROVE  IInv'
<1>. USE DEF FailTask, CompleteTask, SetStatus, TaskStatus, At, rows, pending,
         device, MayGoTo, PC, InCycle, WithAction, Typed, IInv, TypeOK
<1>1. CASE RequestExhausted(j)
  BY <1>1, AwaitStep DEF RequestExhausted
<1>2. CASE RequestUnsent(j)
  BY <1>2, AwaitStep DEF RequestUnsent
<1>3. CASE AiFails(j)
  BY <1>3, AwaitStep DEF AiFails
<1>4. CASE UserAsked(j)
  BY <1>4, AwaitStep DEF UserAsked
<1>5. CASE ActionsCreated(j)
  BY <1>5, AwaitStep DEF ActionsCreated
<1>6. CASE SendFails(j)
  BY <1>6, AwaitStep DEF SendFails
<1>7. CASE DecideMarked(j)
  BY <1>7, AwaitStep DEF DecideMarked
<1>8. CASE DecideEnds(j)
  BY <1>8, AwaitStep DEF DecideEnds
<1>. QED
  BY <1>1, <1>2, <1>3, <1>4, <1>5, <1>6, <1>7, <1>8

------------------------------------------------------------------------------
\* The plans that create no action.
LEMMA PlanActions ==
    ASSUME IInv, NEW j \in Jobs, NEW p \in Plans,
           \/ PlanAwaitsUser(j, p)
           \/ PlanCompletes(j, p)
           \/ PlanFails(j, p)
    PROVE  IInv'
<1>. USE DEF FailTask, CompleteTask, SetStatus, TaskStatus, At, rows, pending, device,
         MayGoTo, PC, InCycle, WithAction, Typed, IInv, TypeOK
<1>1. CASE PlanAwaitsUser(j, p)
  BY <1>1, AwaitStep, PlannedMode DEF PlanAwaitsUser, Planned
<1>2. CASE PlanCompletes(j, p)
  BY <1>2, AwaitStep, PlannedMode DEF PlanCompletes, Planned
<1>3. CASE PlanFails(j, p)
  BY <1>3, AwaitStep, PlannedMode DEF PlanFails, Planned
<1>. QED
  BY <1>1, <1>2, <1>3

------------------------------------------------------------------------------
\* A plan that asks for another look.
LEMMA PlanReplansAction ==
    ASSUME IInv, NEW j \in Jobs, NEW p \in Plans,
           \/ PlanReplans(j, p)
    PROVE  IInv'
<1>. USE DEF At, rows, pending, device, MayGoTo, PC, InCycle, WithAction, Typed,
         IInv, TypeOK
<1>1. CASE PlanReplans(j, p)
  BY <1>1, ReadStep, PlannedMode DEF PlanReplans, Planned
<1>. QED
  BY <1>1

------------------------------------------------------------------------------
\* The other actions that only go on.
LEMMA AwaitActions ==
    ASSUME IInv, NEW j \in Jobs,
           \/ AskAi(j)
           \/ AiAnswers(j)
           \/ AiFailed(j)
    PROVE  IInv'
<1>. USE DEF At, rows, pending, device, MayGoTo, PC, InCycle, WithAction, Typed,
         IInv, TypeOK
<1>1. CASE AskAi(j)
  BY <1>1, AwaitStep DEF AskAi
<1>2. CASE AiAnswers(j)
  BY <1>2, AwaitStep DEF AiAnswers
<1>3. CASE AiFailed(j)
  BY <1>3, AwaitStep DEF AiFailed
<1>. QED
  BY <1>1, <1>2, <1>3

\* Spending keeps the budget a budget.
LEMMA SpendTypes ==
    ASSUME IInv, NEW k \in Trouble, Spend(k)
    PROVE  budget' \in [Trouble -> Nat]
BY DEF IInv, TypeOK, Spend

------------------------------------------------------------------------------
\* The actions that begin a handler.

\* A screenshot begins handleScreenResult.
LEMMA ScreenArrivedAction ==
    ASSUME IInv, NEW j \in Jobs, NEW r \in RequestIds, NEW echo \in EchoTaskId,
           ScreenArrived(j, r, echo)
    PROVE  IInv'
<1>. USE DEF rows, pending, device, PC, WithAction
<1>1. ResultTask(r, echo) \in Tasks
  BY TaskEngineAssumption DEF ScreenArrived, ResultTask, IInv, TypeOK
<1>2. /\ captures' \in [RequestIds -> Tasks \cup {None}]
      /\ budget' \in [Trouble -> Nat]
  BY SpendTypes DEF ScreenArrived, Answered, IInv, TypeOK, Trouble
<1>3. Typed'
  BY <1>2 DEF ScreenArrived, Typed, IInv, TypeOK
<1>. QED
  BY <1>1, <1>3, BeginStep DEF ScreenArrived

\* cancel and handleUserMessage begin with a read of the task.
LEMMA UserActions ==
    ASSUME IInv, NEW j \in Jobs, NEW t \in Tasks, Cancel(j, t) \/ Message(j, t)
    PROVE  IInv'
<1>. USE DEF rows, pending, device, PC, WithAction
<1>1. Typed'
  BY SpendTypes DEF Cancel, Message, Typed, IInv, TypeOK, Trouble
<1>. QED
  BY <1>1, BeginStep DEF Cancel, Message

\* Writing the row of a new task.
LEMMA NewTaskStep ==
    ASSUME IInv, NEW j \in Jobs, NEW t \in Tasks, NewTask(j, t),
           ~job[j].cycle,
           UNCHANGED <<iteration, action, instruction, active, mode, pending,
                       device, budget>>
    PROVE  IInv'
<1>. DEFINE h == [Idle EXCEPT !.pc = "create", !.task = t]
<1>1. h \in Job
  BY DEF Job, Idle, PC, TaskStatus
<1>2. Moved(j, h)
  BY <1>1, MoveTo DEF NewTask, IInv
<1>3. h.pc = "create" /\ h.task = t /\ ~h.cycle /\ h.todo = {}
  BY DEF Idle
<1>4. HandlerOK(h)
  BY <1>3 DEF HandlerOK, WithAction
<1>5. Typed'
  BY DEF NewTask, SetStatus, Typed, IInv, TypeOK, TaskStatus, pending, device
<1>. QED
  BY <1>2, <1>3, <1>4, <1>5, CalmStep DEF pending, device

\* create writes a row and begins.
LEMMA CreateAction ==
    ASSUME IInv, NEW j \in Jobs, NEW t \in Tasks, Create(j, t)
    PROVE  IInv'
<1>1. ~job[j].cycle
  BY DEF Create, IInv, WellFormed, HandlerOK, At, Idle
<1>. QED
  BY <1>1, NewTaskStep DEF Create

\* A message that is no reply ends its handler or becomes a task.
LEMMA MessageIgnoredAction ==
    ASSUME IInv, NEW j \in Jobs, MessageIgnored(j)
    PROVE  IInv'
<1>1. ~job[j].cycle
  BY DEF MessageIgnored, IInv, WellFormed, HandlerOK, At, InCycle
<1>2. CASE Return(j) /\ UNCHANGED status
  <2>1. Typed'
    BY <1>2 DEF MessageIgnored, Return, Typed, IInv, TypeOK, pending, device
  <2>. QED
    BY <1>2, <2>1, ReturnStep DEF MessageIgnored, pending, device
<1>3. CASE (\E t \in Tasks : NewTask(j, t)) /\ UNCHANGED active
  BY <1>1, <1>3, NewTaskStep DEF MessageIgnored
<1>. QED
  BY <1>2, <1>3 DEF MessageIgnored

\* A failed capture fails the task from an idle handler.
LEMMA ScreenFailedAction ==
    ASSUME IInv, NEW j \in Jobs, NEW r \in RequestIds, NEW echo \in EchoTaskId,
           ScreenFailed(j, r, echo)
    PROVE  IInv'
<1>. DEFINE t == ResultTask(r, echo)
            h == [Idle EXCEPT !.pc = "close", !.task = t]
<1>1. t \in Tasks
  BY TaskEngineAssumption DEF ScreenFailed, ResultTask, IInv, TypeOK
<1>2. h \in Job
  BY <1>1 DEF Job, Idle, PC, TaskStatus
<1>3. Moved(j, h)
  BY <1>2, MoveTo DEF ScreenFailed, IInv
<1>4. h.pc = "close" /\ h.task = t /\ ~h.cycle /\ h.todo = {}
  BY DEF Idle
<1>5. HandlerOK(h)
  BY <1>1, <1>4 DEF HandlerOK, WithAction
<1>6. ~job[j].cycle
  BY DEF ScreenFailed, IInv, WellFormed, HandlerOK, At, Idle
<1>7. /\ captures' \in [RequestIds -> Tasks \cup {None}]
      /\ budget' \in [Trouble -> Nat]
  BY SpendTypes DEF ScreenFailed, Answered, IInv, TypeOK, Trouble
<1>8. Typed'
  BY <1>1, <1>7
  DEF ScreenFailed, SetStatus, Typed, IInv, TypeOK, TaskStatus
<1>. QED
  BY <1>3, <1>4, <1>5, <1>6, <1>8, CalmStep DEF ScreenFailed

\* An outcome begins handleActionResult with the action in hand.
LEMMA ResultArrivedAction ==
    ASSUME IInv, NEW j \in Jobs, NEW a \in ActionIds, NEW ok \in BOOLEAN,
           ResultArrived(j, a, ok)
    PROVE  IInv'
<1>. DEFINE p == IF action[a].status \in Recorded THEN "return" ELSE "record"
            t == action[a].task
            h == [Idle EXCEPT !.pc = p, !.task = t, !.act = a, !.ok = ok]
<1>1. action[a].status \in {"SENT"} \cup Recorded /\ t \in Tasks
  BY DEF ResultArrived, IInv, SentBeforeExecuted, WellFormed, Recorded
<1>2. h \in Job
  BY <1>1 DEF Job, Idle, PC, TaskStatus
<1>3. Moved(j, h)
  BY <1>2, MoveTo DEF ResultArrived, IInv
<1>4. h.pc = p /\ h.task = t /\ ~h.cycle /\ h.todo = {} /\ h.act = a
  BY DEF Idle
<1>5. HandlerOK(h)
  BY <1>1, <1>4 DEF HandlerOK, WithAction
<1>6. ~job[j].cycle
  BY DEF ResultArrived, IInv, WellFormed, HandlerOK, At, Idle
<1>7. Typed'
  BY SpendTypes
  DEF ResultArrived, Typed, IInv, TypeOK, Trouble, rows, pending
<1>. QED
  BY <1>3, <1>4, <1>5, <1>6, <1>7, CalmStep DEF ResultArrived, rows

------------------------------------------------------------------------------
\* The other actions that leave the rows of the actions alone.

\* A rejected await ends the handler through the finally block.
LEMMA RejectAction ==
    ASSUME IInv, NEW j \in Jobs, Reject(j)
    PROVE  IInv'
<1>1. budget' \in [Trouble -> Nat]
  BY SpendTypes DEF Reject, Trouble
<1>2. Typed'
  BY <1>1 DEF Reject, Return, Typed, IInv, TypeOK, rows, pending, device
<1>. QED
  BY <1>2, ReturnStep DEF Reject, rows, device

\* startTask returns on CANCELLED and goes on otherwise.
LEMMA StartTaskAction ==
    ASSUME IInv, NEW j \in Jobs, StartTask(j)
    PROVE  IInv'
<1>. USE DEF StartTask, At, IInv, TypeOK, Typed, pending, device
<1>1. CASE job[j].seen = "CANCELLED"
  BY <1>1, ReturnStep DEF Return
<1>2. CASE job[j].seen # "CANCELLED"
  BY <1>2, AwaitStep
  DEF SetStatus, TaskStatus, MayGoTo, PC, InCycle, WithAction, WellFormed,
      HandlerOK
<1>. QED
  BY <1>1, <1>2

\* cancel returns on a terminal task and writes CANCELLED otherwise.
LEMMA CancelTaskAction ==
    ASSUME IInv, NEW j \in Jobs, CancelTask(j)
    PROVE  IInv'
<1>. USE DEF CancelTask, At, IInv, TypeOK, Typed, pending, device
<1>1. CASE job[j].seen \in Terminal
  BY <1>1, ReturnStep DEF Return
<1>2. CASE job[j].seen \notin Terminal
  BY <1>2, AwaitStep
  DEF SetStatus, TaskStatus, MayGoTo, PC, InCycle, WithAction
<1>. QED
  BY <1>1, <1>2

\* requestScreenAndPlan picks a request id.
LEMMA RequestScreenAction ==
    ASSUME IInv, NEW j \in Jobs, RequestScreen(j)
    PROVE  IInv'
<1>1. PICK r \in RequestIds :
          /\ screenPending' = [screenPending EXCEPT ![r] = T(j)]
          /\ job' = [job EXCEPT ![j].pc = "request_send", ![j].req = r]
  BY DEF RequestScreen, FreshRequests
<1>. DEFINE h == [job[j] EXCEPT !.pc = "request_send", !.req = r]
<1>2. job[j] \in Job /\ HandlerOK(job[j]) /\ T(j) \in Tasks
  BY DEF IInv, TypeOK, WellFormed, HandlerOK, RequestScreen, At, T
<1>3. h \in Job
  BY <1>2 DEF Job, PC
<1>4. job' = [job EXCEPT ![j] = h]
  BY <1>1, <1>2 DEF IInv, TypeOK
<1>5. Moved(j, h)
  BY <1>3, <1>4, MoveTo DEF IInv
<1>6. /\ h.pc = "request_send" /\ h.req = r /\ h.task = job[j].task
      /\ h.cycle = job[j].cycle /\ h.todo = job[j].todo
  BY <1>2 DEF Job
<1>7. HandlerOK(h)
  BY <1>2, <1>6 DEF HandlerOK, InCycle, WithAction, RequestScreen, At
<1>8. Typed'
  BY <1>1, <1>2
  DEF RequestScreen, SetStatus, Typed, IInv, TypeOK, TaskStatus, device
<1>. QED
  BY <1>5, <1>6, <1>7, <1>8, CalmStep DEF RequestScreen, device, T

\* The cached mode is a mode.
LEMMA CachedModeType ==
    ASSUME IInv, NEW t \in Tasks
    PROVE  CachedMode(t) \in ExecutionMode
BY DEF CachedMode, IInv, TypeOK

\* runAiIteration takes the guard and owns it.
LEMMA IterateAction ==
    ASSUME IInv, NEW j \in Jobs, Iterate(j)
    PROVE  IInv'
<1>. DEFINE m == CachedMode(T(j))
            h == [job[j] EXCEPT !.pc = "ask_ai", !.cycle = TRUE, !.mode = m,
                                !.iter = job[j].iter + 1]
<1>1. job[j] \in Job /\ HandlerOK(job[j]) /\ T(j) \in Tasks
  BY DEF IInv, TypeOK, WellFormed, HandlerOK, Iterate, At, T
<1>2. job[j].iter + 1 \in Nat /\ m \in ExecutionMode
  BY <1>1, CachedModeType DEF Job
<1>3. h \in Job
  BY <1>1, <1>2 DEF Job, PC
<1>4. job' = [job EXCEPT ![j] = h]
  BY <1>1 DEF Iterate, IInv, TypeOK
<1>5. Moved(j, h)
  BY <1>3, <1>4, MoveTo DEF IInv
<1>6. h.pc = "ask_ai" /\ h.cycle /\ h.task = T(j) /\ h.todo = job[j].todo
  BY <1>1 DEF Job, T
<1>7. HandlerOK(h)
  BY <1>1, <1>6 DEF HandlerOK, InCycle, WithAction
<1>8. Typed'
  BY <1>1, <1>2
  DEF Iterate, SetStatus, Typed, IInv, TypeOK, TaskStatus, pending, device
<1>. QED
  BY <1>5, <1>6, <1>7, <1>8, CalmStep DEF Iterate, device

\* handleActionResult between its reads: only locals change.
LEMMA CountStep ==
    ASSUME IInv, NEW j \in Jobs, NEW p \in {"count", "decide"},
           NEW m \in ExecutionMode \cup {"unset"}, NEW ok \in BOOLEAN,
           job[j].pc \in {"result", "count"},
           job' = [job EXCEPT ![j].pc = p, ![j].mode = m, ![j].ok = ok],
           Typed', action' = action, executing' = executing, active' = active
    PROVE  IInv'
<1>. DEFINE h == [job[j] EXCEPT !.pc = p, !.mode = m, !.ok = ok]
<1>1. job[j] \in Job /\ HandlerOK(job[j])
  BY DEF IInv, TypeOK, WellFormed
<1>2. h \in Job
  BY <1>1 DEF Job, PC
<1>3. job' = [job EXCEPT ![j] = h]
  BY <1>1 DEF IInv, TypeOK
<1>4. Moved(j, h)
  BY <1>2, <1>3, MoveTo DEF IInv
<1>5. /\ h.pc = p /\ h.task = job[j].task /\ h.cycle = job[j].cycle
      /\ h.act = job[j].act /\ h.todo = job[j].todo
  BY <1>1 DEF Job
<1>6. HandlerOK(h)
  BY <1>1, <1>5 DEF HandlerOK, InCycle, WithAction
<1>. QED
  BY <1>4, <1>5, <1>6, CalmStep DEF T

\* The two queries of handleActionResult.
LEMMA CountActions ==
    ASSUME IInv, NEW j \in Jobs, CountUnanswered(j) \/ BatchFinished(j)
    PROVE  IInv'
<1>1. job \in [Jobs -> Job] /\ job[j] \in Job
  BY DEF IInv, TypeOK
<1>2. CASE CountUnanswered(j)
  <2>. DEFINE ok == \A b \in Batch(job[j].act) :
                       action[b].status \notin Unanswered
  <2>1. job[j].mode \in ExecutionMode \cup {"unset"} /\ ok \in BOOLEAN
    BY <1>1 DEF Job
  <2>2. job' = [job EXCEPT ![j].pc = "count", ![j].mode = job[j].mode,
                           ![j].ok = ok]
    BY <1>1, <1>2 DEF CountUnanswered, Job
  <2>3. Typed'
    BY <1>2 DEF CountUnanswered, Typed, IInv, TypeOK, rows, pending, device
  <2>. QED
    BY <1>2, <2>1, <2>2, <2>3, CountStep
    DEF CountUnanswered, At, rows, device
<1>3. CASE BatchFinished(j)
  <2>. DEFINE ok == \A b \in Batch(job[j].act) : action[b].status = "SUCCEEDED"
  <2>0. T(j) \in Tasks
    BY <1>3 DEF BatchFinished, At, T, IInv, WellFormed, HandlerOK
  <2>1. CachedMode(T(j)) \in ExecutionMode \cup {"unset"} /\ ok \in BOOLEAN
    BY <2>0, CachedModeType
  <2>2. job' = [job EXCEPT ![j].pc = "decide", ![j].mode = CachedMode(T(j)),
                           ![j].ok = ok]
    BY <1>3 DEF BatchFinished
  <2>3. Typed'
    BY <1>3, <2>1
    DEF BatchFinished, Typed, IInv, TypeOK, rows, pending, device
  <2>. QED
    BY <1>3, <2>1, <2>2, <2>3, CountStep DEF BatchFinished, At, rows, device
<1>. QED
  BY <1>2, <1>3

------------------------------------------------------------------------------
\* The actions that write rows of actions.

\* Rows that were used keep their task, batch and recorded outcome, and no row
\* goes back to PENDING.
LEMMA CreateRows ==
    ASSUME IInv, NEW j \in Jobs, NEW new \in SUBSET Unused,
           CreateActions(new, T(j), job[j].iter), T(j) \in Tasks
    PROVE  /\ action' \in [ActionIds -> ActionRow]
           /\ \A a \in new : action'[a].status = "PENDING" /\ action'[a].task = T(j)
           /\ \A a \in ActionIds \ new : action'[a] = action[a]
           /\ \A a \in new : action[a].status = "NONE"
           /\ new \subseteq ActionIds
<1>1. new \subseteq ActionIds /\ \A a \in new : action[a].status = "NONE"
  BY DEF Unused
<1>2. job[j].iter \in Nat
  BY DEF IInv, TypeOK, Job
<1>3. [status |-> "PENDING", task |-> T(j), iter |-> job[j].iter] \in ActionRow
  BY <1>2 DEF ActionRow, ActionStatus
<1>. QED
  BY <1>1, <1>3 DEF CreateActions, IInv, TypeOK

\* A step that creates rows nobody has in hand keeps the invariant.
LEMMA CreateStep ==
    ASSUME IInv, NEW j \in Jobs, NEW new \in SUBSET Unused, NEW h,
           CreateActions(new, T(j), job[j].iter), Moved(j, h),
           h.pc \in {"asked", "wait", "created"}, job[j].pc \in InCycle,
           h.task = T(j), h.cycle = job[j].cycle,
           h.todo \in {job[j].todo, new}, Typed',
           executing' = executing, active' = active
    PROVE  IInv'
<1>1. job[j] \in Job /\ HandlerOK(job[j]) /\ T(j) \in Tasks
  BY DEF IInv, TypeOK, WellFormed, HandlerOK, T, InCycle
<1>2. TypeOK'
  BY DEF TypeOK, Typed, Moved
<1>3. GuardOwned'
  BY GuardKept DEF IInv
<1>4. /\ \A a \in new : action'[a].status = "PENDING" /\ action'[a].task = T(j)
      /\ \A a \in ActionIds \ new : action'[a] = action[a]
      /\ \A a \in new : action[a].status = "NONE"
      /\ new \subseteq ActionIds
  BY <1>1, CreateRows
<1>5. \A i \in Jobs : \A a \in job[i].todo : action'[a] = action[a]
  <2>1. \A i \in Jobs : job[i].todo \subseteq ActionIds
    BY DEF IInv, TypeOK, Job
  <2>. QED
    BY <1>4, <2>1 DEF IInv, SentBeforeExecuted
<1>6. ASSUME NEW i \in Jobs PROVE HandlerOK(job[i])'
  <2>1. CASE i = j
    <3>1. job'[j] = h /\ \A a \in h.todo : action'[a].task = h.task
      BY <1>1, <1>4, <1>5 DEF Moved, HandlerOK, T
    <3>. QED
      BY <1>1, <2>1, <3>1 DEF HandlerOK, InCycle, WithAction
  <2>2. CASE i # j
    <3>1. job'[i] = job[i] /\ HandlerOK(job[i])
      BY <2>2 DEF Moved, IInv, WellFormed
    <3>. QED
      BY <1>4, <1>5, <3>1 DEF HandlerOK, Recorded
  <2>. QED
    BY <2>1, <2>2
<1>7. WellFormed'
  BY <1>1, <1>4, <1>6 DEF WellFormed, IInv
<1>8. SentBeforeExecuted'
  <2>1. \A i \in Jobs : job[i].todo \subseteq ActionIds
    BY DEF IInv, TypeOK, Job
  <2>2. \A a \in executing : a \notin new
    BY <1>4 DEF IInv, TypeOK, SentBeforeExecuted, Recorded
  <2>3. \A i \in Jobs : \A a \in job[i].todo : a \notin new
    BY <1>4 DEF IInv, SentBeforeExecuted
  <2>4. \A a \in executing' : action'[a].status \in {"SENT"} \cup Recorded
    BY <1>4, <2>2 DEF IInv, TypeOK, SentBeforeExecuted
  <2>5. \A i \in Jobs : \A a \in job'[i].todo : action'[a].status = "PENDING"
    BY <1>4, <2>1, <2>3 DEF IInv, SentBeforeExecuted, Moved
  <2>6. \A i, k \in Jobs : i # k => \A a \in job'[i].todo : a \notin job'[k].todo
    BY <2>3 DEF IInv, SentBeforeExecuted, Moved
  <2>. QED
    BY <2>4, <2>5, <2>6 DEF SentBeforeExecuted
<1>. QED
  BY <1>2, <1>3, <1>7, <1>8 DEF IInv

\* The plans that store a control action.
LEMMA StoreActions ==
    ASSUME IInv, NEW j \in Jobs, NEW p \in Plans,
           PlanAsksUser(j, p) \/ PlanWaits(j, p)
    PROVE  IInv'
<1>. DEFINE pc == IF At(j, "asked")' THEN "asked" ELSE "wait"
            h == [job[j] EXCEPT !.pc = pc]
<1>1. PICK new \in SUBSET Unused : CreateActions(new, T(j), job[j].iter)
  BY DEF PlanAsksUser, PlanWaits, FreshRows
<1>2. job[j] \in Job /\ T(j) \in Tasks /\ job[j].pc = "plan"
  BY DEF PlanAsksUser, PlanWaits, Planned, At, T, IInv, TypeOK, WellFormed,
         HandlerOK
<1>3. Await(j, pc)
  BY <1>2 DEF PlanAsksUser, PlanWaits, Await, At, IInv, TypeOK
<1>4. Moved(j, h)
  BY <1>3, AwaitMoves DEF IInv, PC
<1>5. /\ h.pc \in {"asked", "wait"} /\ h.task = T(j)
      /\ h.cycle = job[j].cycle /\ h.todo = job[j].todo
  BY <1>2 DEF Job, T
<1>6. Typed'
  BY <1>1, <1>2, CreateRows, PlannedMode
  DEF PlanAsksUser, PlanWaits, Typed, IInv, TypeOK, pending, device
<1>. QED
  BY <1>1, <1>2, <1>4, <1>5, <1>6, CreateStep
  DEF PlanAsksUser, PlanWaits, InCycle, device

\* The plan whose actions are to be sent.
LEMMA PlanExecutesAction ==
    ASSUME IInv, NEW j \in Jobs, NEW p \in Plans, PlanExecutes(j, p)
    PROVE  IInv'
<1>1. PICK new \in SUBSET Unused :
          /\ CreateActions(new, T(j), job[j].iter)
          /\ job' = [job EXCEPT ![j].pc = "created", ![j].todo = new,
                                ![j].ok = SaysDone(p)]
  BY DEF PlanExecutes, FreshRows
<1>. DEFINE h == [job[j] EXCEPT !.pc = "created", !.todo = new,
                                !.ok = SaysDone(p)]
<1>2. job[j] \in Job /\ T(j) \in Tasks /\ job[j].pc = "plan"
  BY DEF PlanExecutes, Planned, At, T, IInv, TypeOK, WellFormed, HandlerOK
<1>3. SaysDone(p) \in BOOLEAN /\ new \in SUBSET ActionIds
  BY DEF SaysDone, Unused
<1>4. h \in Job
  BY <1>2, <1>3 DEF Job, PC
<1>5. job' = [job EXCEPT ![j] = h]
  BY <1>1 DEF IInv, TypeOK
<1>6. Moved(j, h)
  BY <1>4, <1>5, MoveTo DEF IInv
<1>7. /\ h.pc = "created" /\ h.task = T(j)
      /\ h.cycle = job[j].cycle /\ h.todo = new
  BY <1>2 DEF Job, T
<1>8. Typed'
  BY <1>1, <1>2, CreateRows, PlannedMode
  DEF PlanExecutes, Typed, IInv, TypeOK, pending, device
<1>. QED
  BY <1>1, <1>2, <1>6, <1>7, <1>8, CreateStep
  DEF PlanExecutes, InCycle, device

\* A row moves on: a pending one is sent, a sent one gets its outcome.
LEMMA AdvanceRow ==
    ASSUME IInv, NEW a \in ActionIds, NEW s \in {"SENT"} \cup Recorded,
           action[a].status # "NONE",
           action' = [action EXCEPT ![a].status = s]
    PROVE  /\ action' \in [ActionIds -> ActionRow]
           /\ action'[a].status = s /\ action'[a].task = action[a].task
           /\ action'[a].iter = action[a].iter
           /\ \A b \in ActionIds \ {a} : action'[b] = action[b]
BY DEF IInv, TypeOK, ActionRow, ActionStatus, Recorded

\* A step that moves on a row no other handler is about to send keeps the
\* invariant.
LEMMA AdvanceStep ==
    ASSUME IInv, NEW j \in Jobs, NEW h, Moved(j, h), HandlerOK(job[j])',
           NEW a \in ActionIds, NEW s \in {"SENT"} \cup Recorded,
           action[a].status # "NONE", action' = [action EXCEPT ![a].status = s],
           \A i \in Jobs \ {j} : a \notin job[i].todo,
           h.todo \subseteq job[j].todo \ {a}, Typed',
           \A b \in executing' \ executing :
              action[b].status \in {"SENT"} \cup Recorded,
           GuardOwned'
    PROVE  IInv'
<1>1. TypeOK'
  BY DEF TypeOK, Typed, Moved
<1>2. /\ action'[a].status = s /\ action'[a].task = action[a].task
      /\ \A b \in ActionIds \ {a} : action'[b] = action[b]
  BY AdvanceRow
<1>3. \A i \in Jobs : HandlerOK(job[i])'
  BY <1>2 DEF HandlerOK, Moved, IInv, WellFormed
<1>4. WellFormed'
  BY <1>2, <1>3 DEF WellFormed, IInv
<1>5. SentBeforeExecuted'
  <2>1. \A i \in Jobs : job[i].todo \subseteq ActionIds
    BY DEF IInv, TypeOK, Job
  <2>2. executing' \subseteq ActionIds
    BY DEF Typed
  <2>3. \A b \in executing' : action'[b].status \in {"SENT"} \cup Recorded
    BY <1>2, <2>2 DEF IInv, SentBeforeExecuted
  <2>4. \A i \in Jobs : \A b \in job'[i].todo : action'[b].status = "PENDING"
    BY <1>2, <2>1 DEF IInv, SentBeforeExecuted, Moved
  <2>5. \A i, k \in Jobs : i # k => \A b \in job'[i].todo : b \notin job'[k].todo
    BY DEF IInv, SentBeforeExecuted, Moved
  <2>. QED
    BY <2>3, <2>4, <2>5 DEF SentBeforeExecuted
<1>. QED
  BY <1>1, <1>4, <1>5 DEF IInv

\* What markSent relies on: the row is PENDING and of this task.
LEMMA MarkSentFacts ==
    ASSUME IInv, NEW j \in Jobs, NEW a, MarkSent(j, a)
    PROVE  LET h == [job[j] EXCEPT !.pc = "send", !.act = a,
                                   !.todo = job[j].todo \ {a}]
           IN  /\ a \in ActionIds /\ action[a].status = "PENDING"
               /\ \A i \in Jobs \ {j} : a \notin job[i].todo
               /\ Moved(j, h)
               /\ h.pc = "send" /\ h.act = a /\ h.todo = job[j].todo \ {a}
               /\ h.task = T(j) /\ h.cycle = job[j].cycle
<1>. DEFINE h == [job[j] EXCEPT !.pc = "send", !.act = a,
                                !.todo = job[j].todo \ {a}]
<1>1. job[j] \in Job /\ job[j].todo \in SUBSET ActionIds
  BY DEF IInv, TypeOK, Job
<1>2. a \in ActionIds /\ job[j].todo \ {a} \in SUBSET ActionIds
  BY <1>1 DEF MarkSent
<1>3. h \in Job
  BY <1>1, <1>2 DEF Job, PC
<1>4. job' = [job EXCEPT ![j] = h]
  BY <1>1 DEF MarkSent, IInv, TypeOK
<1>5. Moved(j, h)
  BY <1>3, <1>4, MoveTo DEF IInv
<1>6. /\ h.pc = "send" /\ h.act = a /\ h.todo = job[j].todo \ {a}
      /\ h.task = T(j) /\ h.cycle = job[j].cycle
  BY <1>1 DEF Job, T
<1>7. /\ action[a].status = "PENDING"
      /\ \A i \in Jobs \ {j} : a \notin job[i].todo
  BY DEF MarkSent, IInv, SentBeforeExecuted
<1>. QED
  BY <1>2, <1>5, <1>6, <1>7

\* markSent with, if the previous action was sent, that one now at the device.
LEMMA MarkSentStep ==
    ASSUME IInv, NEW j \in Jobs, NEW a, MarkSent(j, a),
           job[j].pc \in {"dispatch", "send"}, Typed', active' = active,
           \/ executing' = executing
           \/ At(j, "send") /\ executing' = executing \cup {job[j].act}
    PROVE  IInv'
<1>. DEFINE h == [job[j] EXCEPT !.pc = "send", !.act = a,
                                !.todo = job[j].todo \ {a}]
<1>1. /\ a \in ActionIds /\ action[a].status = "PENDING"
      /\ \A i \in Jobs \ {j} : a \notin job[i].todo
      /\ Moved(j, h)
      /\ h.pc = "send" /\ h.act = a /\ h.todo = job[j].todo \ {a}
      /\ h.task = T(j) /\ h.cycle = job[j].cycle
  BY MarkSentFacts
<1>2. action' = [action EXCEPT ![a].status = "SENT"]
  BY DEF MarkSent
<1>3. /\ action'[a].status = "SENT"
      /\ \A b \in ActionIds : action'[b].task = action[b].task
  BY <1>1, <1>2, AdvanceRow
<1>4. job[j] \in Job /\ HandlerOK(job[j]) /\ job[j].todo \subseteq ActionIds
  BY DEF IInv, TypeOK, WellFormed, Job
<1>5. HandlerOK(job[j])'
  <2>1. job'[j] = h /\ a \in job[j].todo
    BY <1>1 DEF Moved, MarkSent
  <2>. HIDE DEF h
  <2>. QED
    BY <1>1, <1>3, <1>4, <2>1 DEF HandlerOK, InCycle, T
<1>6. GuardOwned'
  BY <1>1, GuardKept DEF IInv
<1>7. \A b \in executing' \ executing : action[b].status \in {"SENT"} \cup Recorded
  BY <1>4 DEF HandlerOK, At, WithAction
<1>. QED
  BY <1>1, <1>2, <1>5, <1>6, <1>7, AdvanceStep

\* The first markSent of a plan.
LEMMA DispatchAction ==
    ASSUME IInv, NEW j \in Jobs, Dispatch(j)
    PROVE  IInv'
<1>1. PICK a \in job[j].todo : MarkSent(j, a)
  BY DEF Dispatch
<1>2. T(j) \in Tasks
  BY DEF Dispatch, At, T, IInv, WellFormed, HandlerOK
<1>3. action' \in [ActionIds -> ActionRow]
  BY <1>1, MarkSentFacts, AdvanceRow DEF MarkSent
<1>4. Typed'
  BY <1>2, <1>3 DEF Dispatch, Typed, IInv, TypeOK, device
<1>. QED
  BY <1>1, <1>4, MarkSentStep DEF Dispatch, At, device

\* EXECUTE_ACTION goes out, and the next action is marked.
LEMMA SendAction ==
    ASSUME IInv, NEW j \in Jobs, Send(j)
    PROVE  IInv'
<1>1. /\ job[j] \in Job /\ HandlerOK(job[j]) /\ job[j].pc = "send"
      /\ job[j].act \in ActionIds
      /\ action[job[j].act].status \in {"SENT"} \cup Recorded
  BY DEF Send, At, IInv, TypeOK, WellFormed, HandlerOK, WithAction
<1>2. CASE (\E a \in job[j].todo : MarkSent(j, a)) /\ UNCHANGED active
  <2>1. PICK a \in job[j].todo : MarkSent(j, a)
    BY <1>2
  <2>2. action' \in [ActionIds -> ActionRow]
    BY <2>1, MarkSentFacts, AdvanceRow DEF MarkSent
  <2>3. Typed'
    BY <1>1, <1>2, <2>2 DEF Send, Typed, IInv, TypeOK, pending
  <2>. QED
    BY <1>1, <1>2, <2>1, <2>3, MarkSentStep DEF Send, At
<1>3. CASE Return(j) /\ UNCHANGED action
  <2>1. Moved(j, Idle)
    BY <1>3, ReturnMoves DEF IInv
  <2>2. TypeOK'
    BY <1>1, <1>3, <2>1 DEF Send, Return, Moved, IInv, TypeOK, pending
  <2>3. GuardOwned'
    BY <1>3, <2>1, GuardKept DEF Return, IInv
  <2>4. HandlerOK(Idle) /\ Idle.todo = {}
    BY DEF HandlerOK, Idle, WithAction
  <2>5. WellFormed'
    BY <1>3, <2>1, <2>4 DEF WellFormed, HandlerOK, Moved, IInv
  <2>6. \A i \in Jobs : job'[i].todo \subseteq job[i].todo
    BY <2>1, <2>4 DEF Moved
  <2>7. SentBeforeExecuted'
    BY <1>1, <1>3, <2>6 DEF Send, SentBeforeExecuted, IInv
  <2>. QED
    BY <2>2, <2>3, <2>5, <2>7 DEF IInv
<1>. QED
  BY <1>2, <1>3 DEF Send

\* recordResult writes the outcome of a row that was SENT.
LEMMA RecordAction ==
    ASSUME IInv, NEW j \in Jobs, Record(j)
    PROVE  IInv'
<1>. DEFINE a == job[j].act
            s == IF job[j].ok THEN "SUCCEEDED" ELSE "FAILED"
            h == [job[j] EXCEPT !.pc = "recorded"]
<1>0. s \in Recorded /\ s \in {"SENT"} \cup Recorded
  BY DEF Recorded
<1>. HIDE DEF s
<1>1. /\ job[j] \in Job /\ HandlerOK(job[j]) /\ job[j].pc = "record"
      /\ a \in ActionIds /\ action[a].status \in {"SENT"} \cup Recorded
  BY DEF Record, At, IInv, TypeOK, WellFormed, HandlerOK, WithAction
<1>2. Moved(j, h)
  BY AwaitMoves DEF Record, IInv, PC
<1>3. /\ h.pc = "recorded" /\ h.task = job[j].task
      /\ h.cycle = job[j].cycle /\ h.todo = job[j].todo /\ h.act = a
  BY <1>1 DEF Job
<1>4. action' = [action EXCEPT ![a].status = s] /\ action[a].status # "NONE"
  BY <1>1 DEF Record, Recorded, s
<1>5. /\ action' \in [ActionIds -> ActionRow] /\ action'[a].status = s
      /\ \A b \in ActionIds : action'[b].task = action[b].task
  BY <1>0, <1>1, <1>4, AdvanceRow
<1>6. HandlerOK(job[j])'
  <2>1. job'[j] = h /\ job[j].todo \subseteq ActionIds
    BY <1>1, <1>2 DEF Moved, Job
  <2>. HIDE DEF h
  <2>. QED
    BY <1>0, <1>1, <1>3, <1>5, <2>1 DEF HandlerOK, InCycle, WithAction
<1>7. Typed'
  BY <1>5 DEF Record, Typed, IInv, TypeOK, pending, device
<1>8. GuardOwned'
  BY <1>2, <1>3, GuardKept DEF Record, IInv, T
<1>9. \A i \in Jobs : a \notin job[i].todo
  BY <1>1 DEF IInv, SentBeforeExecuted, Recorded
<1>10. h.todo \subseteq job[j].todo \ {a} /\ executing' = executing
  BY <1>3, <1>9 DEF Record, device
<1>. HIDE DEF a, h
<1>. QED
  BY <1>0, <1>1, <1>2, <1>4, <1>6, <1>7, <1>8, <1>9, <1>10, AdvanceStep

------------------------------------------------------------------------------
\* The environment.

\* No handler moves, the guards are kept, no row changes.
LEMMA QuietStep ==
    ASSUME IInv, Typed', job' = job, action' = action, active' = active,
           executing' \subseteq executing
    PROVE  IInv'
<1>1. TypeOK'
  BY DEF TypeOK, Typed, IInv
<1>2. WellFormed'
  BY DEF WellFormed, HandlerOK, IInv
<1>3. GuardOwned' /\ SentBeforeExecuted'
  BY DEF GuardOwned, SentBeforeExecuted, T, IInv
<1>. QED
  BY <1>1, <1>2, <1>3 DEF IInv

\* The environment keeps the invariant.
LEMMA EnvironmentActions ==
    ASSUME IInv,
           \/ \E r \in RequestIds, echo \in EchoTaskId : ScreenOrphan(r, echo)
           \/ Disconnect \/ Reconnect \/ Expire \/ UNCHANGED vars
    PROVE  IInv'
<1>. USE DEF rows, pending, device, Typed, TypeOK, IInv
<1>1. ASSUME NEW r \in RequestIds, NEW echo \in EchoTaskId,
             ScreenOrphan(r, echo)
      PROVE  IInv'
  <2>1. budget' \in [Trouble -> Nat]
    BY <1>1, SpendTypes DEF ScreenOrphan, Answered, Trouble
  <2>. QED
    BY <1>1, <2>1, QuietStep DEF ScreenOrphan, Answered
<1>2. CASE Disconnect
  <2>1. budget' \in [Trouble -> Nat]
    BY <1>2, SpendTypes DEF Disconnect, Trouble
  <2>2. PICK lost \in SUBSET RequestIds, kept \in SUBSET executing :
          /\ captures' = [r \in RequestIds |->
                            IF r \in lost THEN None ELSE captures[r]]
          /\ executing' = kept
    BY <1>2 DEF Disconnect
  <2>3. captures' \in [RequestIds -> Tasks \cup {None}]
    BY <2>2
  <2>. QED
    BY <1>2, <2>1, <2>2, <2>3, QuietStep DEF Disconnect
<1>3. CASE Reconnect
  BY <1>3, QuietStep DEF Reconnect
<1>4. CASE Expire
  <2>1. budget' \in [Trouble -> Nat]
    BY <1>4, SpendTypes DEF Expire, Trouble
  <2>2. /\ screenPending' \in [RequestIds -> Tasks \cup {None}]
        /\ completeAfter' \subseteq Tasks /\ userReply' \subseteq Tasks
    BY <1>4 DEF Expire
  <2>. QED
    BY <1>4, <2>1, <2>2, QuietStep DEF Expire
<1>5. CASE UNCHANGED vars
  BY <1>5, QuietStep DEF vars
<1>. QED
  BY <1>1, <1>2, <1>3, <1>4, <1>5

\* A restart forgets handlers and guards together.
LEMMA RestartAction ==
    ASSUME IInv, Restart
    PROVE  IInv'
<1>1. Idle \in Job /\ HandlerOK(Idle) /\ Idle.todo = {}
  BY DEF Job, Idle, PC, TaskStatus, HandlerOK, WithAction
<1>2. budget' \in [Trouble -> Nat]
  BY SpendTypes DEF Restart, Trouble
<1>3. TypeOK'
  BY <1>1, <1>2 DEF Restart, IInv, TypeOK, rows
<1>4. WellFormed'
  BY <1>1 DEF Restart, IInv, WellFormed, HandlerOK, rows
<1>5. GuardOwned' /\ SentBeforeExecuted'
  BY <1>1 DEF Restart, IInv, GuardOwned, SentBeforeExecuted, rows
<1>. QED
  BY <1>3, <1>4, <1>5 DEF IInv

------------------------------------------------------------------------------
\* The theorems.

\* The invariant holds when the server starts.
LEMMA InitInv == Init => IInv
<1>. SUFFICES ASSUME Init PROVE IInv
  OBVIOUS
<1>1. Idle \in Job /\ HandlerOK(Idle) /\ Idle.todo = {}
  BY DEF Job, Idle, PC, TaskStatus, HandlerOK, WithAction
<1>2. NoRow \in ActionRow /\ NoRow.status = "NONE"
  BY DEF NoRow, ActionRow, ActionStatus
<1>3. TypeOK
  BY <1>1, <1>2, TaskEngineAssumption
  DEF Init, TypeOK, TaskStatus, ExecutionMode
<1>4. WellFormed
  BY <1>1, <1>2 DEF Init, WellFormed
<1>5. GuardOwned /\ SentBeforeExecuted
  BY <1>1 DEF Init, GuardOwned, SentBeforeExecuted
<1>. QED
  BY <1>3, <1>4, <1>5 DEF IInv

\* Every step of a handler keeps the invariant.
LEMMA ResumeInv ==
    ASSUME IInv, NEW j \in Jobs, Resume(j)
    PROVE  IInv'
<1>1. CASE Plan(j)
  <2>1. PICK p \in Plans :
          \/ PlanAwaitsUser(j, p) \/ PlanCompletes(j, p) \/ PlanFails(j, p)
          \/ PlanAsksUser(j, p)   \/ PlanReplans(j, p)   \/ PlanWaits(j, p)
          \/ PlanExecutes(j, p)
    BY <1>1 DEF Plan
  <2>. QED
    BY <2>1, PlanActions, PlanReplansAction, StoreActions, PlanExecutesAction
<1>2. CASE ~Plan(j)
  BY <1>2, ReadActions, ReturnActions, StatusActions, AwaitActions,
     StartTaskAction, RequestScreenAction, IterateAction, DispatchAction,
     SendAction, RecordAction, CountActions, CancelTaskAction,
     MessageIgnoredAction
  DEF Resume
<1>. QED
  BY <1>1, <1>2

\* Every step keeps the invariant.
LEMMA NextInv == IInv /\ [Next]_vars => IInv'
<1>. SUFFICES ASSUME IInv, [Next]_vars PROVE IInv'
  OBVIOUS
<1>1. CASE \E j \in Jobs : Resume(j) \/ Reject(j)
  BY <1>1, ResumeInv, RejectAction
<1>2. CASE \E j \in Jobs, t \in Tasks :
             Create(j, t) \/ Cancel(j, t) \/ Message(j, t)
  BY <1>2, CreateAction, UserActions
<1>3. CASE AnswerScreen
  BY <1>3, EnvironmentActions, ScreenFailedAction, ScreenArrivedAction
  DEF AnswerScreen
<1>4. CASE AnswerAction
  BY <1>4, ResultArrivedAction DEF AnswerAction
<1>5. CASE Disconnect \/ Reconnect \/ Expire \/ Restart \/ UNCHANGED vars
  BY <1>5, EnvironmentActions, RestartAction
<1>. QED
  BY <1>1, <1>2, <1>3, <1>4, <1>5 DEF Next

\* The invariant: TasksService keeps its types, its handlers' locals, its guards
\* and the order of markSent and EXECUTE_ACTION in every reachable state.
THEOREM Invariance == Spec => []IInv
BY InitInv, NextInv, PTL DEF Spec

\* Every variable keeps its type.
THEOREM TypeCorrect == Spec => []TypeOK
<1>1. IInv => TypeOK
  BY DEF IInv
<1>. QED
  BY <1>1, Invariance, PTL

\* The locals of every suspended handler agree with the rows they came from.
THEOREM HandlersWellFormed == Spec => []WellFormed
<1>1. IInv => WellFormed
  BY DEF IInv
<1>. QED
  BY <1>1, Invariance, PTL

\* activePlanCycles never holds a task whose plan cycle is over, whichever await
\* of the cycle was rejected (the finally block of runAiIteration).
THEOREM GuardsAreOwned == Spec => []GuardOwned
<1>1. IInv => GuardOwned
  BY DEF IInv
<1>. QED
  BY <1>1, Invariance, PTL

\* An action is marked SENT before the device is told to execute it, by the one
\* dispatch loop that created it.
THEOREM SendsAreMarked == Spec => []SentBeforeExecuted
<1>1. IInv => SentBeforeExecuted
  BY DEF IInv
<1>. QED
  BY <1>1, Invariance, PTL

=============================================================================
