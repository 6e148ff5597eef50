-------------------------- MODULE TaskQuiesceProofs --------------------------
(***************************************************************************)
(* TLAPS proofs of what a step of TaskEngine may never do: take back a     *)
(* recorded outcome, or move a task on that is over and has drained.       *)
(***************************************************************************)
EXTENDS TaskEngineProofs

------------------------------------------------------------------------------
\* Recorded outcomes.

\* RecordedStays of one step.
RowsAdvance ==
    \A a \in ActionIds :
        /\ action[a].status \in Recorded => action'[a].status \in Recorded
        /\ action[a].status # "NONE" =>
              /\ action'[a].task = action[a].task
              /\ action'[a].iter = action[a].iter

\* createActions writes only rows that did not exist.
LEMMA CreateAdvances ==
    ASSUME NEW new \in SUBSET Unused, NEW t, NEW i, CreateActions(new, t, i)
    PROVE  RowsAdvance
BY DEF RowsAdvance, CreateActions, Unused, Recorded

\* markSent moves a PENDING row on.
LEMMA MarkSentAdvances ==
    ASSUME IInv, NEW j \in Jobs, NEW a, MarkSent(j, a)
    PROVE  RowsAdvance
<1>1. a \in ActionIds /\ action[a].status = "PENDING"
  BY MarkSentFacts
<1>2. action' = [action EXCEPT ![a].status = "SENT"]
  BY DEF MarkSent
<1>. QED
  BY <1>1, <1>2, AdvanceRow DEF RowsAdvance, Recorded

\* recordResult moves a SENT or recorded row on.
LEMMA RecordAdvances ==
    ASSUME IInv, NEW j \in Jobs, Record(j)
    PROVE  RowsAdvance
<1>. DEFINE a == job[j].act
            s == IF job[j].ok THEN "SUCCEEDED" ELSE "FAILED"
<1>1. a \in ActionIds /\ action[a].status \in {"SENT"} \cup Recorded
  BY DEF Record, At, IInv, WellFormed, HandlerOK, WithAction
<1>2. s \in Recorded
  BY DEF Recorded
<1>3. action' = [action EXCEPT ![a].status = s]
  BY DEF Record
<1>. HIDE DEF a, s
<1>. QED
  BY <1>1, <1>2, <1>3, AdvanceRow DEF RowsAdvance, Recorded

\* No step takes an outcome back.
LEMMA NextAdvances == IInv /\ [Next]_vars => RowsAdvance
<1>. SUFFICES ASSUME IInv, [Next]_vars PROVE RowsAdvance
  OBVIOUS
<1>1. ASSUME action' = action PROVE RowsAdvance
  BY <1>1 DEF RowsAdvance
<1>2. ASSUME NEW j \in Jobs, Resume(j) PROVE RowsAdvance
  <2>1. ASSUME NEW p \in Plans, PlanAsksUser(j, p) \/ PlanWaits(j, p)
                                  \/ PlanExecutes(j, p)
        PROVE  RowsAdvance
    BY <2>1, CreateAdvances
    DEF PlanAsksUser, PlanWaits, PlanExecutes, FreshRows
  <2>2. ASSUME NEW p \in Plans, PlanAwaitsUser(j, p) \/ PlanCompletes(j, p)
                                  \/ PlanFails(j, p) \/ PlanReplans(j, p)
        PROVE  action' = action
    BY <2>2
    DEF PlanAwaitsUser, PlanCompletes, PlanFails, PlanReplans, rows
  <2>3. CASE Plan(j)
    BY <1>1, <2>1, <2>2, <2>3 DEF Plan
  <2>4. CASE Dispatch(j) \/ Send(j)
    BY <1>1, <2>4, MarkSentAdvances DEF Dispatch, Send
  <2>5. CASE Record(j)
    BY <2>5, RecordAdvances
  <2>6. CASE ~Plan(j) /\ ~Dispatch(j) /\ ~Send(j) /\ ~Record(j)
    <3>1. action' = action
      BY <1>2, <2>6
      DEF Resume, rows, Start, StartTask, Request, RequestTerminal,
          RequestSkipped, RequestExhausted, RequestScreen, RequestSent,
          RequestUnsent, Close, ScreenTerminal, ScreenDelivered,
          IterateTerminal, IterateSkipped, Iterate, AskAi, AiFails, AiFailed,
          AiAnswers, UserAsked, Waited, ActionsCreated, SendFails, LeaveCycle,
          ResultRecorded, ResultTerminal, CountUnanswered, BatchUnfinished,
          BatchFinished, DecideMarked, DecideEnds, DecideReplans, CancelTask,
          MessageResumes, MessageIgnored
    <3>. QED
      BY <1>1, <3>1
  <2>. QED
    BY <2>3, <2>4, <2>5, <2>6
<1>3. CASE \/ \E j \in Jobs : Reject(j)
           \/ \E j \in Jobs, t \in Tasks :
                 Create(j, t) \/ Cancel(j, t) \/ Message(j, t)
           \/ AnswerScreen \/ AnswerAction
           \/ Disconnect \/ Reconnect \/ Expire \/ Restart \/ UNCHANGED vars
  <2>1. action' = action
    BY <1>3
    DEF Reject, Create, Cancel, Message, AnswerScreen, AnswerAction,
        ScreenOrphan, ScreenFailed, ScreenArrived, ResultArrived, Disconnect,
        Reconnect, Expire, Restart, vars, rows
  <2>. QED
    BY <1>1, <2>1
<1>. QED
  BY <1>2, <1>3 DEF Next

\* An action whose outcome is recorded never becomes unanswered again, and no
\* action changes its task or batch (recordResult, markSent, createActions).
THEOREM OutcomesAreKept == Spec => RecordedStays
<1>1. IInv /\ [Next]_vars
        => [\A a \in ActionIds :
              /\ action[a].status \in Recorded => action'[a].status \in Recorded
              /\ action[a].status # "NONE" =>
                    /\ action'[a].task = action[a].task
                    /\ action'[a].iter = action[a].iter]_vars
  BY NextAdvances DEF RowsAdvance
<1>. QED
  BY <1>1, Invariance, PTL DEF Spec, RecordedStays

------------------------------------------------------------------------------
\* Tasks that are over.

\* The step of QuiescedStays does to task t what it may.
Over(t) ==
    /\ Quiesced(t)'
    /\ iteration'[t] = iteration[t]
    /\ \A r \in RequestIds : captures'[r] = t => captures[r] = t
    /\ \A a \in executing' \ executing : action[a].task # t

\* The step leaves the rows of task t and the requests for it alone.
LeavesAlone(t) ==
    /\ status'[t] = status[t]
    /\ iteration'[t] = iteration[t]
    /\ \A r \in RequestIds : captures'[r] = t => captures[r] = t
    /\ \A a \in executing' \ executing : action[a].task # t

\* Only handler j moves; it stays with its task or ends.
KeepsTask(j) ==
    /\ job'[j].task \in {T(j), None}
    /\ \A i \in Jobs \ {j} : job'[i] = job[i]

\* A step of a handler of another task leaves a task that is over alone.
LEMMA ElsewhereOver ==
    ASSUME NEW t \in Tasks, Quiesced(t), NEW j \in Jobs, KeepsTask(j),
           T(j) # t, LeavesAlone(t)
    PROVE  Over(t)
<1>1. \A i \in Jobs : job'[i].task = t => T(i) = t /\ job'[i] = job[i]
  BY TaskEngineAssumption DEF KeepsTask, T
<1>. QED
  BY <1>1 DEF Over, LeavesAlone, Quiesced, T

\* A step of one of its own handlers that arms nothing does too.
LEMMA HereOver ==
    ASSUME NEW t \in Tasks, Quiesced(t), NEW j \in Jobs,
           \A i \in Jobs \ {j} : job'[i] = job[i],
           job'[j].task = t => ~Armed(job'[j]),
           status'[t] \in Terminal, iteration'[t] = iteration[t],
           captures' = captures, executing' = executing
    PROVE  Over(t)
BY DEF Over, Quiesced, T

\* Awaiting keeps the task.
LEMMA AwaitKeeps ==
    ASSUME IInv, NEW j \in Jobs, NEW p, Await(j, p) \/ AwaitTask(j, p)
    PROVE  /\ KeepsTask(j)
           /\ job'[j].task = T(j)
           /\ job'[j].pc = p
           /\ AwaitTask(j, p) => job'[j].seen = status[T(j)]
<1>1. job \in [Jobs -> Job] /\ job[j] \in Job
  BY DEF IInv, TypeOK
<1>. QED
  BY <1>1 DEF Await, AwaitTask, KeepsTask, Job, T

\* Returning drops it.
LEMMA ReturnKeeps ==
    ASSUME IInv, NEW j \in Jobs, Return(j) \/ ReturnCleared(j)
    PROVE  /\ KeepsTask(j)
           /\ job'[j].task = None
<1>1. job \in [Jobs -> Job]
  BY DEF IInv, TypeOK
<1>. QED
  BY <1>1 DEF Return, ReturnCleared, KeepsTask, Idle

\* A step of a handler keeps its task, unless the handler creates one.
LEMMA ResumeKeeps ==
    ASSUME IInv, NEW j \in Jobs, Resume(j), ~MessageIgnored(j)
    PROVE  KeepsTask(j)
<1>. USE AwaitKeeps, ReturnKeeps DEF FailTask, CompleteTask
<1>1. CASE Start(j) \/ StartTask(j) \/ Request(j) \/ RequestTerminal(j)
             \/ RequestSkipped(j) \/ RequestExhausted(j) \/ RequestSent(j)
             \/ RequestUnsent(j) \/ Close(j)
  BY <1>1 DEF Start, StartTask, Request, RequestTerminal, RequestSkipped,
              RequestExhausted, RequestSent, RequestUnsent, Close
<1>2. CASE ScreenTerminal(j) \/ ScreenDelivered(j) \/ IterateTerminal(j)
             \/ IterateSkipped(j) \/ AskAi(j) \/ AiFails(j) \/ AiFailed(j)
             \/ AiAnswers(j) \/ UserAsked(j) \/ Waited(j) \/ ActionsCreated(j)
             \/ SendFails(j) \/ LeaveCycle(j)
  BY <1>2 DEF ScreenTerminal, ScreenDelivered, IterateTerminal, IterateSkipped,
              AskAi, AiFails, AiFailed, AiAnswers, UserAsked, Waited,
              ActionsCreated, SendFails, LeaveCycle
<1>3. CASE Record(j) \/ ResultRecorded(j) \/ ResultTerminal(j)
             \/ BatchUnfinished(j) \/ DecideMarked(j) \/ DecideEnds(j)
             \/ DecideReplans(j) \/ CancelTask(j) \/ MessageResumes(j)
  BY <1>3 DEF Record, ResultRecorded, ResultTerminal, BatchUnfinished,
              DecideMarked, DecideEnds, DecideReplans, CancelTask,
              MessageResumes
<1>4. CASE RequestScreen(j) \/ Iterate(j) \/ CountUnanswered(j)
             \/ BatchFinished(j)
  <2>1. job \in [Jobs -> Job] /\ job[j] \in Job
    BY DEF IInv, TypeOK
  <2>. QED
    BY <1>4, <2>1 DEF RequestScreen, Iterate, CountUnanswered, BatchFinished,
                      KeepsTask, T, Job
<1>5. ASSUME NEW a, MarkSent(j, a) PROVE KeepsTask(j)
  <2>1. job \in [Jobs -> Job] /\ job[j] \in Job
    BY DEF IInv, TypeOK
  <2>. QED
    BY <1>5, <2>1 DEF MarkSent, KeepsTask, T, Job
<1>6. CASE Dispatch(j) \/ Send(j)
  BY <1>5, <1>6 DEF Dispatch, Send
<1>7. CASE Plan(j)
  <2>1. PICK p \in Plans :
          \/ PlanAwaitsUser(j, p) \/ PlanCompletes(j, p) \/ PlanFails(j, p)
          \/ PlanAsksUser(j, p)   \/ PlanReplans(j, p)   \/ PlanWaits(j, p)
          \/ PlanExecutes(j, p)
    BY <1>7 DEF Plan
  <2>2. CASE PlanExecutes(j, p)
    <3>1. job \in [Jobs -> Job] /\ job[j] \in Job
      BY DEF IInv, TypeOK
    <3>. QED
      BY <2>2, <3>1 DEF PlanExecutes, KeepsTask, T, Job
  <2>3. CASE ~PlanExecutes(j, p)
    BY <2>1, <2>3 DEF PlanAwaitsUser, PlanCompletes, PlanFails, PlanAsksUser,
                      PlanReplans, PlanWaits
  <2>. QED
    BY <2>2, <2>3
<1>. QED
  BY <1>1, <1>2, <1>3, <1>4, <1>6, <1>7 DEF Resume

\* What a handler does to a task that is not its own.
LEMMA ResumeLeavesAlone ==
    ASSUME IInv, NEW j \in Jobs, Resume(j), ~MessageIgnored(j),
           NEW t \in Tasks, T(j) # t
    PROVE  LeavesAlone(t)
<1>. USE DEF rows, device, FailTask, CompleteTask, SetStatus, LeavesAlone
<1>1. status \in [Tasks -> TaskStatus] /\ iteration \in [Tasks -> Nat]
  BY DEF IInv, TypeOK
<1>2. CASE Start(j) \/ StartTask(j) \/ Request(j) \/ RequestTerminal(j)
             \/ RequestSkipped(j) \/ RequestExhausted(j) \/ RequestScreen(j)
             \/ RequestUnsent(j) \/ Close(j)
  BY <1>1, <1>2 DEF Start, StartTask, Request, RequestTerminal, RequestSkipped,
              RequestExhausted, RequestScreen, RequestUnsent, Close
<1>3. CASE ScreenTerminal(j) \/ ScreenDelivered(j) \/ IterateTerminal(j)
             \/ IterateSkipped(j) \/ Iterate(j) \/ AskAi(j) \/ AiFails(j)
             \/ AiFailed(j) \/ AiAnswers(j) \/ UserAsked(j) \/ Waited(j)
             \/ ActionsCreated(j) \/ SendFails(j) \/ LeaveCycle(j)
             \/ Dispatch(j)
  BY <1>1, <1>3 DEF ScreenTerminal, ScreenDelivered, IterateTerminal,
              IterateSkipped, Iterate, AskAi, AiFails, AiFailed, AiAnswers,
              UserAsked, Waited, ActionsCreated, SendFails, LeaveCycle, Dispatch
<1>4. CASE Record(j) \/ ResultRecorded(j) \/ ResultTerminal(j)
             \/ CountUnanswered(j) \/ BatchUnfinished(j) \/ BatchFinished(j)
             \/ DecideMarked(j) \/ DecideEnds(j) \/ DecideReplans(j)
             \/ CancelTask(j) \/ MessageResumes(j)
  BY <1>1, <1>4 DEF Record, ResultRecorded, ResultTerminal, CountUnanswered,
              BatchUnfinished, BatchFinished, DecideMarked, DecideEnds,
              DecideReplans, CancelTask, MessageResumes
<1>5. CASE RequestSent(j)
  <2>1. captures \in [RequestIds -> Tasks \cup {None}]
    BY DEF IInv, TypeOK
  <2>. QED
    BY <1>5, <2>1 DEF RequestSent
<1>6. CASE Send(j)
  <2>1. action[job[j].act].task = T(j)
    BY <1>6 DEF Send, At, IInv, WellFormed, HandlerOK, WithAction, T
  <2>. QED
    BY <1>6, <2>1 DEF Send
<1>7. CASE Plan(j)
  <2>1. PICK p \in Plans :
          \/ PlanAwaitsUser(j, p) \/ PlanCompletes(j, p) \/ PlanFails(j, p)
          \/ PlanAsksUser(j, p)   \/ PlanReplans(j, p)   \/ PlanWaits(j, p)
          \/ PlanExecutes(j, p)
    BY <1>7 DEF Plan
  <2>. QED
    BY <1>1, <2>1
    DEF PlanAwaitsUser, PlanCompletes, PlanFails, PlanAsksUser, PlanReplans,
        PlanWaits, PlanExecutes
<1>. QED
  BY <1>2, <1>3, <1>4, <1>5, <1>6, <1>7 DEF Resume

\* What a handler that is not armed does to its own task once that is over: it
\* returns, reads that the task is over, or writes another terminal status.
LEMMA UnarmedOver ==
    ASSUME IInv, NEW t \in Tasks, Quiesced(t), NEW j \in Jobs, Resume(j),
           ~MessageIgnored(j), T(j) = t
    PROVE  Over(t)
<1>1. status[t] \in Terminal /\ ~Armed(job[j])
  BY DEF Quiesced
<1>2. /\ job \in [Jobs -> Job]
      /\ status \in [Tasks -> TaskStatus]
  BY DEF IInv, TypeOK
<1>3. \A i \in Jobs \ {j} : job'[i] = job[i]
  BY ResumeKeeps DEF KeepsTask
<1>4. ASSUME Return(j) \/ ReturnCleared(j), status' = status,
             iteration' = iteration, captures' = captures,
             executing' = executing
      PROVE  Over(t)
  BY <1>1, <1>3, <1>4, ReturnKeeps, HereOver, TaskEngineAssumption
<1>5. ASSUME NEW p \in {"request_check", "iterate", "result"}, AwaitTask(j, p),
             status' = status,
             iteration' = iteration, captures' = captures,
             executing' = executing
      PROVE  Over(t)
  <2>1. job'[j].pc = p /\ job'[j].seen = status[t]
    BY <1>5, AwaitKeeps
  <2>2. ~Armed(job'[j])
    BY <1>1, <2>1 DEF Armed
  <2>. QED
    BY <1>1, <1>3, <1>5, <2>2, HereOver
<1>6. ASSUME NEW p \in {"return", "recorded", "close"}, Await(j, p),
             status'[t] \in Terminal,
             iteration' = iteration, captures' = captures,
             executing' = executing
      PROVE  Over(t)
  <2>1. ~Armed(job'[j])
    BY <1>6, AwaitKeeps DEF Armed
  <2>. QED
    BY <1>3, <1>6, <2>1, HereOver
<1>7. CASE Start(j) \/ RequestSent(j) \/ RequestUnsent(j) \/ AskAi(j)
             \/ AiFails(j) \/ AiAnswers(j) \/ Plan(j) \/ UserAsked(j)
             \/ ActionsCreated(j) \/ Dispatch(j) \/ Send(j) \/ SendFails(j)
             \/ RequestSkipped(j) \/ RequestExhausted(j) \/ RequestScreen(j)
             \/ IterateSkipped(j) \/ Iterate(j)
  BY <1>1, <1>7
  DEF Armed, At, Start, RequestSent, RequestUnsent, AskAi, AiFails, AiAnswers,
      Plan, PlanAwaitsUser, PlanCompletes, PlanFails, PlanAsksUser, PlanReplans,
      PlanWaits, PlanExecutes, Planned, UserAsked, ActionsCreated, Dispatch,
      Send, SendFails, RequestSkipped, RequestExhausted, RequestScreen,
      IterateSkipped, Iterate
<1>8. CASE StartTask(j)
  BY <1>1, <1>4, <1>8 DEF StartTask, Armed, At, device
<1>9. CASE RequestTerminal(j) \/ Close(j) \/ ScreenTerminal(j)
             \/ IterateTerminal(j) \/ LeaveCycle(j) \/ ResultTerminal(j)
             \/ BatchUnfinished(j)
  BY <1>4, <1>9
  DEF RequestTerminal, Close, ScreenTerminal, IterateTerminal, LeaveCycle,
      ResultTerminal, BatchUnfinished, rows, device
<1>10. CASE Request(j) \/ ScreenDelivered(j) \/ Waited(j) \/ ResultRecorded(j)
             \/ DecideReplans(j) \/ MessageResumes(j)
  BY <1>5, <1>10
  DEF Request, ScreenDelivered, Waited, ResultRecorded, DecideReplans,
      MessageResumes, rows, device
<1>11. CASE AiFailed(j) \/ Record(j)
  BY <1>1, <1>6, <1>11 DEF AiFailed, Record, rows, device
<1>12. CASE DecideMarked(j) \/ DecideEnds(j)
  <2>1. Await(j, "close") /\ status'[t] \in Terminal
    BY <1>2, <1>12
    DEF DecideMarked, DecideEnds, FailTask, CompleteTask, SetStatus, Terminal
  <2>. QED
    BY <1>6, <1>12, <2>1 DEF DecideMarked, DecideEnds, device
<1>13. CASE CancelTask(j)
  <2>1. CASE Return(j) /\ status' = status
    BY <1>4, <1>13, <2>1 DEF CancelTask, device
  <2>2. CASE SetStatus(T(j), "CANCELLED") /\ Await(j, "close")
    BY <1>2, <1>6, <1>13, <2>2 DEF CancelTask, SetStatus, Terminal, device
  <2>. QED
    BY <1>13, <2>1, <2>2 DEF CancelTask
<1>14. CASE CountUnanswered(j) \/ BatchFinished(j)
  <2>1. job'[j].pc \in {"count", "decide"}
    BY <1>2, <1>14 DEF CountUnanswered, BatchFinished, Job
  <2>2. ~Armed(job'[j])
    BY <2>1 DEF Armed
  <2>. QED
    BY <1>1, <1>3, <1>14, <2>2, HereOver
    DEF CountUnanswered, BatchFinished, rows, device
<1>. QED
  BY <1>7, <1>8, <1>9, <1>10, <1>11, <1>12, <1>13, <1>14 DEF Resume

\* A message that names a device creates another task.
LEMMA MessageIgnoredOver ==
    ASSUME IInv, NEW t \in Tasks, Quiesced(t), NEW j \in Jobs,
           MessageIgnored(j)
    PROVE  Over(t)
<1>. USE DEF MessageIgnored, device
<1>1. job \in [Jobs -> Job] /\ status \in [Tasks -> TaskStatus]
  BY DEF IInv, TypeOK
<1>2. status[t] \in Terminal
  BY DEF Quiesced
<1>3. CASE Return(j) /\ status' = status
  BY <1>2, <1>3, ReturnKeeps, HereOver, TaskEngineAssumption DEF KeepsTask
<1>4. ASSUME NEW u \in Tasks, NewTask(j, u)
      PROVE  Over(t)
  <2>1. t # u /\ status'[t] = status[t]
    BY <1>1, <1>2, <1>4 DEF NewTask, SetStatus, Terminal
  <2>2. job'[j].task = u /\ \A i \in Jobs \ {j} : job'[i] = job[i]
    BY <1>1, <1>4 DEF NewTask, Idle
  <2>. QED
    BY <1>2, <2>1, <2>2, HereOver
<1>. QED
  BY <1>3, <1>4

\* A handler of task t that begins reads it before it moves it.
LEMMA BeginOver ==
    ASSUME IInv, NEW t \in Tasks, Quiesced(t), NEW j \in Jobs, NEW u \in Tasks,
           Cancel(j, u) \/ Message(j, u)
    PROVE  Over(t)
<1>1. job \in [Jobs -> Job]
  BY DEF IInv, TypeOK
<1>2. \A i \in Jobs \ {j} : job'[i] = job[i]
  BY <1>1 DEF Cancel, Message, Begin
<1>3. job'[j].pc \in {"cancel", "message"}
  BY <1>1 DEF Cancel, Message, Begin, Idle
<1>4. ~Armed(job'[j])
  BY <1>3 DEF Armed
<1>. QED
  BY <1>2, <1>4, HereOver DEF Cancel, Message, rows, device, Quiesced

\* A step that only loses requests and begins at most an unarmed handler.
LEMMA AnswerOver ==
    ASSUME NEW t \in Tasks, Quiesced(t),
           status'[t] \in Terminal, iteration'[t] = iteration[t],
           \A r \in RequestIds : captures'[r] \in {captures[r], None},
           executing' \subseteq executing,
           \A i \in Jobs : job'[i] = job[i] \/ ~Armed(job'[i])
    PROVE  Over(t)
BY TaskEngineAssumption DEF Over, Quiesced, T

\* Late screenshots, failed ones included.
LEMMA AnswerScreenOver ==
    ASSUME IInv, NEW t \in Tasks, Quiesced(t), AnswerScreen
    PROVE  Over(t)
<1>1. /\ job \in [Jobs -> Job]
      /\ status \in [Tasks -> TaskStatus]
      /\ captures \in [RequestIds -> Tasks \cup {None}]
      /\ status[t] \in Terminal
  BY DEF IInv, TypeOK, Quiesced
<1>2. PICK r \in RequestIds, echo \in EchoTaskId :
        \/ ScreenOrphan(r, echo)
        \/ \E j \in Jobs : ScreenFailed(j, r, echo) \/ ScreenArrived(j, r, echo)
  BY DEF AnswerScreen
<1>3. \A q \in RequestIds : captures'[q] \in {captures[q], None}
  BY <1>1, <1>2 DEF ScreenOrphan, ScreenFailed, ScreenArrived, Answered
<1>4. executing' = executing /\ iteration' = iteration
  BY <1>2 DEF ScreenOrphan, ScreenFailed, ScreenArrived, rows
<1>5. CASE ScreenOrphan(r, echo)
  BY <1>1, <1>3, <1>4, <1>5, AnswerOver DEF ScreenOrphan, rows
<1>6. ASSUME NEW j \in Jobs, ScreenFailed(j, r, echo) PROVE Over(t)
  <2>1. status'[t] \in Terminal
    BY <1>1, <1>6 DEF ScreenFailed, SetStatus, Terminal
  <2>2. job'[j].pc = "close" /\ \A i \in Jobs \ {j} : job'[i] = job[i]
    BY <1>1, <1>6 DEF ScreenFailed, Idle
  <2>3. ~Armed(job'[j])
    BY <2>2 DEF Armed
  <2>. QED
    BY <1>3, <1>4, <2>1, <2>2, <2>3, AnswerOver
<1>7. ASSUME NEW j \in Jobs, ScreenArrived(j, r, echo) PROVE Over(t)
  <2>1. status'[t] \in Terminal
    BY <1>1, <1>7 DEF ScreenArrived, rows
  <2>2. job'[j].pc = "screen" /\ \A i \in Jobs \ {j} : job'[i] = job[i]
    BY <1>1, <1>7 DEF ScreenArrived, Begin, Idle
  <2>3. ~Armed(job'[j])
    BY <2>2 DEF Armed
  <2>. QED
    BY <1>3, <1>4, <2>1, <2>2, <2>3, AnswerOver
<1>. QED
  BY <1>2, <1>5, <1>6, <1>7

\* Late outcomes.
LEMMA AnswerActionOver ==
    ASSUME IInv, NEW t \in Tasks, Quiesced(t), AnswerAction
    PROVE  Over(t)
<1>1. PICK j \in Jobs, a \in ActionIds, ok \in BOOLEAN : ResultArrived(j, a, ok)
  BY DEF AnswerAction
<1>2. job \in [Jobs -> Job] /\ status[t] \in Terminal
  BY DEF IInv, TypeOK, Quiesced
<1>3. /\ job'[j].pc \in {"return", "record"}
      /\ \A i \in Jobs \ {j} : job'[i] = job[i]
  BY <1>1, <1>2 DEF ResultArrived, Idle
<1>4. ~Armed(job'[j])
  BY <1>3 DEF Armed
<1>5. executing' \subseteq executing /\ status' = status
      /\ iteration' = iteration /\ captures' = captures
  BY <1>1 DEF ResultArrived, rows
<1>. QED
  BY <1>2, <1>3, <1>4, <1>5, AnswerOver

\* Lost requests, expired keys and restarts.
LEMMA EnvironmentOver ==
    ASSUME IInv, NEW t \in Tasks, Quiesced(t),
           Disconnect \/ Reconnect \/ Expire \/ Restart \/ UNCHANGED vars
    PROVE  Over(t)
<1>1. /\ status[t] \in Terminal
      /\ captures \in [RequestIds -> Tasks \cup {None}]
  BY DEF IInv, TypeOK, Quiesced
<1>2. ~Armed(Idle)
  BY DEF Armed, Idle
<1>3. /\ status' = status /\ iteration' = iteration
      /\ executing' \subseteq executing
      /\ job' = job \/ job' = [j \in Jobs |-> Idle]
  BY DEF Disconnect, Reconnect, Expire, Restart, vars, rows, device
<1>4. \A r \in RequestIds : captures'[r] \in {captures[r], None}
  BY <1>1 DEF Disconnect, Reconnect, Expire, Restart, vars, device
<1>. QED
  BY <1>1, <1>2, <1>3, <1>4, AnswerOver

\* No step moves on a task that is over and has drained.
LEMMA NextOver ==
    ASSUME IInv, [Next]_vars, NEW t \in Tasks, Quiesced(t)
    PROVE  Over(t)
<1>1. ASSUME NEW j \in Jobs, Resume(j) PROVE Over(t)
  <2>1. CASE MessageIgnored(j)
    BY <2>1, MessageIgnoredOver
  <2>2. CASE ~MessageIgnored(j) /\ T(j) # t
    BY <1>1, <2>2, ResumeKeeps, ResumeLeavesAlone, ElsewhereOver
  <2>3. CASE ~MessageIgnored(j) /\ T(j) = t
    BY <1>1, <2>3, UnarmedOver
  <2>. QED
    BY <2>1, <2>2, <2>3
<1>2. ASSUME NEW j \in Jobs, Reject(j) PROVE Over(t)
  BY <1>2, ReturnKeeps, HereOver, TaskEngineAssumption
  DEF Reject, rows, device, KeepsTask, Quiesced
<1>3. ASSUME NEW j \in Jobs, NEW u \in Tasks, Create(j, u) PROVE Over(t)
  <2>1. t # u /\ status'[t] = status[t] /\ status[t] \in Terminal
    BY <1>3 DEF Create, NewTask, SetStatus, Terminal, Quiesced, IInv, TypeOK
  <2>2. job'[j].task = u /\ \A i \in Jobs \ {j} : job'[i] = job[i]
    BY <1>3 DEF Create, NewTask, Idle, IInv, TypeOK
  <2>. QED
    BY <1>3, <2>1, <2>2, HereOver DEF Create, device
<1>4. ASSUME NEW j \in Jobs, NEW u \in Tasks, Cancel(j, u) \/ Message(j, u)
      PROVE  Over(t)
  BY <1>4, BeginOver
<1>. QED
  BY <1>1, <1>2, <1>3, <1>4, AnswerScreenOver, AnswerActionOver, EnvironmentOver
  DEF Next

\* A task that is over and whose armed handlers have drained stays over: no
\* later answer, message, timeout, restart or other task's handler starts an
\* iteration of it, requests its screen or sends one of its actions.
THEOREM OverStaysOver == Spec => QuiescedStays
<1>1. IInv /\ [Next]_vars
        => [\A t \in Tasks : Quiesced(t) =>
              /\ Quiesced(t)'
              /\ iteration'[t] = iteration[t]
              /\ \A r \in RequestIds : captures'[r] = t => captures[r] = t
              /\ \A a \in executing' \ executing : action[a].task # t]_vars
  BY NextOver DEF Over
<1>. QED
  BY <1>1, Invariance, PTL DEF Spec, QuiescedStays

=============================================================================
