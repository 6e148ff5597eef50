--------------------------- MODULE TaskOrderProofs ---------------------------
(***************************************************************************)
(* TLAPS proofs of what TaskEngine keeps where its answers come one at a   *)
(* time (Orderly): no duplicates, batches of one action, at most one chat  *)
(* message.  Handlers may still be cancelled, rejected, restarted and cut  *)
(* off from the agent at any await.                                        *)
(*                                                                         *)
(* The argument: a task is carried on by one thing at a time, a handler, a *)
(* request for a screenshot or one for an action, which only hands it on   *)
(* (Order).  The planning guard is not what keeps cycles apart.  What a    *)
(* handler read of its task is therefore still so when it uses it (Pace):  *)
(* the iteration cap, the mark of a finished plan and the rows a batch is  *)
(* decided from follow.  Where nothing is cancelled either, the engine     *)
(* implements TaskProtocol (Phases).                                       *)
(*                                                                         *)
(* The last part needs no such order: a single action whose plans ask for  *)
(* no more is planned once, in every environment.  What leads a task to a  *)
(* round, handlers and screenshots on their way, is counted against the    *)
(* rounds it had (Shots).                                                  *)
(***************************************************************************)
EXTENDS TaskQuiesceProofs, TaskRefinement, FiniteSetTheorems

\* Answers come one at a time.
Orderly ==
    /\ \A p \in Plans : p.work <= 1
    /\ Budget["duplicate"] = 0
    /\ Budget["message"] <= 1

\* Where a handler is before its plan is being carried out, and after.
Early == {"create", "start", "request", "request_check", "request_send",
          "screen", "iterate", "ask_ai", "ai", "plan", "asked", "wait",
          "created", "dispatch"}

Late == {"send", "record", "recorded", "result", "count", "decide"}

\* A handler that brings the reply its task waits for.
IsReply(h) == h.pc = "message" /\ h.seen = "WAITING_FOR_USER"

\* Handler h may still ask the device for something for task t.
Begins(h, t) == h.task = t /\ (h.pc \in Early \/ IsReply(h))
Drives(h, t) == h.task = t /\ (h.pc \in Early \cup Late \/ IsReply(h))

\* Nothing is asked of the device for t; nothing carries t on, but perhaps j.
NoScreen(t) == \A r \in RequestIds : captures[r] # t
NoOutcome(t) == \A a \in executing : action[a].task # t
OnlyBy(j, t) ==
    /\ NoScreen(t) /\ NoOutcome(t)
    /\ \A i \in Jobs \ {j} : ~Drives(job[i], t)
Free(t) ==
    /\ NoScreen(t) /\ NoOutcome(t)
    /\ \A j \in Jobs : ~Drives(job[j], t)

\* One thing at a time carries t on.
OneCarrier(t) ==
    /\ \A j \in Jobs : Drives(job[j], t) => OnlyBy(j, t)
    /\ NoScreen(t) \/ NoOutcome(t)
    /\ \A q, r \in RequestIds : captures[q] = t /\ captures[r] = t => q = r
    /\ \A a, b \in executing : action[a].task = t /\ action[b].task = t => a = b

\* A task not yet created, or that a message may resume.
Rests(t) ==
    \/ status[t] = "NONE"
    \/ status[t] = "WAITING_FOR_USER" /\ budget["message"] > 0

\* The pending key of a request names the task it was made for.
KeysAgree ==
    /\ \A r \in RequestIds :
          captures[r] # None => screenPending[r] \in {captures[r], None}
    /\ \A j \in Jobs :
          At(j, "request_send") => screenPending[job[j].req] \in {T(j), None}

\* A dispatch loop sends one action.
OneToSend ==
    \A j \in Jobs :
        /\ \A a, b \in job[j].todo : a = b
        /\ At(j, "send") => job[j].todo = {}

\* The invariant.
Order ==
    /\ IInv
    /\ budget["duplicate"] = 0 /\ budget["message"] <= 1
    /\ \A t \in Tasks : OneCarrier(t) /\ (Rests(t) => Free(t))
    /\ KeysAgree /\ OneToSend

------------------------------------------------------------------------------
\* Steps that hand a task on to nobody.

\* Handlers other than j stay as they are, and no new request is made for t.
Untouched(j, t) ==
    /\ \A i \in Jobs \ {j} : job'[i] = job[i]
    /\ \A r \in RequestIds : captures'[r] = t => captures[r] = t
    /\ \A a \in executing' : action'[a].task = t =>
          a \in executing /\ action[a].task = t

\* If j alone may carry t on before such a step, then after it too.
LEMMA OnlyByStays ==
    ASSUME NEW j \in Jobs, NEW t, Untouched(j, t), OnlyBy(j, t)
    PROVE  OnlyBy(j, t)' /\ OneCarrier(t)'
BY DEF Untouched, OnlyBy, OneCarrier, NoScreen, NoOutcome

\* What carries t on stays, or is gone.
LEMMA CarriersStay ==
    ASSUME NEW j \in Jobs, NEW t, Untouched(j, t),
           Drives(job'[j], t) => Drives(job[j], t), OneCarrier(t)
    PROVE  OneCarrier(t)' /\ (Free(t) => Free(t)')
<1>1. \A i \in Jobs : Drives(job'[i], t) => Drives(job[i], t)
  BY DEF Untouched
<1>2. ASSUME NEW i \in Jobs, Drives(job'[i], t) PROVE OnlyBy(i, t)'
  BY <1>1, <1>2 DEF Untouched, OneCarrier, OnlyBy, NoScreen, NoOutcome
<1>3. NoScreen(t)' \/ NoOutcome(t)'
  BY DEF Untouched, OneCarrier, NoScreen, NoOutcome
<1>4. Free(t) => Free(t)'
  BY <1>1 DEF Free, Untouched, NoScreen, NoOutcome
<1>. QED
  BY <1>2, <1>3, <1>4 DEF OneCarrier, Untouched

\* A free task is carried on by nobody but any handler one likes.
LEMMA FreeOnly ==
    ASSUME NEW j \in Jobs, NEW t, Free(t)
    PROVE  OnlyBy(j, t)
BY DEF Free, OnlyBy

------------------------------------------------------------------------------
\* Plain steps of a handler: it goes on, or ends, and asks for nothing.

\* What the handler is after such a step.
PlainNext(j, h) ==
    /\ h.pc \notin {"request_send", "screen", "ask_ai", "send"}
    /\ h.pc \in {"request_check", "iterate"} => h.iter = iteration[T(j)]
    /\ h.pc = "iterate" => job[j].pc = "screen"
    /\ h.pc = "dispatch" => status'[T(j)] = "WAITING_FOR_ACTION"
    /\ h.pc = "decide" =>
          (h.ok <=> \A b \in Batch(h.act) : action[b].status = "SUCCEEDED")
    /\ h.todo \subseteq job[j].todo
    /\ \A t \in Tasks : Drives(h, t) => Drives(job[j], t)
    /\ \A t \in completeAfter : Begins(h, t) => Begins(job[j], t)

\* What it does to task t.
PlainChange(j, t) ==
    status'[t] # status[t] =>
        \/ status'[t] \in Terminal
        \/ /\ Begins(job[j], t)
           /\ status'[t] # "NONE"
           /\ status'[t] = "WAITING_FOR_USER" => ~Drives(job'[j], t)

Plain(j) ==
    /\ Moved(j, job'[j])
    /\ PlainNext(j, job'[j])
    /\ \A t \in Tasks : PlainChange(j, t)
    /\ \A a \in ActionIds :
          action'[a] # action[a] => Drives(job[j], action'[a].task)
    /\ job'[j].pc = "decide" => action' = action
    /\ \A r \in RequestIds : screenPending'[r] \in {screenPending[r], None}
    /\ iteration' = iteration /\ instruction' = instruction
    /\ completeAfter' \subseteq completeAfter
    /\ captures' = captures /\ executing' = executing
    /\ budget'["message"] = budget["message"]
    /\ budget'["duplicate"] = budget["duplicate"]

\* No new request is made in a step that leaves the device's alone.
LEMMA AsksNothing ==
    ASSUME IInv, RowsAdvance, NEW j \in Jobs, NEW h, Moved(j, h), NEW t,
           captures' = captures, executing' \subseteq executing
    PROVE  Untouched(j, t)
<1>1. \A a \in executing : a \in ActionIds /\ action'[a].task = action[a].task
  BY DEF IInv, TypeOK, SentBeforeExecuted, RowsAdvance, Recorded
<1>. QED
  BY <1>1 DEF Untouched, Moved

\* A plain step keeps the invariant.
LEMMA PlainOrder ==
    ASSUME Order, [Next]_vars, NEW j \in Jobs, Plain(j)
    PROVE  Order'
<1>. DEFINE h == job'[j]
<1>1. IInv' /\ RowsAdvance
  BY NextInv, NextAdvances DEF Order
<1>2. Moved(j, h) /\ PlainNext(j, h)
  BY DEF Plain
<1>3. ASSUME NEW t \in Tasks PROVE OneCarrier(t)' /\ (Rests(t) => Free(t))'
  <2>1. Untouched(j, t)
    BY <1>1, <1>2, AsksNothing DEF Order, Plain
  <2>2. OneCarrier(t)' /\ (Free(t) => Free(t)')
    BY <1>2, <2>1, CarriersStay DEF Order, PlainNext
  <2>3. CASE status'[t] = status[t]
    BY <2>2, <2>3 DEF Order, Rests, Plain
  <2>4. CASE status'[t] # status[t]
    <3>1. ASSUME Rests(t)' PROVE Begins(job[j], t) /\ ~Drives(job'[j], t)
      BY <2>4, <3>1 DEF Rests, Plain, PlainChange, Terminal
    <3>2. ASSUME Begins(job[j], t), ~Drives(job'[j], t) PROVE Free(t)'
      <4>1. OnlyBy(j, t)
        BY <3>2 DEF Order, OneCarrier, Begins, Drives
      <4>. QED
        BY <2>1, <3>2, <4>1, OnlyByStays DEF OnlyBy, Free
    <3>. QED
      BY <2>2, <3>1, <3>2
  <2>. QED
    BY <2>3, <2>4
<1>4. KeysAgree'
  <2>1. \A r \in RequestIds : screenPending'[r] \in {screenPending[r], None}
    BY DEF Plain
  <2>2. \A r \in RequestIds : captures'[r] # None =>
           screenPending'[r] \in {captures'[r], None}
    BY <2>1 DEF Plain, Order, KeysAgree
  <2>3. \A i \in Jobs : At(i, "request_send")' =>
           i # j /\ At(i, "request_send") /\ job'[i] = job[i]
                 /\ job[i].req \in RequestIds
    BY <1>2 DEF Moved, PlainNext, At, Order, IInv, WellFormed, HandlerOK
  <2>4. \A i \in Jobs : At(i, "request_send")' =>
           screenPending'[job'[i].req] \in {job'[i].task, None}
    BY <2>1, <2>3 DEF Order, KeysAgree, T
  <2>. QED
    BY <2>2, <2>4 DEF KeysAgree, T
<1>5. OneToSend'
  BY <1>2 DEF OneToSend, Order, Moved, PlainNext, At
<1>. QED
  BY <1>1, <1>3, <1>4, <1>5 DEF Order, Plain

------------------------------------------------------------------------------
\* The moves of plain steps.

\* The handler ends.
LEMMA ReturnPlain ==
    ASSUME IInv, NEW j \in Jobs, Return(j) \/ ReturnCleared(j)
    PROVE  Moved(j, job'[j]) /\ PlainNext(j, job'[j]) /\ job'[j] = Idle
<1>1. Moved(j, Idle)
  BY ReturnMoves DEF IInv
<1>2. job'[j] = Idle
  BY <1>1 DEF Moved
<1>3. /\ Idle.pc = "idle" /\ Idle.todo = {}
      /\ \A t \in Tasks : ~Drives(Idle, t) /\ ~Begins(Idle, t)
  BY TaskEngineAssumption DEF Idle, Drives, Begins
<1>4. PlainNext(j, Idle)
  BY <1>3 DEF PlainNext, IInv, TypeOK
<1>. QED
  BY <1>1, <1>2, <1>4

\* The handler awaits something at p.
LEMMA AwaitPlain ==
    ASSUME IInv, NEW j \in Jobs, NEW p \in PC, Await(j, p),
           p \notin {"idle", "request_send", "screen", "ask_ai", "send",
                     "request_check", "iterate", "decide", "message"},
           p = "dispatch" => status'[T(j)] = "WAITING_FOR_ACTION",
           p \in Early => job[j].pc \in Early,
           p \in Late => job[j].pc \in Early \cup Late
    PROVE  Moved(j, job'[j]) /\ PlainNext(j, job'[j]) /\ job'[j].pc = p
<1>. DEFINE h == [job[j] EXCEPT !.pc = p]
<1>1. Moved(j, h)
  BY AwaitMoves DEF IInv
<1>2. job[j] \in Job
  BY DEF IInv, TypeOK
<1>3. job'[j] = h
  BY <1>1 DEF Moved
<1>4. h.pc = p /\ h.task = job[j].task /\ h.todo = job[j].todo
  BY <1>2 DEF Job
<1>. HIDE DEF h
<1>5. \A t \in Tasks : /\ Drives(h, t) => Drives(job[j], t)
                       /\ Begins(h, t) => Begins(job[j], t)
  BY <1>4 DEF Drives, Begins, IsReply
<1>6. PlainNext(j, h)
  BY <1>4, <1>5 DEF PlainNext, IInv, TypeOK
<1>. QED
  BY <1>1, <1>3, <1>4, <1>6

\* The handler awaits a read of the task at p.
LEMMA ReadPlain ==
    ASSUME IInv, NEW j \in Jobs, NEW p \in PC, AwaitTask(j, p), T(j) \in Tasks,
           p \notin {"idle", "request_send", "screen", "ask_ai", "send",
                     "dispatch", "decide", "message"},
           p \in Early \cup Late => Drives(job[j], T(j)),
           p \in Early => Begins(job[j], T(j)) \/ T(j) \notin completeAfter,
           p = "iterate" => job[j].pc = "screen"
    PROVE  /\ Moved(j, job'[j]) /\ PlainNext(j, job'[j])
           /\ job'[j].pc = p /\ job'[j].task = T(j)
<1>. DEFINE h == Read(j, p)
<1>1. Moved(j, h)
  BY AwaitTaskMoves DEF IInv
<1>2. job[j] \in Job
  BY DEF IInv, TypeOK
<1>3. job'[j] = h
  BY <1>1 DEF Moved
<1>4. /\ h.pc = p /\ h.task = T(j) /\ h.todo = job[j].todo
      /\ h.iter = iteration[T(j)]
  BY <1>2 DEF Job, Read, T
<1>. HIDE DEF h
<1>5. \A t \in Tasks : /\ Drives(h, t) => Drives(job[j], t)
                       /\ t \in completeAfter /\ Begins(h, t) => Begins(job[j], t)
  BY <1>4 DEF Drives, Begins, IsReply
<1>6. PlainNext(j, h)
  BY <1>4, <1>5 DEF PlainNext, IInv, TypeOK
<1>. QED
  BY <1>1, <1>3, <1>4, <1>6

\* What a step does besides, where it touches no row of an action, sets no
\* pending key and leaves the device alone.
Aside ==
    /\ action' = action /\ iteration' = iteration /\ instruction' = instruction
    /\ screenPending' = screenPending /\ completeAfter' \subseteq completeAfter
    /\ captures' = captures /\ executing' = executing
    /\ budget'["message"] = budget["message"]
    /\ budget'["duplicate"] = budget["duplicate"]

\* The actions after which the handler is over.
LEMMA ReturnsArePlain ==
    ASSUME IInv, NEW j \in Jobs,
           \/ RequestTerminal(j) \/ RequestSkipped(j) \/ Close(j)
           \/ ScreenTerminal(j) \/ IterateTerminal(j) \/ IterateSkipped(j)
           \/ LeaveCycle(j) \/ ResultTerminal(j) \/ BatchUnfinished(j)
           \/ Reject(j)
    PROVE  Plain(j)
<1>1. Return(j) \/ ReturnCleared(j)
  BY DEF RequestTerminal, RequestSkipped, Close, ScreenTerminal,
         IterateTerminal, IterateSkipped, LeaveCycle, ResultTerminal,
         BatchUnfinished, Reject
<1>2. Aside /\ status' = status
  BY DEF RequestTerminal, RequestSkipped, Close, ScreenTerminal,
         IterateTerminal, IterateSkipped, LeaveCycle, ResultTerminal,
         BatchUnfinished, Reject, Spend, Aside, rows, pending, device, IInv,
         TypeOK, Trouble
<1>3. Moved(j, job'[j]) /\ PlainNext(j, job'[j]) /\ job'[j] = Idle
  BY <1>1, ReturnPlain
<1>. QED
  BY <1>2, <1>3 DEF Plain, PlainChange, Aside

\* The actions that only read a task row.
LEMMA ReadsArePlain ==
    ASSUME IInv, NEW j \in Jobs,
           \/ Start(j) \/ Request(j) \/ ScreenDelivered(j) \/ ResultRecorded(j)
           \/ DecideReplans(j) \/ Waited(j) \/ MessageResumes(j)
    PROVE  Plain(j)
<1>1. T(j) \in Tasks
  BY DEF Start, Request, ScreenDelivered, ResultRecorded, DecideReplans,
         Waited, MessageResumes, At, T, IInv, WellFormed, HandlerOK
<1>2. Aside /\ status' = status
  BY DEF Start, Request, ScreenDelivered, ResultRecorded, DecideReplans,
         Waited, MessageResumes, Aside, rows, pending, device
<1>3. Moved(j, job'[j]) /\ PlainNext(j, job'[j]) /\ job'[j].pc # "decide"
  <2>. USE <1>1, ReadPlain DEF At, T, PC, Early, Late, Drives, Begins, IsReply
  <2>1. CASE Start(j)
    BY <2>1 DEF Start
  <2>2. CASE Request(j)
    BY <2>2 DEF Request
  <2>3. CASE ScreenDelivered(j)
    BY <2>3 DEF ScreenDelivered
  <2>4. CASE ResultRecorded(j)
    BY <2>4 DEF ResultRecorded
  <2>5. CASE DecideReplans(j)
    BY <2>5 DEF DecideReplans
  <2>6. CASE Waited(j)
    BY <2>6 DEF Waited
  <2>7. CASE MessageResumes(j)
    BY <2>7 DEF MessageResumes
  <2>. QED
    BY <2>1, <2>2, <2>3, <2>4, <2>5, <2>6, <2>7
<1>. QED
  BY <1>2, <1>3 DEF Plain, PlainChange, Aside

\* The status a plain step writes.
LEMMA StatusPlain ==
    ASSUME IInv, NEW j \in Jobs, NEW s, SetStatus(T(j), s),
           \/ s \in Terminal
           \/ /\ Begins(job[j], T(j))
              /\ s # "NONE"
              /\ s = "WAITING_FOR_USER" => ~Drives(job'[j], T(j))
    PROVE  \A t \in Tasks : PlainChange(j, t)
BY DEF SetStatus, PlainChange, IInv, TypeOK

\* The actions that await something else and write no status.
LEMMA AwaitsArePlain ==
    ASSUME IInv, NEW j \in Jobs,
           \/ AskAi(j) \/ AiFailed(j) \/ AiAnswers(j)
           \/ \E p \in Plans : PlanReplans(j, p)
    PROVE  Plain(j)
<1>1. Aside /\ status' = status /\ T(j) \in Tasks
  BY DEF AskAi, AiFailed, AiAnswers, PlanReplans, Planned, Aside, rows, pending,
         device, At, T, IInv, WellFormed, HandlerOK
<1>2. Moved(j, job'[j]) /\ PlainNext(j, job'[j]) /\ job'[j].pc # "decide"
  <2>. USE <1>1, AwaitPlain, ReadPlain DEF At, T, PC, Early, Late, Drives, Begins
  <2>1. CASE AskAi(j)
    BY <2>1 DEF AskAi
  <2>2. CASE AiFailed(j)
    BY <2>2 DEF AiFailed
  <2>3. CASE AiAnswers(j)
    BY <2>3 DEF AiAnswers
  <2>4. CASE \E p \in Plans : PlanReplans(j, p)
    BY <2>4 DEF PlanReplans, Planned
  <2>. QED
    BY <2>1, <2>2, <2>3, <2>4
<1>. QED
  BY <1>1, <1>2 DEF Plain, PlainChange, Aside

\* The actions that end the task and await the write.
LEMMA EndsArePlain ==
    ASSUME IInv, NEW j \in Jobs,
           \/ RequestExhausted(j) \/ RequestUnsent(j) \/ AiFails(j)
           \/ SendFails(j) \/ DecideMarked(j) \/ DecideEnds(j)
           \/ CancelTask(j) /\ job[j].seen \notin Terminal
           \/ \E p \in Plans : PlanCompletes(j, p) \/ PlanFails(j, p)
    PROVE  Plain(j)
<1>. USE DEF RequestExhausted, RequestUnsent, AiFails, SendFails, DecideMarked,
             DecideEnds, CancelTask, PlanCompletes, PlanFails, Planned, FailTask,
             CompleteTask
<1>1. PICK p \in {"close", "ai_failed"} : Await(j, p)
  OBVIOUS
<1>2. PICK s \in Terminal : SetStatus(T(j), s)
  BY DEF Terminal
<1>3. /\ action' = action /\ iteration' = iteration /\ instruction' = instruction
      /\ \A r \in RequestIds : screenPending'[r] \in {screenPending[r], None}
      /\ completeAfter' \subseteq completeAfter
      /\ captures' = captures /\ executing' = executing /\ budget' = budget
  <2>1. \A r \in RequestIds : screenPending'[r] \in {screenPending[r], None}
    BY DEF IInv, TypeOK, pending
  <2>. QED
    BY <2>1 DEF pending, device
<1>4. Moved(j, job'[j]) /\ PlainNext(j, job'[j]) /\ job'[j].pc # "decide"
  BY <1>1, AwaitPlain DEF PC, Early, Late
<1>5. \A t \in Tasks : PlainChange(j, t)
  BY <1>2, StatusPlain
<1>. QED
  BY <1>3, <1>4, <1>5 DEF Plain

\* The other actions that write the status.
LEMMA WritesArePlain ==
    ASSUME IInv, NEW j \in Jobs,
           \/ StartTask(j) /\ job[j].seen # "CANCELLED"
           \/ UserAsked(j) \/ ActionsCreated(j)
           \/ \E p \in Plans : PlanAwaitsUser(j, p)
    PROVE  Plain(j)
<1>. USE DEF StartTask, UserAsked, ActionsCreated, PlanAwaitsUser, Planned
<1>1. Aside /\ T(j) \in Tasks
  BY DEF Aside, pending, device, At, T, IInv, WellFormed, HandlerOK
<1>2. PICK p, s : /\ Await(j, p) /\ SetStatus(T(j), s)
                  /\ <<p, s>> \in {<<"request", "RUNNING">>,
                                   <<"return", "WAITING_FOR_USER">>,
                                   <<"dispatch", "WAITING_FOR_ACTION">>}
  OBVIOUS
<1>3. Begins(job[j], T(j))
  BY DEF Begins, Early, At, T
<1>4. status'[T(j)] = s
  BY <1>1, <1>2 DEF SetStatus, IInv, TypeOK
<1>5. Moved(j, job'[j]) /\ PlainNext(j, job'[j]) /\ job'[j].pc = p
  BY <1>2, <1>3, <1>4, AwaitPlain DEF PC, Early, Late, Begins, IsReply, At
<1>6. \A t \in Tasks : PlainChange(j, t)
  BY <1>2, <1>3, <1>5, StatusPlain DEF Drives, Early, Late, IsReply
<1>. QED
  BY <1>1, <1>2, <1>5, <1>6 DEF Plain, Aside

\* startTask and cancel find the task cancelled or over.
LEMMA GivesUpPlain ==
    ASSUME IInv, NEW j \in Jobs,
           \/ StartTask(j) /\ job[j].seen = "CANCELLED"
           \/ CancelTask(j) /\ job[j].seen \in Terminal
    PROVE  Plain(j)
<1>1. Return(j) /\ Aside /\ status' = status
  BY DEF StartTask, CancelTask, Aside, pending, device
<1>2. Moved(j, job'[j]) /\ PlainNext(j, job'[j]) /\ job'[j] = Idle
  BY <1>1, ReturnPlain
<1>. QED
  BY <1>1, <1>2 DEF Plain, PlainChange, Aside, Idle

\* The two queries of handleActionResult: only locals change.
LEMMA CountsArePlain ==
    ASSUME IInv, NEW j \in Jobs, CountUnanswered(j) \/ BatchFinished(j)
    PROVE  Plain(j)
<1>1. Aside /\ status' = status
  BY DEF CountUnanswered, BatchFinished, Aside, rows, pending, device
<1>2. job[j] \in Job /\ job \in [Jobs -> Job] /\ T(j) \in Tasks
  BY DEF IInv, TypeOK, WellFormed, HandlerOK, CountUnanswered, BatchFinished,
         At, T
<1>3. /\ job' \in [Jobs -> Job] /\ \A i \in Jobs \ {j} : job'[i] = job[i]
      /\ job'[j].task = T(j) /\ job'[j].todo = job[j].todo
      /\ job'[j].act = job[j].act
      /\ job[j].pc \in {"result", "count"} /\ job'[j].pc \in {"count", "decide"}
  <2>1. job' \in [Jobs -> Job]
    BY NextInv DEF Next, Resume, IInv, TypeOK
  <2>. QED
    BY <1>2, <2>1 DEF CountUnanswered, BatchFinished, At, T, Job
<1>4. job'[j].pc = "decide" =>
         (job'[j].ok <=> \A b \in Batch(job[j].act) :
                            action[b].status = "SUCCEEDED")
  <2>1. CASE CountUnanswered(j)
    BY <1>2, <2>1 DEF CountUnanswered, Job
  <2>2. CASE BatchFinished(j)
    <3>. DEFINE ok == \A b \in Batch(job[j].act) : action[b].status = "SUCCEEDED"
    <3>1. job'[j].ok = ok
      BY <1>2, <2>2 DEF BatchFinished, Job
    <3>. QED
      BY <3>1
  <2>. QED
    BY <2>1, <2>2
<1>5. Moved(j, job'[j])
  BY <1>3 DEF Moved
<1>6. PlainNext(j, job'[j])
  BY <1>3, <1>4
  DEF PlainNext, Drives, Begins, IsReply, Early, Late, T, IInv, TypeOK
<1>. QED
  BY <1>1, <1>5, <1>6 DEF Plain, PlainChange, Aside

\* A plan that stores a control action, and recordResult, write rows of their
\* task.
LEMMA RowsArePlain ==
    ASSUME IInv, NEW j \in Jobs,
           \/ Record(j)
           \/ \E p \in Plans : PlanAsksUser(j, p) \/ PlanWaits(j, p)
    PROVE  Plain(j)
<1>. USE DEF Record, PlanAsksUser, PlanWaits, Planned
<1>1. /\ T(j) \in Tasks /\ Drives(job[j], T(j))
      /\ job[j].pc \in {"plan", "record"}
  BY DEF At, T, Drives, Early, Late, IInv, WellFormed, HandlerOK
<1>2. PICK p \in {"recorded", "asked", "wait"} :
          Await(j, p) /\ (p # "recorded" => job[j].pc = "plan")
  BY DEF At
<1>3. Moved(j, job'[j]) /\ PlainNext(j, job'[j]) /\ job'[j].pc = p
  BY <1>1, <1>2, AwaitPlain DEF PC, Early, Late
<1>4. ASSUME NEW a \in ActionIds, action'[a] # action[a]
      PROVE  action'[a].task = T(j)
  <2>1. CASE Record(j)
    <3>1. /\ a = job[j].act /\ action[a].task = T(j)
      BY <1>4, <2>1 DEF At, IInv, TypeOK, WellFormed, HandlerOK, WithAction, T
    <3>2. action'[a].task = action[a].task
      BY <2>1 DEF IInv, TypeOK, ActionRow
    <3>. QED
      BY <3>1, <3>2
  <2>2. CASE ~Record(j)
    <3>1. PICK new \in SUBSET Unused : CreateActions(new, T(j), job[j].iter)
      BY <2>2 DEF FreshRows
    <3>2. /\ \A b \in new : action'[b].task = T(j)
          /\ \A b \in ActionIds \ new : action'[b] = action[b]
      BY <1>1, <3>1, CreateRows
    <3>. QED
      BY <1>4, <3>2
  <2>. QED
    BY <2>1, <2>2
<1>5. /\ iteration' = iteration /\ instruction' = instruction
      /\ screenPending' = screenPending /\ completeAfter' = completeAfter
      /\ captures' = captures /\ executing' = executing
      /\ budget' = budget /\ status' = status
  BY DEF pending, device
<1>6. \A r \in RequestIds : screenPending'[r] \in {screenPending[r], None}
  BY <1>5
<1>. QED
  BY <1>1, <1>2, <1>3, <1>4, <1>5, <1>6 DEF Plain, PlainChange

\* cancel begins with a read of the task.
LEMMA CancelIsPlain ==
    ASSUME IInv, NEW j \in Jobs, NEW t \in Tasks, Cancel(j, t)
    PROVE  Plain(j)
<1>1. Aside /\ status' = status
  BY DEF Cancel, Spend, Aside, rows, pending, device, IInv, TypeOK, Trouble
<1>. DEFINE h == Begun("cancel", t)
<1>2. Moved(j, h) /\ job'[j] = h
  BY BeginMoves DEF Cancel, IInv, PC, Moved
<1>3. h.pc = "cancel" /\ h.todo = {}
  BY DEF Begun, Idle
<1>4. PlainNext(j, h)
  BY <1>3 DEF PlainNext, Drives, Begins, IsReply, Early, Late
<1>. QED
  BY <1>1, <1>2, <1>3, <1>4 DEF Plain, PlainChange, Aside

\* All steps of handlers but these are plain.
LEMMA OthersArePlain ==
    ASSUME IInv, NEW j \in Jobs,
           \/ Reject(j) \/ \E t \in Tasks : Cancel(j, t)
           \/ /\ Resume(j)
              /\ ~RequestScreen(j) /\ ~RequestSent(j) /\ ~Iterate(j)
              /\ ~Dispatch(j) /\ ~Send(j) /\ ~MessageIgnored(j)
              /\ \A p \in Plans : ~PlanExecutes(j, p)
    PROVE  Plain(j)
<1>1. CASE Reject(j) \/ \E t \in Tasks : Cancel(j, t)
  BY <1>1, ReturnsArePlain, CancelIsPlain
<1>2. CASE Plan(j) /\ \A p \in Plans : ~PlanExecutes(j, p)
  BY <1>2, AwaitsArePlain, EndsArePlain, WritesArePlain, RowsArePlain DEF Plan
<1>3. CASE StartTask(j) \/ CancelTask(j)
  BY <1>3, GivesUpPlain, EndsArePlain, WritesArePlain
<1>4. CASE /\ Resume(j) /\ ~Plan(j) /\ ~StartTask(j) /\ ~CancelTask(j)
           /\ ~RequestScreen(j) /\ ~RequestSent(j) /\ ~Iterate(j)
           /\ ~Dispatch(j) /\ ~Send(j) /\ ~MessageIgnored(j)
  BY <1>4, ReturnsArePlain, ReadsArePlain, AwaitsArePlain, EndsArePlain,
     WritesArePlain, CountsArePlain, RowsArePlain
  DEF Resume
<1>. QED
  BY <1>1, <1>2, <1>3, <1>4

------------------------------------------------------------------------------
\* Steps that begin to carry a task on, or go on with it.

\* Handler j goes on with its task or takes up one that is free.
LEMMA OrderFrom ==
    ASSUME Order, [Next]_vars, NEW j \in Jobs, NEW h, Moved(j, h),
           captures' = captures, executing' = executing,
           \A t \in Tasks : Drives(h, t) => Drives(job[j], t) \/ Free(t),
           \A t \in Tasks : Rests(t)' => Rests(t) /\ ~Drives(h, t),
           budget'["duplicate"] = 0, budget'["message"] <= 1,
           KeysAgree', OneToSend'
    PROVE  Order'
<1>1. IInv' /\ RowsAdvance
  BY NextInv, NextAdvances DEF Order
<1>2. ASSUME NEW t \in Tasks PROVE OneCarrier(t)' /\ (Rests(t) => Free(t))'
  <2>1. Untouched(j, t) /\ job'[j] = h
    BY <1>1, AsksNothing DEF Order, Moved
  <2>2. OneCarrier(t)'
    <3>1. CASE Drives(h, t)
      <4>1. OnlyBy(j, t)
        BY <3>1, FreeOnly DEF Order, OneCarrier
      <4>. QED
        BY <2>1, <4>1, OnlyByStays
    <3>2. CASE ~Drives(h, t)
      BY <2>1, <3>2, CarriersStay DEF Order
    <3>. QED
      BY <3>1, <3>2
  <2>3. Rests(t)' => Free(t)'
    BY <2>1, CarriersStay DEF Order
  <2>. QED
    BY <2>2, <2>3
<1>. QED
  BY <1>1, <1>2 DEF Order

\* The pending keys still agree after a move that sets none.
LEMMA KeysRemain ==
    ASSUME IInv, KeysAgree, NEW j \in Jobs, NEW h, Moved(j, h),
           h.pc # "request_send",
           \A r \in RequestIds : captures'[r] \in {captures[r], None},
           \A r \in RequestIds : screenPending'[r] \in {screenPending[r], None}
    PROVE  KeysAgree'
<1>1. \A r \in RequestIds : captures'[r] # None =>
         screenPending'[r] \in {captures'[r], None}
  BY DEF KeysAgree
<1>2. \A i \in Jobs : At(i, "request_send")' =>
         i # j /\ At(i, "request_send") /\ job'[i] = job[i]
               /\ job[i].req \in RequestIds
  BY DEF Moved, At, IInv, WellFormed, HandlerOK
<1>3. \A i \in Jobs : At(i, "request_send")' =>
         screenPending'[job'[i].req] \in {job'[i].task, None}
  BY <1>2 DEF KeysAgree, T
<1>. QED
  BY <1>1, <1>3 DEF KeysAgree, T

\* The same where the order is kept.
LEMMA KeysStay ==
    ASSUME Order, NEW j \in Jobs, NEW h, Moved(j, h), h.pc # "request_send",
           \A r \in RequestIds : captures'[r] \in {captures[r], None},
           \A r \in RequestIds : screenPending'[r] \in {screenPending[r], None}
    PROVE  KeysAgree'
BY KeysRemain DEF Order

\* A new request gets an id of its own.
LEMMA RequestScreenMoves ==
    ASSUME IInv, NEW j \in Jobs, RequestScreen(j)
    PROVE  \E r \in FreshRequests :
              LET h == [job[j] EXCEPT !.pc = "request_send", !.req = r]
              IN  /\ Moved(j, h) /\ h.pc = "request_send" /\ h.req = r
                  /\ h.task = T(j) /\ h.iter = job[j].iter
                  /\ h.todo = job[j].todo
                  /\ screenPending' = [screenPending EXCEPT ![r] = T(j)]
<1>1. PICK r \in FreshRequests :
          /\ screenPending' = [screenPending EXCEPT ![r] = T(j)]
          /\ job' = [job EXCEPT ![j].pc = "request_send", ![j].req = r]
  BY DEF RequestScreen
<1>. DEFINE h == [job[j] EXCEPT !.pc = "request_send", !.req = r]
<1>2. job[j] \in Job /\ job \in [Jobs -> Job] /\ r \in RequestIds
  BY DEF IInv, TypeOK, FreshRequests
<1>3. job' = [job EXCEPT ![j] = h]
  BY <1>1, <1>2
<1>4. /\ h \in Job /\ h.pc = "request_send" /\ h.req = r /\ h.task = T(j)
      /\ h.iter = job[j].iter /\ h.todo = job[j].todo
  BY <1>2 DEF Job, PC, T
<1>5. Moved(j, h)
  BY <1>3, <1>4, MoveTo DEF IInv
<1>. QED
  BY <1>1, <1>4, <1>5

\* Its key names its task.
LEMMA RequestScreenKeys ==
    ASSUME IInv, KeysAgree, NEW j \in Jobs, RequestScreen(j)
    PROVE  KeysAgree'
<1>1. PICK r \in FreshRequests :
         /\ Moved(j, job'[j]) /\ job'[j].req = r /\ job'[j].task = T(j)
         /\ screenPending' = [screenPending EXCEPT ![r] = T(j)]
  BY RequestScreenMoves DEF Moved
<1>2. /\ r \in RequestIds /\ captures[r] = None
      /\ \A i \in Jobs : job[i].req # r
  BY DEF FreshRequests
<1>3. \A q \in RequestIds : captures'[q] # None =>
         screenPending'[q] \in {captures'[q], None}
  BY <1>1, <1>2 DEF RequestScreen, device, KeysAgree, IInv, TypeOK
<1>4. ASSUME NEW i \in Jobs, job'[i].pc = "request_send"
      PROVE  screenPending'[job'[i].req] \in {job'[i].task, None}
  <2>1. CASE i = j
    BY <1>1, <1>2, <2>1 DEF IInv, TypeOK
  <2>2. CASE i # j
    <3>1. job'[i] = job[i] /\ job[i].req # r /\ job[i].req \in RequestIds
      BY <1>1, <1>2, <1>4, <2>2 DEF Moved, IInv, WellFormed, HandlerOK
    <3>. QED
      BY <1>1, <1>4, <3>1 DEF KeysAgree, At, T, IInv, TypeOK
  <2>. QED
    BY <2>1, <2>2
<1>. QED
  BY <1>3, <1>4 DEF KeysAgree, At, T

\* It carries its task on as before.
LEMMA RequestScreenOrder ==
    ASSUME Order, NEW j \in Jobs, RequestScreen(j)
    PROVE  Order'
<1>. DEFINE h == job'[j]
<1>2. T(j) \in Tasks
  BY DEF Order, IInv, WellFormed, HandlerOK, RequestScreen, At, T
<1>4. /\ Moved(j, h) /\ h.pc = "request_send" /\ h.task = T(j)
      /\ h.todo = job[j].todo
  BY RequestScreenMoves DEF Order, IInv, Moved
<1>5. Moved(j, h)
  BY <1>4
<1>. HIDE DEF h
<1>6. KeysAgree'
  BY RequestScreenKeys DEF Order
<1>7. OneToSend'
  BY <1>4, <1>5 DEF Order, OneToSend, Moved, At
<1>8. \A t \in Tasks : Drives(h, t) => Drives(job[j], t)
  BY <1>4 DEF Drives, RequestScreen, At, T, Early, IsReply
<1>9. \A t \in Tasks : Rests(t)' => Rests(t) /\ ~Drives(h, t)
  <2>1. Drives(job[j], T(j))
    BY DEF Drives, RequestScreen, At, T, Early
  <2>2. \A t \in Tasks : Drives(h, t) => t = T(j)
    BY <1>4 DEF Drives
  <2>. QED
    BY <1>2, <2>1, <2>2
    DEF Rests, RequestScreen, SetStatus, Order, Free, IInv, TypeOK, device
<1>10. Next
  BY DEF Next, Resume
<1>. QED
  BY <1>5, <1>6, <1>7, <1>8, <1>9, <1>10, OrderFrom
  DEF RequestScreen, device, Order

\* runAiIteration takes the guard.
LEMMA IterateOrder ==
    ASSUME Order, NEW j \in Jobs, Iterate(j)
    PROVE  Order'
<1>1. /\ job' \in [Jobs -> Job] /\ \A i \in Jobs \ {j} : job'[i] = job[i]
      /\ job'[j].pc = "ask_ai" /\ job'[j].task = T(j)
      /\ job'[j].todo = job[j].todo /\ T(j) \in Tasks
  <2>1. Next
    BY DEF Next, Resume
  <2>2. job \in [Jobs -> Job] /\ job[j] \in Job /\ job' \in [Jobs -> Job]
    BY <2>1, NextInv DEF Order, IInv, TypeOK
  <2>. QED
    BY <2>2 DEF Iterate, Job, T, At, Order, IInv, WellFormed, HandlerOK
<1>. DEFINE h == job'[j]
<1>2. Moved(j, h)
  BY <1>1 DEF Moved
<1>3. Drives(job[j], T(j)) /\ \A t \in Tasks : Drives(h, t) => t = T(j)
  BY <1>1 DEF Drives, Iterate, At, T, Early
<1>4. KeysAgree'
  BY <1>1, <1>2, KeysStay DEF Iterate, pending, device
<1>5. OneToSend'
  BY <1>1 DEF Order, OneToSend, At
<1>6. \A t \in Tasks : Rests(t)' => Rests(t) /\ ~Drives(h, t)
  BY <1>1, <1>3 DEF Rests, Iterate, SetStatus, Order, Free, IInv, TypeOK
<1>. QED
  BY <1>2, <1>3, <1>4, <1>5, <1>6, OrderFrom
  DEF Iterate, pending, device, Order, Next, Resume

\* A batch of one action is to be sent.
LEMMA PlanExecutesOrder ==
    ASSUME Order, Orderly, NEW j \in Jobs, NEW p \in Plans, PlanExecutes(j, p)
    PROVE  Order'
<1>1. PICK new \in FreshRows(p.work) :
          job' = [job EXCEPT ![j].pc = "created", ![j].todo = new,
                             ![j].ok = SaysDone(p)]
  BY DEF PlanExecutes
<1>2. \A a, b \in new : a = b
  <2>1. p.work \in {0, 1} /\ new \subseteq ActionIds /\ Cardinality(new) = p.work
    BY <1>1, TaskEngineAssumption DEF Orderly, PlanSpace, FreshRows, Unused
  <2>2. IsFiniteSet(new)
    BY <2>1, FS_Subset, TaskEngineAssumption
  <2>3. new = {} \/ \E a : new = {a}
    BY <2>1, <2>2, FS_EmptySet, FS_Singleton
  <2>. QED
    BY <2>3
<1>3. Next
  BY DEF Next, Resume, Plan
<1>4. /\ job' \in [Jobs -> Job] /\ \A i \in Jobs \ {j} : job'[i] = job[i]
      /\ job'[j].pc = "created" /\ job'[j].task = T(j) /\ job'[j].todo = new
  <2>1. job \in [Jobs -> Job] /\ job[j] \in Job /\ job' \in [Jobs -> Job]
    BY <1>3, NextInv DEF Order, IInv, TypeOK
  <2>. QED
    BY <1>1, <2>1 DEF Job, T
<1>. DEFINE h == job'[j]
<1>5. Moved(j, h)
  BY <1>4 DEF Moved
<1>6. \A t \in Tasks : Drives(h, t) => Drives(job[j], t)
  BY <1>4 DEF Drives, PlanExecutes, Planned, At, T, Early
<1>7. KeysAgree'
  BY <1>4, <1>5, KeysStay DEF PlanExecutes, pending, device
<1>8. OneToSend'
  BY <1>2, <1>4 DEF Order, OneToSend, At
<1>9. \A t \in Tasks : Rests(t)' => Rests(t) /\ ~Drives(h, t)
  BY <1>6 DEF Rests, PlanExecutes, Order, Free
<1>. QED
  BY <1>3, <1>5, <1>6, <1>7, <1>8, <1>9, OrderFrom
  DEF PlanExecutes, pending, device, Order

\* The one action is marked.
LEMMA DispatchOrder ==
    ASSUME Order, NEW j \in Jobs, Dispatch(j)
    PROVE  Order'
<1>1. PICK a \in job[j].todo : MarkSent(j, a)
  BY DEF Dispatch
<1>. DEFINE h == [job[j] EXCEPT !.pc = "send", !.act = a,
                                !.todo = job[j].todo \ {a}]
<1>2. /\ Moved(j, h) /\ h.pc = "send" /\ h.todo = job[j].todo \ {a}
      /\ h.task = T(j)
  BY <1>1, MarkSentFacts DEF Order
<1>. HIDE DEF h
<1>3. job'[j] = h /\ h.todo = {}
  BY <1>2 DEF Moved, Order, OneToSend
<1>4. \A t \in Tasks : Drives(h, t) => Drives(job[j], t)
  BY <1>2 DEF Drives, Dispatch, At, T, Early
<1>5. KeysAgree'
  BY <1>2, KeysStay DEF Dispatch, device
<1>6. OneToSend'
  BY <1>2, <1>3 DEF Order, OneToSend, Moved, At
<1>7. \A t \in Tasks : Rests(t)' => Rests(t) /\ ~Drives(h, t)
  BY <1>4 DEF Rests, Dispatch, Order, Free
<1>. QED
  BY <1>2, <1>4, <1>5, <1>6, <1>7, OrderFrom
  DEF Dispatch, device, Order, Next, Resume

\* A new task is taken up by the handler that creates it.
LEMMA NewTaskOrder ==
    ASSUME Order, [Next]_vars, NEW j \in Jobs, NEW t \in Tasks, NewTask(j, t),
           UNCHANGED <<iteration, action, instruction, mode, pending, device,
                       budget>>
    PROVE  Order'
<1>. DEFINE h == [Idle EXCEPT !.pc = "create", !.task = t]
<1>1. h \in Job /\ h.pc = "create" /\ h.task = t /\ h.todo = {}
  BY DEF Job, Idle, PC, TaskStatus
<1>. HIDE DEF h
<1>2. Moved(j, h)
  BY <1>1, MoveTo DEF NewTask, Order, IInv, h
<1>3. \A u \in Tasks : Drives(h, u) => u = t
  BY <1>1 DEF Drives
<1>4. Free(t)
  BY DEF NewTask, Order, Rests
<1>5. KeysAgree'
  BY <1>1, <1>2, KeysStay DEF pending, device
<1>6. OneToSend'
  BY <1>1, <1>2 DEF Order, OneToSend, Moved, At
<1>7. \A u \in Tasks : Rests(u)' => Rests(u) /\ ~Drives(h, u)
  BY <1>3 DEF Rests, NewTask, SetStatus, Order, IInv, TypeOK
<1>. QED
  BY <1>2, <1>3, <1>4, <1>5, <1>6, <1>7, OrderFrom DEF device, Order

\* A message that is only stored.
LEMMA StoredIsPlain ==
    ASSUME IInv, NEW j \in Jobs, MessageIgnored(j), Return(j), UNCHANGED status
    PROVE  Plain(j)
<1>1. Moved(j, job'[j]) /\ PlainNext(j, job'[j]) /\ job'[j] = Idle
  BY ReturnPlain
<1>. QED
  BY <1>1 DEF MessageIgnored, Plain, PlainChange, pending, device, Idle

\* handleUserMessage becomes a task, or nothing.
LEMMA MessageIgnoredOrder ==
    ASSUME Order, NEW j \in Jobs, MessageIgnored(j)
    PROVE  Order'
<1>1. Next
  BY DEF Next, Resume
<1>2. CASE Return(j) /\ UNCHANGED status
  BY <1>1, <1>2, StoredIsPlain, PlainOrder DEF Order
<1>3. CASE \E t \in Tasks : NewTask(j, t)
  BY <1>1, <1>3, NewTaskOrder DEF MessageIgnored
<1>. QED
  BY <1>2, <1>3 DEF MessageIgnored

\* A message finds its task resting, or is no reply.
LEMMA MessageOrder ==
    ASSUME Order, NEW j \in Jobs, NEW t \in Tasks, Message(j, t)
    PROVE  Order'
<1>. DEFINE h == Begun("message", t)
<1>1. Moved(j, h)
  BY BeginMoves DEF Message, Order, IInv, PC
<1>2. h.pc = "message" /\ h.task = t /\ h.seen = status[t] /\ h.todo = {}
  BY DEF Begun, Idle
<1>. HIDE DEF h
<1>3. /\ budget["message"] > 0 /\ budget'["message"] = budget["message"] - 1
      /\ budget'["duplicate"] = budget["duplicate"]
  BY DEF Message, Spend, Order, IInv, TypeOK, Trouble
<1>4. budget["message"] = 1 /\ budget'["message"] = 0
  BY <1>3 DEF Order, IInv, TypeOK, Trouble
<1>5. \A u \in Tasks : Drives(h, u) => Free(u)
  BY <1>2, <1>4 DEF Drives, IsReply, Early, Late, Order, Rests
<1>6. KeysAgree'
  BY <1>1, <1>2, KeysStay DEF Message, pending, device
<1>7. OneToSend'
  BY <1>1, <1>2 DEF Order, OneToSend, Moved, At
<1>8. \A u \in Tasks : Rests(u)' => Rests(u) /\ ~Drives(h, u)
  BY <1>2, <1>4 DEF Rests, Drives, IsReply, Early, Late, Message, rows
<1>. QED
  BY <1>1, <1>3, <1>4, <1>5, <1>6, <1>7, <1>8, OrderFrom
  DEF Message, device, Order, Next

------------------------------------------------------------------------------
\* Steps that hand a task to the device, or take it back.

\* A sent request is its task's.
LEMMA RequestSentKeys ==
    ASSUME IInv, KeysAgree, NEW j \in Jobs, RequestSent(j)
    PROVE  KeysAgree'
<1>1. job[j].req \in RequestIds /\ screenPending[job[j].req] \in {T(j), None}
  BY DEF RequestSent, At, KeysAgree, IInv, WellFormed, HandlerOK
<1>2. Moved(j, Idle)
  BY ReturnMoves DEF RequestSent, IInv
<1>3. \A r \in RequestIds :
         captures'[r] = IF r = job[j].req THEN T(j) ELSE captures[r]
  BY <1>1 DEF RequestSent, IInv, TypeOK
<1>4. screenPending' = screenPending
  BY DEF RequestSent, pending
<1>5. \A r \in RequestIds : captures'[r] # None =>
         screenPending[r] \in {captures'[r], None}
  BY <1>1, <1>3 DEF KeysAgree
<1>6. \A i \in Jobs : job'[i].pc = "request_send" => job'[i] = job[i]
  BY <1>2 DEF Moved, Idle
<1>. QED
  BY <1>4, <1>5, <1>6 DEF KeysAgree, At, T

\* CAPTURE_SCREEN goes out.
LEMMA RequestSentOrder ==
    ASSUME Order, NEW j \in Jobs, RequestSent(j)
    PROVE  Order'
<1>1. IInv'
  BY NextInv DEF Order, Next, Resume
<1>2. PICK u \in Tasks, q \in RequestIds :
         /\ u = T(j) /\ q = job[j].req /\ Drives(job[j], u)
         /\ screenPending[q] \in {u, None}
  BY DEF RequestSent, At, T, Order, KeysAgree, IInv, WellFormed, HandlerOK,
         Drives, Early
<1>3. Moved(j, Idle) /\ \A t \in Tasks : ~Drives(Idle, t)
  BY ReturnMoves, TaskEngineAssumption DEF RequestSent, Order, IInv, Idle, Drives
<1>4. \A r \in RequestIds : captures'[r] = IF r = q THEN u ELSE captures[r]
  BY <1>2 DEF RequestSent, Order, IInv, TypeOK
<1>5. OnlyBy(j, u)
  BY <1>2 DEF Order, OneCarrier
<1>6. OneCarrier(u)'
  <2>1. NoOutcome(u)' /\ \A i \in Jobs : ~Drives(job'[i], u)
    BY <1>2, <1>3, <1>5 DEF OnlyBy, NoOutcome, Moved, RequestSent, rows
  <2>2. \A r \in RequestIds : captures'[r] = u => r = q
    BY <1>4, <1>5 DEF OnlyBy, NoScreen
  <2>. QED
    BY <2>1, <2>2 DEF OneCarrier, NoOutcome
<1>7. ASSUME NEW t \in Tasks, t # u
      PROVE  OneCarrier(t)' /\ (Free(t) => Free(t)')
  <2>1. Untouched(j, t)
    BY <1>3, <1>4, <1>7 DEF Untouched, Moved, RequestSent, rows
  <2>2. ~Drives(job'[j], t)
    BY <1>3 DEF Moved
  <2>. QED
    BY <1>7, <2>1, <2>2, CarriersStay DEF Order
<1>8. \A t \in Tasks : OneCarrier(t)' /\ (Rests(t)' => Free(t)')
  <2>1. \A t \in Tasks : Rests(t)' => Free(t)
    BY DEF Rests, RequestSent, rows, Order
  <2>2. ~Free(u)
    BY <1>2 DEF Free
  <2>. QED
    BY <1>6, <1>7, <2>1, <2>2
<1>9. KeysAgree'
  BY RequestSentKeys DEF Order
<1>10. OneToSend'
  BY <1>3 DEF Order, OneToSend, Moved, At, Idle
<1>. QED
  BY <1>1, <1>8, <1>9, <1>10 DEF Order, RequestSent

\* EXECUTE_ACTION goes out; there is no other action to mark.
LEMMA SendOrder ==
    ASSUME Order, NEW j \in Jobs, Send(j)
    PROVE  Order'
<1>1. IInv'
  BY NextInv DEF Order, Next, Resume
<1>2. PICK u \in Tasks, b \in ActionIds :
         /\ u = T(j) /\ b = job[j].act /\ Drives(job[j], u)
         /\ action[b].task = u
  BY DEF Send, At, T, Order, IInv, WellFormed, HandlerOK, WithAction, Drives,
         Late
<1>3. Return(j) /\ action' = action
  BY DEF Send, Order, OneToSend, MarkSent
<1>4. Moved(j, Idle) /\ \A t \in Tasks : ~Drives(Idle, t)
  BY <1>3, ReturnMoves, TaskEngineAssumption DEF Order, IInv, Idle, Drives
<1>5. executing' = executing \cup {b} /\ captures' = captures
  BY <1>2 DEF Send
<1>6. OnlyBy(j, u)
  BY <1>2 DEF Order, OneCarrier
<1>7. OneCarrier(u)'
  <2>1. NoScreen(u)' /\ \A i \in Jobs : ~Drives(job'[i], u)
    BY <1>2, <1>4, <1>5, <1>6 DEF OnlyBy, NoScreen, Moved
  <2>2. \A a \in executing' : action'[a].task = u => a = b
    BY <1>3, <1>5, <1>6 DEF OnlyBy, NoOutcome
  <2>. QED
    BY <2>1, <2>2 DEF OneCarrier, NoScreen
<1>8. ASSUME NEW t \in Tasks, t # u
      PROVE  OneCarrier(t)' /\ (Free(t) => Free(t)')
  <2>1. Untouched(j, t)
    BY <1>2, <1>3, <1>4, <1>5, <1>8 DEF Untouched, Moved
  <2>2. ~Drives(job'[j], t)
    BY <1>4 DEF Moved
  <2>. QED
    BY <1>8, <2>1, <2>2, CarriersStay DEF Order
<1>9. \A t \in Tasks : OneCarrier(t)' /\ (Rests(t)' => Free(t)')
  <2>1. \A t \in Tasks : Rests(t)' => Free(t)
    BY DEF Rests, Send, Order
  <2>2. ~Free(u)
    BY <1>2 DEF Free
  <2>. QED
    BY <1>7, <1>8, <2>1, <2>2
<1>10. KeysAgree'
  BY <1>4, <1>5, KeysStay DEF Send, pending, Idle
<1>11. OneToSend'
  BY <1>4 DEF Order, OneToSend, Moved, At, Idle
<1>. QED
  BY <1>1, <1>9, <1>10, <1>11 DEF Order, Send

\* Without duplicates an answer leaves the device.
LEMMA AnsweredOnce ==
    ASSUME Order, NEW r \in RequestIds, Answered(r)
    PROVE  captures' = [captures EXCEPT ![r] = None] /\ budget' = budget
BY DEF Answered, Spend, Order

\* An answer is taken for the task it was asked for.
LEMMA AnswersItsTask ==
    ASSUME Order, NEW r \in RequestIds, NEW echo, captures[r] # None,
           ResultTask(r, echo) # None
    PROVE  ResultTask(r, echo) = captures[r] /\ captures[r] \in Tasks
BY DEF ResultTask, Order, KeysAgree, IInv, TypeOK

\* The answer to request r is taken by handler j, which becomes h.
LEMMA AnswerOrder ==
    ASSUME Order, [Next]_vars, NEW j \in Jobs, NEW h, Moved(j, h),
           NEW r \in RequestIds, captures[r] \in Tasks, h.task = captures[r],
           captures' = [captures EXCEPT ![r] = None],
           executing' = executing, action' = action, budget' = budget,
           screenPending' = [screenPending EXCEPT ![r] = None],
           h.pc \in {"close", "screen"}, h.todo = {},
           \A t \in Tasks : Rests(t)' => Rests(t)
    PROVE  Order'
<1>0. PICK u \in Tasks : u = captures[r]
  OBVIOUS
<1>1. IInv'
  BY NextInv DEF Order
<1>2. \A q \in RequestIds : captures'[q] = IF q = r THEN None ELSE captures[q]
  BY DEF Order, IInv, TypeOK
<1>3. \A q \in RequestIds :
         screenPending'[q] = IF q = r THEN None ELSE screenPending[q]
  BY DEF Order, IInv, TypeOK
<1>4. \A t \in Tasks : Untouched(j, t)
  BY <1>2, TaskEngineAssumption DEF Untouched, Moved
<1>5. job'[j] = h /\ \A t \in Tasks : Drives(h, t) => t = u
  BY <1>0 DEF Moved, Drives
<1>6. ASSUME NEW t \in Tasks, t # u
      PROVE  OneCarrier(t)' /\ (Free(t) => Free(t)')
  BY <1>4, <1>5, <1>6, CarriersStay DEF Order
<1>7. OneCarrier(u)'
  <2>1. /\ \A i \in Jobs : ~Drives(job[i], u)
        /\ NoOutcome(u)
        /\ \A q \in RequestIds : captures[q] = u => q = r
    BY <1>0 DEF Order, OneCarrier, OnlyBy, NoScreen
  <2>2. NoScreen(u)' /\ NoOutcome(u)'
    BY <1>2, <2>1, TaskEngineAssumption DEF NoScreen, NoOutcome
  <2>3. \A i \in Jobs \ {j} : ~Drives(job'[i], u)
    BY <2>1 DEF Moved
  <2>4. OnlyBy(j, u)'
    BY <2>2, <2>3 DEF OnlyBy, NoScreen, NoOutcome
  <2>. QED
    BY <2>2, <2>3, <2>4 DEF OneCarrier, OnlyBy, NoScreen, NoOutcome
<1>8. ~Rests(u)
  BY <1>0 DEF Order, Free, NoScreen
<1>9. \A t \in Tasks : OneCarrier(t)' /\ (Rests(t)' => Free(t)')
  BY <1>6, <1>7, <1>8 DEF Order
<1>10. KeysAgree'
  BY <1>2, <1>3, KeysStay
<1>11. OneToSend'
  BY <1>5 DEF Order, OneToSend, Moved, At
<1>. QED
  BY <1>1, <1>9, <1>10, <1>11 DEF Order

\* SCREEN_RESULT.
LEMMA ScreenOrder ==
    ASSUME Order, NEW j \in Jobs, NEW r \in RequestIds, NEW echo \in EchoTaskId,
           ScreenFailed(j, r, echo) \/ ScreenArrived(j, r, echo)
    PROVE  Order'
<1>1. [Next]_vars
  BY DEF Next, AnswerScreen
<1>2. PICK u \in Tasks : u = captures[r] /\ u = ResultTask(r, echo)
  BY AnswersItsTask DEF ScreenFailed, ScreenArrived
<1>3. captures' = [captures EXCEPT ![r] = None] /\ budget' = budget
  BY AnsweredOnce DEF ScreenFailed, ScreenArrived
<1>4. CASE ScreenFailed(j, r, echo)
  <2>. DEFINE h == [Idle EXCEPT !.pc = "close", !.task = u]
  <2>1. h \in Job /\ h.pc = "close" /\ h.task = u /\ h.todo = {}
    BY DEF Job, Idle, PC, TaskStatus
  <2>2. Moved(j, h)
    BY <1>2, <1>4, <2>1, MoveTo DEF ScreenFailed, Order, IInv
  <2>3. \A t \in Tasks : Rests(t)' => Rests(t)
    BY <1>2, <1>3, <1>4 DEF ScreenFailed, SetStatus, Rests, Order, IInv, TypeOK
  <2>. HIDE DEF h
  <2>. QED
    BY <1>1, <1>2, <1>3, <1>4, <2>1, <2>2, <2>3, AnswerOrder DEF ScreenFailed
<1>5. CASE ScreenArrived(j, r, echo)
  <2>. DEFINE h == Begun("screen", u)
  <2>1. h.pc = "screen" /\ h.task = u /\ h.todo = {}
    BY DEF Begun, Idle
  <2>2. Moved(j, h)
    BY <1>2, <1>5, BeginMoves DEF ScreenArrived, Order, IInv, PC
  <2>3. \A t \in Tasks : Rests(t)' => Rests(t)
    BY <1>3, <1>5 DEF ScreenArrived, rows, Rests
  <2>. HIDE DEF h
  <2>. QED
    BY <1>1, <1>2, <1>3, <1>5, <2>1, <2>2, <2>3, AnswerOrder
    DEF ScreenArrived, rows
<1>. QED
  BY <1>4, <1>5

\* ACTION_RESULT.
LEMMA ResultOrder ==
    ASSUME Order, NEW j \in Jobs, NEW b \in ActionIds, NEW ok \in BOOLEAN,
           ResultArrived(j, b, ok)
    PROVE  Order'
<1>0. [Next]_vars
  BY DEF Next, AnswerAction
<1>1. IInv'
  BY <1>0, NextInv DEF Order
<1>2. PICK u \in Tasks : u = action[b].task
  BY DEF ResultArrived, Order, IInv, SentBeforeExecuted, WellFormed, Recorded
<1>3. /\ executing' = executing \ {b} /\ budget' = budget /\ b \in executing
      /\ action' = action /\ captures' = captures /\ status' = status
  BY DEF ResultArrived, Spend, Order, rows
<1>4. /\ job'[j].pc \in {"return", "record"} /\ job'[j].task = u
      /\ job'[j].todo = {} /\ \A i \in Jobs \ {j} : job'[i] = job[i]
      /\ job' \in [Jobs -> Job]
  BY <1>1, <1>2 DEF ResultArrived, Order, IInv, TypeOK, Idle
<1>5. \A t \in Tasks : Drives(job'[j], t) => t = u
  BY <1>4 DEF Drives
<1>6. ASSUME NEW t \in Tasks, t # u
      PROVE  OneCarrier(t)' /\ (Free(t) => Free(t)')
  <2>1. Untouched(j, t)
    BY <1>3, <1>4 DEF Untouched
  <2>. QED
    BY <1>5, <1>6, <2>1, CarriersStay DEF Order
<1>7. OneCarrier(u)'
  <2>1. /\ \A i \in Jobs : ~Drives(job[i], u)
        /\ NoScreen(u)
        /\ \A a \in executing : action[a].task = u => a = b
    BY <1>2, <1>3 DEF Order, OneCarrier, OnlyBy, NoOutcome
  <2>2. NoScreen(u)' /\ NoOutcome(u)'
    BY <1>3, <2>1 DEF NoScreen, NoOutcome
  <2>3. \A i \in Jobs \ {j} : ~Drives(job'[i], u)
    BY <1>4, <2>1
  <2>4. OnlyBy(j, u)'
    BY <2>2, <2>3 DEF OnlyBy, NoScreen, NoOutcome
  <2>. QED
    BY <2>2, <2>3, <2>4 DEF OneCarrier, OnlyBy, NoScreen, NoOutcome
<1>8. ~Rests(u)
  BY <1>2, <1>3 DEF Order, Free, NoOutcome
<1>9. \A t \in Tasks : OneCarrier(t)' /\ (Rests(t)' => Free(t)')
  BY <1>3, <1>6, <1>7, <1>8 DEF Order, Rests
<1>10. KeysAgree'
  <2>1. Moved(j, job'[j])
    BY <1>4 DEF Moved
  <2>. QED
    BY <1>3, <1>4, <2>1, KeysStay DEF ResultArrived, pending
<1>11. OneToSend'
  BY <1>4 DEF Order, OneToSend, At
<1>. QED
  BY <1>1, <1>3, <1>9, <1>10, <1>11 DEF Order

\* Requests and handlers disappear, and nothing else happens.
LEMMA LossOrder ==
    ASSUME Order, [Next]_vars,
           \A i \in Jobs : job'[i] \in {job[i], Idle},
           \A r \in RequestIds : captures'[r] \in {captures[r], None},
           \A r \in RequestIds : screenPending'[r] \in {screenPending[r], None},
           executing' \subseteq executing, action' = action, status' = status,
           budget'["message"] = budget["message"],
           budget'["duplicate"] = budget["duplicate"]
    PROVE  Order'
<1>1. IInv'
  BY NextInv DEF Order
<1>2. Idle.pc = "idle" /\ Idle.todo = {} /\ Idle.task = None
  BY DEF Idle
<1>3. ASSUME NEW t \in Tasks PROVE OneCarrier(t)' /\ (Free(t) => Free(t)')
  <2>1. \A i \in Jobs : Drives(job'[i], t) => Drives(job[i], t)
    BY <1>2, TaskEngineAssumption DEF Drives
  <2>2. \A r \in RequestIds : captures'[r] = t => captures[r] = t
    BY TaskEngineAssumption
  <2>3. (NoScreen(t) => NoScreen(t)') /\ (NoOutcome(t) => NoOutcome(t)')
    BY <2>2 DEF NoScreen, NoOutcome
  <2>4. Free(t) => Free(t)'
    BY <2>1, <2>3 DEF Free, NoScreen, NoOutcome
  <2>5. ASSUME NEW i \in Jobs, Drives(job'[i], t) PROVE OnlyBy(i, t)'
    <3>1. OnlyBy(i, t)
      BY <2>1, <2>5 DEF Order, OneCarrier
    <3>. QED
      BY <2>1, <2>3, <3>1 DEF OnlyBy, NoScreen, NoOutcome
  <2>. QED
    BY <2>2, <2>3, <2>4, <2>5 DEF OneCarrier, Order, NoScreen, NoOutcome
<1>4. \A t \in Tasks : OneCarrier(t)' /\ (Rests(t)' => Free(t)')
  BY <1>3 DEF Order, Rests
<1>5. KeysAgree'
  <2>1. \A r \in RequestIds : captures'[r] # None =>
           screenPending'[r] \in {captures'[r], None}
    BY DEF Order, KeysAgree
  <2>2. \A i \in Jobs : job'[i].pc = "request_send" =>
           /\ job'[i] = job[i] /\ At(i, "request_send")
           /\ job[i].req \in RequestIds
    BY <1>2 DEF At, Order, IInv, WellFormed, HandlerOK
  <2>. QED
    BY <2>1, <2>2 DEF KeysAgree, Order, At, T
<1>6. OneToSend'
  BY <1>2 DEF Order, OneToSend, At
<1>. QED
  BY <1>1, <1>4, <1>5, <1>6 DEF Order

\* The environment.
LEMMA EnvironmentOrder ==
    ASSUME Order,
           \/ \E r \in RequestIds, echo \in EchoTaskId : ScreenOrphan(r, echo)
           \/ Disconnect \/ Reconnect \/ Expire \/ Restart \/ UNCHANGED vars
    PROVE  Order'
<1>0. [Next]_vars
  BY DEF Next, AnswerScreen
<1>1. job \in [Jobs -> Job] /\ screenPending \in [RequestIds -> Tasks \cup {None}]
      /\ captures \in [RequestIds -> Tasks \cup {None}]
  BY DEF Order, IInv, TypeOK
<1>2. /\ action' = action /\ status' = status
      /\ budget'["message"] = budget["message"]
      /\ budget'["duplicate"] = budget["duplicate"]
  BY AnsweredOnce
  DEF ScreenOrphan, Disconnect, Reconnect, Expire, Restart, vars, rows, Spend,
      Order, IInv, TypeOK, Trouble
<1>3. \A i \in Jobs : job'[i] \in {job[i], Idle}
  BY DEF ScreenOrphan, Disconnect, Reconnect, Expire, Restart, vars
<1>4. \A r \in RequestIds : captures'[r] \in {captures[r], None}
  BY <1>1, AnsweredOnce
  DEF ScreenOrphan, Disconnect, Reconnect, Expire, Restart, vars, device
<1>5. \A r \in RequestIds : screenPending'[r] \in {screenPending[r], None}
  BY <1>1
  DEF ScreenOrphan, Disconnect, Reconnect, Expire, Restart, vars, pending
<1>6. executing' \subseteq executing
  BY DEF ScreenOrphan, Disconnect, Reconnect, Expire, Restart, vars, device
<1>. QED
  BY <1>0, <1>2, <1>3, <1>4, <1>5, <1>6, LossOrder

------------------------------------------------------------------------------
\* Tasks are carried on by one thing at a time.

\* The invariant holds when the server starts.
LEMMA InitOrder == ASSUME Orderly, Init PROVE Order
<1>1. IInv
  BY InitInv
<1>2. Idle.pc = "idle" /\ Idle.todo = {} /\ Idle.task = None
  BY DEF Idle
<1>3. ASSUME NEW t \in Tasks PROVE Free(t) /\ OneCarrier(t)
  <2>1. \A j \in Jobs : ~Drives(job[j], t)
    BY <1>2, TaskEngineAssumption DEF Init, Drives
  <2>2. NoScreen(t) /\ NoOutcome(t) /\ executing = {}
    BY TaskEngineAssumption DEF Init, NoScreen, NoOutcome
  <2>. QED
    BY <2>1, <2>2 DEF Free, OneCarrier, NoScreen
<1>4. KeysAgree /\ OneToSend
  BY <1>2 DEF Init, KeysAgree, OneToSend, At
<1>. QED
  BY <1>1, <1>3, <1>4 DEF Init, Order, Orderly

\* Every step keeps it.
LEMMA NextOrder ==
    ASSUME Orderly, Order, [Next]_vars
    PROVE  Order'
<1>1. ASSUME NEW j \in Jobs, Resume(j) \/ Reject(j) PROVE Order'
  <2>1. CASE Plain(j)
    BY <2>1, PlainOrder
  <2>2. CASE ~Plain(j)
    BY <1>1, <2>2, OthersArePlain, RequestScreenOrder, RequestSentOrder,
       IterateOrder, DispatchOrder, SendOrder, MessageIgnoredOrder,
       PlanExecutesOrder
    DEF Order
  <2>. QED
    BY <2>1, <2>2
<1>2. ASSUME NEW j \in Jobs, NEW t \in Tasks,
             Create(j, t) \/ Cancel(j, t) \/ Message(j, t)
      PROVE  Order'
  <2>1. CASE Create(j, t)
    BY <2>1, NewTaskOrder DEF Create
  <2>2. CASE Cancel(j, t)
    BY <2>2, OthersArePlain, PlainOrder DEF Order
  <2>3. CASE Message(j, t)
    BY <2>3, MessageOrder
  <2>. QED
    BY <1>2, <2>1, <2>2, <2>3
<1>3. CASE AnswerScreen
  BY <1>3, ScreenOrder, EnvironmentOrder DEF AnswerScreen
<1>4. CASE AnswerAction
  BY <1>4, ResultOrder DEF AnswerAction
<1>5. CASE Disconnect \/ Reconnect \/ Expire \/ Restart \/ UNCHANGED vars
  BY <1>5, EnvironmentOrder
<1>. QED
  BY <1>1, <1>2, <1>3, <1>4, <1>5 DEF Next

\* Where answers come one at a time, a task is carried on by one handler, or one
\* request at the device, at a time.
THEOREM TasksInOrder == ASSUME Orderly PROVE Spec => []Order
BY InitOrder, NextOrder, PTL DEF Spec

\* A handler that plans t carries it on.
LEMMA PlanningDrives ==
    ASSUME NEW j \in Jobs, NEW t, Planning(j, t)
    PROVE  Drives(job[j], t)
BY DEF Planning, Drives, Early, Late, T

\* Plan cycles of one task do not overlap (the comment on activePlanCycles),
\* where answers come one at a time - whatever is cancelled, rejected, lost or
\* restarted, and although the guard is given back early.
THEOREM CyclesKeepApart == ASSUME Orderly PROVE Spec => []NoOverlap
<1>1. Order => NoOverlap
  BY PlanningDrives DEF Order, OneCarrier, OnlyBy, NoOverlap
<1>. QED
  BY <1>1, TasksInOrder, PTL

------------------------------------------------------------------------------
\* What else holds where tasks are carried on by one thing at a time.

\* A handler about to request a screenshot, or to plan, knows the iteration, and
\* there is one left for the task it asks for.
Numbers ==
    /\ \A j \in Jobs :
          /\ job[j].pc \in {"request_check", "iterate"} =>
                job[j].iter = iteration[T(j)]
          /\ job[j].pc \in {"request_send", "screen", "iterate"} =>
                iteration[T(j)] < MaxIterations
    /\ \A r \in RequestIds :
          captures[r] # None => iteration[captures[r]] < MaxIterations
    /\ IterationCap

\* Nothing begins a new cycle of a task marked to complete.
Marks ==
    /\ MarkIsCurrent
    /\ \A t \in completeAfter :
          NoScreen(t) /\ \A j \in Jobs : ~Begins(job[j], t)
    /\ \A j \in Jobs :
          At(j, "dispatch") => status[T(j)] \in {"WAITING_FOR_ACTION"} \cup Terminal

\* The invariant.
Pace == Order /\ Numbers /\ Marks /\ DecisionsAreFresh

\* A handler goes on to p with what it knows.
LEMMA NumbersFrom ==
    ASSUME Order, Numbers, NEW j \in Jobs, NEW h, Moved(j, h),
           iteration' = iteration,
           \A r \in RequestIds : captures'[r] \in {captures[r], None},
           h.pc \in {"request_check", "iterate"} => h.iter = iteration[h.task],
           h.pc \in {"request_send", "screen", "iterate"} =>
              iteration[h.task] < MaxIterations
    PROVE  Numbers'
<1>1. \A r \in RequestIds :
         captures'[r] # None => iteration[captures'[r]] < MaxIterations
  BY DEF Numbers
<1>2. IterationCap'
  BY DEF Numbers, IterationCap
<1>. QED
  BY <1>1, <1>2 DEF Numbers, Moved, T

\* A task changes its status while something carries it on, or ends.
LEMMA MarksFrom ==
    ASSUME Order, Marks, NEW j \in Jobs, NEW h, Moved(j, h),
           \A r \in RequestIds : captures'[r] \in {captures[r], None},
           completeAfter' \subseteq completeAfter,
           \A t \in completeAfter : Begins(h, t) => Begins(job[j], t),
           \A t \in Tasks : status'[t] # status[t] =>
              \/ status'[t] \in Terminal
              \/ Begins(job[j], t)
              \/ Free(t) /\ t \notin completeAfter,
           h.pc = "dispatch" =>
              status'[h.task] \in {"WAITING_FOR_ACTION"} \cup Terminal
    PROVE  Marks'
<1>1. \A t \in completeAfter :
         t \in Tasks /\ ~Begins(job[j], t) /\ ~Begins(h, t)
  BY DEF Marks, Order, IInv, TypeOK
<1>2. MarkIsCurrent'
  BY <1>1 DEF Marks, MarkIsCurrent
<1>3. \A t \in completeAfter' :
         NoScreen(t)' /\ \A i \in Jobs : ~Begins(job'[i], t)
  BY <1>1, TaskEngineAssumption DEF Marks, NoScreen, Moved
<1>4. ASSUME NEW i \in Jobs, job'[i].pc = "dispatch"
      PROVE  status'[job'[i].task] \in {"WAITING_FOR_ACTION"} \cup Terminal
  <2>1. CASE i = j
    BY <1>4, <2>1 DEF Moved
  <2>2. CASE i # j
    <3>1. PICK t \in Tasks : job'[i] = job[i] /\ t = T(i) /\ Drives(job[i], t)
      BY <1>4, <2>2 DEF Moved, Order, IInv, WellFormed, HandlerOK, T, Drives, Early
    <3>2. ~Begins(job[j], t) /\ ~Free(t)
      BY <2>2, <3>1 DEF Order, OneCarrier, OnlyBy, Free, Begins, Drives
    <3>3. status[t] \in {"WAITING_FOR_ACTION"} \cup Terminal
      BY <1>4, <3>1 DEF Marks, At
    <3>. QED
      BY <3>1, <3>2, <3>3 DEF T
  <2>. QED
    BY <2>1, <2>2
<1>. QED
  BY <1>2, <1>3, <1>4 DEF Marks, At, T

\* A row is written by a handler that carries its task on, so not while another
\* decides on it.
LEMMA FreshFrom ==
    ASSUME Order, DecisionsAreFresh, [Next]_vars, NEW j \in Jobs, NEW h,
           Moved(j, h),
           \A a \in ActionIds :
              action'[a] # action[a] => Drives(job[j], action'[a].task),
           h.pc = "decide" =>
              /\ action' = action
              /\ h.ok <=> \A b \in Batch(h.act) : action[b].status = "SUCCEEDED"
    PROVE  DecisionsAreFresh'
<1>1. IInv' /\ RowsAdvance
  BY NextInv, NextAdvances DEF Order
<1>2. ASSUME NEW i \in Jobs, job'[i].pc = "decide", i # j
      PROVE  (job[i].ok <=> \A b \in Batch(job[i].act) :
                               action[b].status = "SUCCEEDED")'
  <2>1. PICK t \in Tasks, a \in ActionIds :
           /\ job'[i] = job[i] /\ t = T(i) /\ a = job[i].act
           /\ action[a].task = t /\ action[a].status \in {"SENT"} \cup Recorded
           /\ Drives(job[i], t)
    BY <1>2 DEF Moved, Order, IInv, WellFormed, HandlerOK, WithAction, T,
                Drives, Late
  <2>2. ~Drives(job[j], t)
    BY <1>2, <2>1 DEF Order, OneCarrier, OnlyBy
  <2>3. action'[a] = action[a]
    BY <1>1, <2>1, <2>2 DEF RowsAdvance, Recorded
  <2>4. ASSUME NEW b \in ActionIds
        PROVE  /\ b \in Batch(a)' <=> b \in Batch(a)
               /\ b \in Batch(a) => action'[b] = action[b]
    <3>1. CASE action'[b] = action[b]
      BY <2>3, <3>1 DEF Batch
    <3>2. CASE action'[b] # action[b]
      <4>1. action'[b].task # t
        BY <2>2, <3>2
      <4>2. action[b].status # "NONE" => action[b].task # t
        BY <1>1, <4>1 DEF RowsAdvance
      <4>. QED
        BY <2>1, <2>3, <4>1, <4>2 DEF Batch
    <3>. QED
      BY <3>1, <3>2
  <2>5. job[i].ok <=> \A b \in Batch(a) : action[b].status = "SUCCEEDED"
    BY <1>2, <2>1 DEF DecisionsAreFresh, At
  <2>6. \A b \in Batch(a) : b \in ActionIds
    BY DEF Batch
  <2>7. \A b \in Batch(a)' : b \in ActionIds
    BY DEF Batch
  <2>. QED
    BY <2>1, <2>4, <2>5, <2>6, <2>7
<1>3. job'[j].pc = "decide" =>
         (job[j].ok <=> \A b \in Batch(job[j].act) :
                           action[b].status = "SUCCEEDED")'
  BY DEF Batch, Moved
<1>. QED
  BY <1>2, <1>3 DEF DecisionsAreFresh, At, Moved

\* A plain step keeps the pace.
LEMMA PlainPace ==
    ASSUME Pace, [Next]_vars, NEW j \in Jobs, Plain(j)
    PROVE  Numbers' /\ Marks' /\ DecisionsAreFresh'
<1>. DEFINE h == job'[j]
<1>1. /\ Order /\ Numbers /\ Marks /\ DecisionsAreFresh
      /\ Moved(j, h) /\ PlainNext(j, h)
  BY DEF Pace, Plain
<1>2. /\ Drives(h, h.task) => h.task = T(j)
      /\ h.pc = "iterate" => iteration[T(j)] < MaxIterations
  <2>1. h.pc # "idle" => h.task \in Tasks
    BY <1>1, NextInv DEF Order, IInv, WellFormed, HandlerOK
  <2>. QED
    BY <1>1, <2>1
    DEF PlainNext, Drives, T, Early, Late, IsReply, Numbers
<1>3. Numbers'
  BY <1>1, <1>2, NumbersFrom DEF Plain, PlainNext, Drives, Early, T
<1>4. Marks'
  <2>1. \A t \in Tasks : status'[t] # status[t] =>
           status'[t] \in Terminal \/ Begins(job[j], t)
    BY DEF Plain, PlainChange
  <2>2. h.pc = "dispatch" => status'[h.task] = "WAITING_FOR_ACTION"
    BY <1>1, <1>2 DEF PlainNext, Drives, Early, T
  <2>. QED
    BY <1>1, <2>1, <2>2, MarksFrom DEF Plain, PlainNext
<1>5. DecisionsAreFresh'
  BY <1>1, FreshFrom DEF Plain, PlainNext
<1>. QED
  BY <1>3, <1>4, <1>5


\* Where the other steps of handlers leave the handler.
LEMMA OthersMove ==
    ASSUME IInv, NEW j \in Jobs, [Next]_vars,
           \/ RequestScreen(j) \/ RequestSent(j) \/ Iterate(j) \/ Dispatch(j)
           \/ Send(j) \/ MessageIgnored(j)
           \/ \E p \in Plans : PlanExecutes(j, p)
           \/ \E t \in Tasks : Create(j, t) \/ Message(j, t)
           \/ \E r \in RequestIds, echo \in EchoTaskId :
                 ScreenFailed(j, r, echo) \/ ScreenArrived(j, r, echo)
           \/ \E a \in ActionIds, ok \in BOOLEAN : ResultArrived(j, a, ok)
    PROVE  Moved(j, job'[j])
<1>1. job' \in [Jobs -> Job] /\ job \in [Jobs -> Job]
  BY NextInv DEF IInv, TypeOK
<1>2. \A i \in Jobs \ {j} : job'[i] = job[i]
  <2>1. CASE Dispatch(j) \/ Send(j)
    BY <1>1, <2>1 DEF Dispatch, Send, MarkSent, Return
  <2>2. CASE RequestScreen(j) \/ RequestSent(j) \/ Iterate(j)
    BY <1>1, <2>2 DEF RequestScreen, RequestSent, Iterate, Return
  <2>3. CASE MessageIgnored(j) \/ \E t \in Tasks : Create(j, t) \/ Message(j, t)
    BY <1>1, <2>3
    DEF MessageIgnored, Create, Message, NewTask, Return, Begin
  <2>4. CASE \E p \in Plans : PlanExecutes(j, p)
    BY <1>1, <2>4 DEF PlanExecutes
  <2>5. CASE \/ \E r \in RequestIds, echo \in EchoTaskId :
                   ScreenFailed(j, r, echo) \/ ScreenArrived(j, r, echo)
             \/ \E a \in ActionIds, ok \in BOOLEAN : ResultArrived(j, a, ok)
    BY <1>1, <2>5 DEF ScreenFailed, ScreenArrived, ResultArrived, Begin
  <2>. QED
    BY <2>1, <2>2, <2>3, <2>4, <2>5
<1>. QED
  BY <1>1, <1>2 DEF Moved

\* The same where the order is kept.
LEMMA OtherMoves ==
    ASSUME Order, NEW j \in Jobs, [Next]_vars,
           \/ RequestScreen(j) \/ RequestSent(j) \/ Iterate(j) \/ Dispatch(j)
           \/ Send(j) \/ MessageIgnored(j)
           \/ \E p \in Plans : PlanExecutes(j, p)
           \/ \E t \in Tasks : Create(j, t) \/ Message(j, t)
           \/ \E r \in RequestIds, echo \in EchoTaskId :
                 ScreenFailed(j, r, echo) \/ ScreenArrived(j, r, echo)
           \/ \E a \in ActionIds, ok \in BOOLEAN : ResultArrived(j, a, ok)
    PROVE  Moved(j, job'[j])
BY OthersMove DEF Order

\* A new request is made for a task with an iteration left.
LEMMA RequestScreenPace ==
    ASSUME Pace, NEW j \in Jobs, RequestScreen(j)
    PROVE  Numbers' /\ Marks' /\ DecisionsAreFresh'
<1>1. [Next]_vars
  BY DEF Next, Resume
<1>. DEFINE h == job'[j]
<1>2. Moved(j, h)
  BY <1>1, OtherMoves DEF Pace
<1>3. h.pc = "request_send" /\ h.task = T(j) /\ Begins(job[j], T(j))
  BY DEF RequestScreen, Pace, Order, IInv, TypeOK, Job, T, At, Begins, Early
<1>4. iteration[T(j)] < MaxIterations
  BY DEF RequestScreen, Pace, Numbers, At
<1>5. Numbers'
  BY <1>2, <1>3, <1>4, NumbersFrom DEF RequestScreen, device, Pace
<1>6. Marks'
  <2>1. completeAfter' = completeAfter /\ captures' = captures
    BY DEF RequestScreen, device
  <2>2. \A t \in Tasks : status'[t] # status[t] => Begins(job[j], t)
    BY <1>3 DEF RequestScreen, SetStatus, Pace, Order, IInv, TypeOK
  <2>3. \A t \in completeAfter : Begins(h, t) => Begins(job[j], t)
    BY <1>3 DEF Begins
  <2>. QED
    BY <1>2, <1>3, <2>1, <2>2, <2>3, MarksFrom DEF Pace
<1>7. DecisionsAreFresh'
  BY <1>1, <1>2, <1>3, FreshFrom DEF RequestScreen, Pace
<1>. QED
  BY <1>5, <1>6, <1>7

\* CAPTURE_SCREEN goes out.
LEMMA RequestSentPace ==
    ASSUME Pace, NEW j \in Jobs, RequestSent(j)
    PROVE  Numbers' /\ Marks' /\ DecisionsAreFresh'
<1>1. [Next]_vars
  BY DEF Next, Resume
<1>2. PICK u \in Tasks, q \in RequestIds :
         /\ u = T(j) /\ q = job[j].req /\ Begins(job[j], u)
         /\ iteration[u] < MaxIterations
  BY DEF RequestSent, At, T, Pace, Order, IInv, WellFormed, HandlerOK, Begins,
         Early, Numbers
<1>3. Moved(j, job'[j]) /\ job'[j].pc = "idle" /\ job'[j].task = None
  BY <1>1, OtherMoves, ReturnMoves
  DEF RequestSent, Pace, Order, IInv, Idle, Moved
<1>4. \A r \in RequestIds : captures'[r] = IF r = q THEN u ELSE captures[r]
  BY <1>2 DEF RequestSent, Pace, Order, IInv, TypeOK
<1>5. Numbers'
  <2>1. \A i \in Jobs : job'[i] = job[i] \/ job'[i].pc = "idle"
    BY <1>3 DEF Moved
  <2>2. iteration' = iteration
    BY DEF RequestSent, rows
  <2>3. \A r \in RequestIds :
           captures'[r] # None => iteration[captures'[r]] < MaxIterations
    BY <1>2, <1>4 DEF Pace, Numbers
  <2>. QED
    BY <2>1, <2>2, <2>3 DEF Pace, Numbers, IterationCap, T
<1>6. Marks'
  <2>1. status' = status /\ completeAfter' = completeAfter
    BY DEF RequestSent, rows, pending
  <2>2. u \notin completeAfter
    BY <1>2 DEF Pace, Marks
  <2>3. \A i \in Jobs : job'[i] = job[i] \/ job'[i].pc = "idle"
    BY <1>3 DEF Moved
  <2>4. \A i \in Jobs, t \in completeAfter : ~Begins(job'[i], t)
    BY <2>3 DEF Pace, Marks, Begins, Early, IsReply
  <2>5. \A t \in completeAfter : NoScreen(t)'
    BY <1>4, <2>2 DEF Pace, Marks, NoScreen
  <2>. QED
    BY <2>1, <2>3, <2>4, <2>5 DEF Pace, Marks, MarkIsCurrent, At, T
<1>7. DecisionsAreFresh'
  BY <1>1, <1>3, FreshFrom DEF RequestSent, rows, Pace
<1>. QED
  BY <1>5, <1>6, <1>7

\* Only the handler that carries the task on knows its iteration.
LEMMA IteratePace ==
    ASSUME Pace, NEW j \in Jobs, Iterate(j)
    PROVE  Numbers' /\ Marks' /\ DecisionsAreFresh'
<1>1. [Next]_vars
  BY DEF Next, Resume
<1>. DEFINE h == job'[j]
<1>2. Moved(j, h)
  BY <1>1, OtherMoves DEF Pace
<1>3. PICK u \in Tasks : u = T(j) /\ Begins(job[j], u) /\ job[j].pc = "iterate"
  BY DEF Iterate, At, T, Pace, Order, IInv, WellFormed, HandlerOK, Begins, Early
<1>4. h.pc = "ask_ai" /\ h.task = u
  BY <1>3 DEF Iterate, Pace, Order, IInv, TypeOK, Job, T
<1>5. OnlyBy(j, u)
  BY <1>3 DEF Pace, Order, OneCarrier, Begins, Drives
<1>6. \A t \in Tasks :
         iteration'[t] = IF t = u THEN iteration[u] + 1 ELSE iteration[t]
  BY <1>3 DEF Iterate, Pace, Numbers, Order, IInv, TypeOK, T
<1>7. iteration[u] < MaxIterations /\ iteration[u] \in Nat
  BY <1>3 DEF Pace, Numbers, T, Order, IInv, TypeOK
<1>8. Numbers'
  <2>1. ASSUME NEW i \in Jobs,
               job'[i].pc \in {"request_check", "iterate", "request_send", "screen"}
        PROVE  job'[i] = job[i] /\ T(i) \in Tasks /\ T(i) # u
    <3>1. i # j /\ job'[i] = job[i]
      BY <1>2, <1>4, <2>1 DEF Moved
    <3>2. T(i) \in Tasks /\ Drives(job[i], T(i))
      BY <2>1, <3>1 DEF Pace, Order, IInv, WellFormed, HandlerOK, T, Drives, Early
    <3>. QED
      BY <1>5, <3>1, <3>2 DEF OnlyBy
  <2>2. ASSUME NEW i \in Jobs
        PROVE  /\ job'[i].pc \in {"request_check", "iterate"} =>
                     job'[i].iter = iteration'[job'[i].task]
               /\ job'[i].pc \in {"request_send", "screen", "iterate"} =>
                     iteration'[job'[i].task] < MaxIterations
    BY <1>6, <2>1 DEF Pace, Numbers, T
  <2>3. ASSUME NEW r \in RequestIds, captures'[r] # None
        PROVE  iteration'[captures'[r]] < MaxIterations
    <3>1. captures'[r] = captures[r] /\ captures[r] \in Tasks /\ captures[r] # u
      BY <1>5, <2>3
      DEF Iterate, device, OnlyBy, NoScreen, Pace, Order, IInv, TypeOK
    <3>. QED
      BY <1>6, <2>3, <3>1 DEF Pace, Numbers
  <2>4. IterationCap'
    BY <1>6, <1>7, TaskEngineAssumption DEF Pace, Numbers, IterationCap
  <2>. QED
    BY <2>2, <2>3, <2>4 DEF Numbers, T
<1>9. Marks'
  <2>1. completeAfter' = completeAfter /\ captures' = captures
    BY DEF Iterate, device, pending
  <2>2. \A t \in Tasks : status'[t] # status[t] => Begins(job[j], t)
    BY <1>3 DEF Iterate, SetStatus, Pace, Order, IInv, TypeOK
  <2>3. \A t \in completeAfter : Begins(h, t) => Begins(job[j], t)
    BY <1>3, <1>4 DEF Begins
  <2>. QED
    BY <1>2, <1>4, <2>1, <2>2, <2>3, MarksFrom DEF Pace
<1>10. DecisionsAreFresh'
  BY <1>1, <1>2, <1>4, FreshFrom DEF Iterate, Pace
<1>. QED
  BY <1>8, <1>9, <1>10


\* The rows of a new batch belong to the task that is planned.
LEMMA PlanExecutesPace ==
    ASSUME Pace, NEW j \in Jobs, NEW p \in Plans, PlanExecutes(j, p)
    PROVE  Numbers' /\ Marks' /\ DecisionsAreFresh'
<1>1. [Next]_vars
  BY DEF Next, Resume, Plan
<1>. DEFINE h == job'[j]
<1>2. Moved(j, h)
  BY <1>1, OtherMoves DEF Pace
<1>3. /\ h.pc = "created" /\ h.task = T(j) /\ T(j) \in Tasks
      /\ Begins(job[j], T(j)) /\ Drives(job[j], T(j))
  BY DEF PlanExecutes, Planned, Pace, Order, IInv, TypeOK, WellFormed,
         HandlerOK, Job, T, At, Begins, Drives, Early
<1>4. /\ iteration' = iteration /\ status' = status /\ captures' = captures
      /\ completeAfter' = completeAfter
  BY DEF PlanExecutes, pending, device
<1>5. Numbers'
  BY <1>2, <1>3, <1>4, NumbersFrom DEF Pace
<1>6. Marks'
  BY <1>2, <1>3, <1>4, MarksFrom DEF Pace, Begins
<1>7. \A a \in ActionIds : action'[a] # action[a] => action'[a].task = T(j)
  <2>1. PICK new \in SUBSET Unused : CreateActions(new, T(j), job[j].iter)
    BY DEF PlanExecutes, FreshRows
  <2>. QED
    BY <1>3, <2>1, CreateRows DEF Pace, Order
<1>8. DecisionsAreFresh'
  BY <1>1, <1>2, <1>3, <1>7, FreshFrom DEF Pace
<1>. QED
  BY <1>5, <1>6, <1>8

\* A plan is marked while nothing else carries its task on.
LEMMA DispatchPace ==
    ASSUME Pace, NEW j \in Jobs, Dispatch(j)
    PROVE  Numbers' /\ Marks' /\ DecisionsAreFresh'
<1>1. [Next]_vars
  BY DEF Next, Resume
<1>2. PICK a \in ActionIds : MarkSent(j, a) /\ a \in job[j].todo
  BY DEF Dispatch, MarkSent, Pace, Order, IInv, TypeOK, Job
<1>. DEFINE h == job'[j]
<1>3. PICK u \in Tasks : u = T(j) /\ Drives(job[j], u) /\ job[j].pc = "dispatch"
  BY DEF Dispatch, At, T, Pace, Order, IInv, WellFormed, HandlerOK, Drives, Early
<1>4. Moved(j, h) /\ h.pc = "send" /\ h.task = u
  BY <1>1, <1>2, <1>3, OtherMoves
  DEF MarkSent, Pace, Order, IInv, TypeOK, Job, T
<1>5. /\ iteration' = iteration /\ status' = status /\ captures' = captures
      /\ completeAfter' \subseteq completeAfter \cup {u}
  BY <1>3 DEF Dispatch, device
<1>6. Numbers'
  BY <1>4, <1>5, NumbersFrom DEF Pace
<1>7. Marks'
  <2>1. OnlyBy(j, u) /\ status[u] \in {"WAITING_FOR_ACTION"} \cup Terminal
    BY <1>3 DEF Pace, Order, OneCarrier, Marks, At, T
  <2>2. \A i \in Jobs : ~Begins(job'[i], u)
    BY <1>4, <2>1 DEF OnlyBy, Moved, Begins, Drives, Early, IsReply
  <2>3. \A i \in Jobs, t \in completeAfter : ~Begins(job'[i], t)
    BY <1>4 DEF Pace, Marks, Moved, Begins, Early, IsReply
  <2>4. \A t \in completeAfter' : NoScreen(t)'
    BY <1>5, <2>1 DEF Pace, Marks, OnlyBy, NoScreen
  <2>5. \A i \in Jobs : job'[i].pc = "dispatch" =>
           status'[job'[i].task] \in {"WAITING_FOR_ACTION"} \cup Terminal
    BY <1>4, <1>5 DEF Moved, Pace, Marks, At, T
  <2>. QED
    BY <1>5, <2>1, <2>2, <2>3, <2>4, <2>5
    DEF Pace, Marks, MarkIsCurrent, At, T
<1>8. \A b \in ActionIds : action'[b] # action[b] => action'[b].task = u
  <2>1. action[a].task = u
    BY <1>2, <1>3 DEF Pace, Order, IInv, WellFormed, HandlerOK, T
  <2>. QED
    BY <1>2, <2>1 DEF MarkSent, Pace, Order, IInv, TypeOK, ActionRow
<1>9. DecisionsAreFresh'
  BY <1>1, <1>3, <1>4, <1>8, FreshFrom DEF Pace
<1>. QED
  BY <1>6, <1>7, <1>9

\* EXECUTE_ACTION goes out.
LEMMA SendPace ==
    ASSUME Pace, NEW j \in Jobs, Send(j)
    PROVE  Numbers' /\ Marks' /\ DecisionsAreFresh'
<1>1. [Next]_vars
  BY DEF Next, Resume
<1>2. Return(j) /\ action' = action
  BY DEF Send, Pace, Order, OneToSend, MarkSent
<1>3. Moved(j, job'[j]) /\ job'[j].pc = "idle"
  BY <1>1, <1>2, OtherMoves, ReturnMoves DEF Pace, Order, IInv, Idle, Moved
<1>4. /\ iteration' = iteration /\ status' = status /\ captures' = captures
      /\ completeAfter' = completeAfter
  BY DEF Send, pending
<1>5. Numbers'
  BY <1>3, <1>4, NumbersFrom DEF Pace
<1>6. Marks'
  BY <1>3, <1>4, MarksFrom DEF Pace, Begins, Early, IsReply
<1>7. DecisionsAreFresh'
  BY <1>1, <1>2, <1>3, FreshFrom DEF Pace
<1>. QED
  BY <1>5, <1>6, <1>7

\* A new task is not marked, nor is one that a message resumes.
LEMMA NewTaskPace ==
    ASSUME Pace, [Next]_vars, NEW j \in Jobs, NEW t \in Tasks,
           Moved(j, job'[j]), NewTask(j, t),
           UNCHANGED <<iteration, action, pending, device>>
    PROVE  Numbers' /\ Marks' /\ DecisionsAreFresh'
<1>. DEFINE h == job'[j]
<1>1. h.pc = "create" /\ h.task = t
  BY DEF NewTask, Pace, Order, IInv, TypeOK, Idle
<1>2. Free(t) /\ t \notin completeAfter
  BY DEF NewTask, Pace, Order, Rests, Marks, MarkIsCurrent, Terminal
<1>3. captures' = captures /\ completeAfter' = completeAfter
  BY DEF pending, device
<1>4. \A u \in Tasks : status'[u] # status[u] => u = t
  BY DEF NewTask, SetStatus, Pace, Order, IInv, TypeOK
<1>5. Numbers'
  BY <1>1, <1>3, NumbersFrom DEF Pace
<1>6. Marks'
  BY <1>1, <1>2, <1>3, <1>4, MarksFrom DEF Pace, Begins
<1>7. DecisionsAreFresh'
  BY <1>1, FreshFrom DEF Pace
<1>. QED
  BY <1>5, <1>6, <1>7

\* A handler that begins with a read of its task, or ends it.
LEMMA ArrivalPace ==
    ASSUME Pace, [Next]_vars, NEW j \in Jobs, NEW t \in Tasks,
           Moved(j, job'[j]), job'[j].task = t,
           job'[j].pc \in {"message", "screen", "close", "return", "record"},
           job'[j].pc = "screen" =>
              iteration[t] < MaxIterations /\ t \notin completeAfter,
           IsReply(job'[j]) => t \notin completeAfter,
           iteration' = iteration, action' = action,
           completeAfter' = completeAfter,
           \A u \in Tasks : status'[u] # status[u] => status'[u] \in Terminal,
           \A r \in RequestIds : captures'[r] \in {captures[r], None}
    PROVE  Numbers' /\ Marks' /\ DecisionsAreFresh'
<1>1. Numbers'
  BY NumbersFrom DEF Pace
<1>2. \A u \in completeAfter : ~Begins(job'[j], u)
  BY DEF Begins, Early
<1>3. Marks'
  BY <1>2, MarksFrom DEF Pace
<1>4. DecisionsAreFresh'
  BY FreshFrom DEF Pace
<1>. QED
  BY <1>1, <1>3, <1>4


\* A message is no reply to a task that is marked.
LEMMA MessagePace ==
    ASSUME Pace, NEW j \in Jobs, NEW t \in Tasks, Message(j, t)
    PROVE  Numbers' /\ Marks' /\ DecisionsAreFresh'
<1>1. [Next]_vars
  BY DEF Next
<1>2. Moved(j, job'[j])
  BY <1>1, OtherMoves DEF Pace
<1>3. /\ job'[j].pc = "message" /\ job'[j].task = t
      /\ job'[j].seen = status[t]
  BY DEF Message, Begin, Pace, Order, IInv, TypeOK, Idle
<1>4. IsReply(job'[j]) => t \notin completeAfter
  BY <1>3 DEF IsReply, Pace, Marks, MarkIsCurrent, Terminal
<1>. QED
  BY <1>1, <1>2, <1>3, <1>4, ArrivalPace DEF Message, rows, pending, device

\* SCREEN_RESULT: its request has kept an iteration for it.
LEMMA ScreenPace ==
    ASSUME Pace, NEW j \in Jobs, NEW r \in RequestIds, NEW echo \in EchoTaskId,
           ScreenFailed(j, r, echo) \/ ScreenArrived(j, r, echo)
    PROVE  Numbers' /\ Marks' /\ DecisionsAreFresh'
<1>1. [Next]_vars
  BY DEF Next, AnswerScreen
<1>2. Moved(j, job'[j])
  BY <1>1, OtherMoves DEF Pace
<1>3. PICK u \in Tasks : u = captures[r] /\ u = ResultTask(r, echo)
  BY AnswersItsTask DEF ScreenFailed, ScreenArrived, Pace
<1>4. captures' = [captures EXCEPT ![r] = None]
  BY AnsweredOnce DEF ScreenFailed, ScreenArrived, Pace
<1>5. job'[j].task = u /\ job'[j].pc \in {"screen", "close"}
  <2>1. job \in [Jobs -> Job]
    BY DEF Pace, Order, IInv, TypeOK
  <2>2. CASE ScreenFailed(j, r, echo)
    BY <1>3, <2>1, <2>2 DEF ScreenFailed, Idle
  <2>3. CASE ScreenArrived(j, r, echo)
    BY <1>3, <2>1, <2>3 DEF ScreenArrived, Begin, Idle
  <2>. QED
    BY <2>2, <2>3
<1>6. iteration[u] < MaxIterations /\ u \notin completeAfter
  BY <1>3, TaskEngineAssumption DEF Pace, Numbers, Marks, NoScreen
<1>7. \A t \in Tasks : status'[t] # status[t] => status'[t] \in Terminal
  BY <1>3
  DEF ScreenFailed, ScreenArrived, SetStatus, rows, Terminal, Pace, Order, IInv,
      TypeOK
<1>8. \A q \in RequestIds : captures'[q] \in {captures[q], None}
  BY <1>4 DEF Pace, Order, IInv, TypeOK
<1>9. /\ iteration' = iteration /\ action' = action
      /\ completeAfter' = completeAfter
  BY DEF ScreenFailed, ScreenArrived, rows
<1>. QED
  BY <1>1, <1>2, <1>5, <1>6, <1>7, <1>8, <1>9, ArrivalPace DEF IsReply

\* ACTION_RESULT: the handler has its row still to write.
LEMMA ResultPace ==
    ASSUME Pace, NEW j \in Jobs, NEW b \in ActionIds, NEW ok \in BOOLEAN,
           ResultArrived(j, b, ok)
    PROVE  Numbers' /\ Marks' /\ DecisionsAreFresh'
<1>1. [Next]_vars
  BY DEF Next, AnswerAction
<1>2. Moved(j, job'[j])
  BY <1>1, OtherMoves DEF Pace
<1>3. PICK u \in Tasks : u = action[b].task
  BY DEF ResultArrived, Pace, Order, IInv, SentBeforeExecuted, WellFormed,
         Recorded
<1>4. job'[j].task = u /\ job'[j].pc \in {"return", "record"}
  BY <1>3 DEF ResultArrived, Pace, Order, IInv, TypeOK, Idle
<1>. QED
  BY <1>1, <1>2, <1>3, <1>4, ArrivalPace
  DEF ResultArrived, rows, pending, IsReply

\* The environment.
LEMMA EnvironmentPace ==
    ASSUME Pace,
           \/ \E r \in RequestIds, echo \in EchoTaskId : ScreenOrphan(r, echo)
           \/ Disconnect \/ Reconnect \/ Expire \/ Restart \/ UNCHANGED vars
    PROVE  Numbers' /\ Marks' /\ DecisionsAreFresh'
<1>1. /\ action' = action /\ status' = status /\ iteration' = iteration
  BY DEF ScreenOrphan, Disconnect, Reconnect, Expire, Restart, vars, rows
<1>2. \A i \in Jobs : job'[i] \in {job[i], Idle}
  BY DEF Pace, Order, IInv, TypeOK, ScreenOrphan, Disconnect, Reconnect, Expire,
         Restart, vars
<1>3. \A r \in RequestIds : captures'[r] \in {captures[r], None}
  BY AnsweredOnce
  DEF Pace, Order, IInv, TypeOK, ScreenOrphan, Disconnect, Reconnect, Expire,
      Restart, vars, device
<1>4. completeAfter' \subseteq completeAfter
  BY DEF ScreenOrphan, Disconnect, Reconnect, Expire, Restart, vars, pending
<1>5. Idle.pc = "idle"
  BY DEF Idle
<1>6. Numbers'
  <2>1. \A i \in Jobs : job'[i] = job[i] \/ job'[i].pc = "idle"
    BY <1>2, <1>5
  <2>. QED
    BY <1>1, <1>3, <2>1 DEF Pace, Numbers, IterationCap, T
<1>7. Marks'
  <2>1. \A i \in Jobs : job'[i] = job[i] \/ job'[i].pc = "idle"
    BY <1>2, <1>5
  <2>2. \A t \in completeAfter : t \in Tasks
    BY DEF Pace, Order, IInv, TypeOK
  <2>3. \A t \in completeAfter' : NoScreen(t)'
    BY <1>3, <1>4, <2>2, TaskEngineAssumption DEF Pace, Marks, NoScreen
  <2>4. \A i \in Jobs, t \in completeAfter' : ~Begins(job'[i], t)
    BY <1>4, <2>1 DEF Pace, Marks, Begins, Early, IsReply
  <2>. QED
    BY <1>1, <1>4, <2>1, <2>3, <2>4 DEF Pace, Marks, MarkIsCurrent, At, T
<1>8. DecisionsAreFresh'
  BY <1>1, <1>2, <1>5 DEF Pace, DecisionsAreFresh, Batch, At
<1>. QED
  BY <1>6, <1>7, <1>8

\* Every step keeps the pace.
LEMMA NextPace ==
    ASSUME Orderly, Pace, [Next]_vars
    PROVE  Pace'
<1>. DEFINE Kept == Numbers' /\ Marks' /\ DecisionsAreFresh'
<1>1. ASSUME NEW j \in Jobs, NEW t \in Tasks, NewTask(j, t), MessageIgnored(j)
      PROVE  Kept
  BY <1>1, OtherMoves, NewTaskPace DEF MessageIgnored, Pace
<1>2. ASSUME NEW j \in Jobs, Resume(j) \/ Reject(j) PROVE Kept
  <2>1. CASE Plain(j)
    BY <2>1, PlainPace
  <2>2. CASE MessageIgnored(j)
    BY <1>1, <2>2, StoredIsPlain, PlainPace DEF MessageIgnored, Pace, Order
  <2>3. CASE ~Plain(j) /\ ~MessageIgnored(j)
    BY <1>2, <2>3, OthersArePlain, RequestScreenPace, RequestSentPace,
       IteratePace, DispatchPace, SendPace, PlanExecutesPace
    DEF Pace, Order
  <2>. QED
    BY <2>1, <2>2, <2>3
<1>3. ASSUME NEW j \in Jobs, NEW t \in Tasks,
             Create(j, t) \/ Cancel(j, t) \/ Message(j, t)
      PROVE  Kept
  <2>1. CASE Create(j, t)
    BY <2>1, OtherMoves, NewTaskPace DEF Create, Pace
  <2>2. CASE Cancel(j, t)
    BY <2>2, OthersArePlain, PlainPace DEF Pace, Order
  <2>3. CASE Message(j, t)
    BY <2>3, MessagePace
  <2>. QED
    BY <1>3, <2>1, <2>2, <2>3
<1>4. ASSUME AnswerScreen PROVE Kept
  BY <1>4, ScreenPace, EnvironmentPace DEF AnswerScreen
<1>5. ASSUME AnswerAction PROVE Kept
  BY <1>5, ResultPace DEF AnswerAction
<1>6. ASSUME Disconnect \/ Reconnect \/ Expire \/ Restart \/ UNCHANGED vars
      PROVE  Kept
  BY <1>6, EnvironmentPace
<1>7. Kept
  BY <1>2, <1>3, <1>4, <1>5, <1>6 DEF Next
<1>. QED
  BY <1>7, NextOrder DEF Pace

\* The pace holds when the server starts.
LEMMA InitPace == ASSUME Orderly, Init PROVE Pace
<1>1. Order
  BY InitOrder
<1>2. \A j \in Jobs : job[j].pc = "idle"
  BY DEF Init, Idle
<1>. QED
  BY <1>1, <1>2, TaskEngineAssumption
  DEF Init, Pace, Numbers, IterationCap, Marks, MarkIsCurrent,
      DecisionsAreFresh, At

\* Where answers come one at a time, what the handlers read is still so when
\* they use it.
THEOREM PaceIsKept == ASSUME Orderly PROVE Spec => []Pace
BY InitPace, NextPace, PTL DEF Spec

\* MAX_TASK_ITERATIONS caps the AI calls of a task, there.
THEOREM CapIsKept == ASSUME Orderly PROVE Spec => []IterationCap
<1>1. Pace => IterationCap
  BY DEF Pace, Numbers
<1>. QED
  BY <1>1, PaceIsKept, PTL

\* The mark "complete after these actions" never decides a later batch, there.
THEOREM MarkStaysCurrent == ASSUME Orderly PROVE Spec => []MarkIsCurrent
<1>1. Pace => MarkIsCurrent
  BY DEF Pace, Marks
<1>. QED
  BY <1>1, PaceIsKept, PTL

\* handleActionResult decides on the rows of its batch as they are, there.
THEOREM DecidesOnFreshRows == ASSUME Orderly PROVE Spec => []DecisionsAreFresh
<1>1. Pace => DecisionsAreFresh
  BY DEF Pace
<1>. QED
  BY <1>1, PaceIsKept, PTL


------------------------------------------------------------------------------
\* Where nothing is cancelled, a handler knows the status of the task it
\* carries on.

Uncancelled == Budget["cancel"] = 0

\* Handler h and a task with status s.
Agrees(h, s) ==
    /\ h.pc \in {"create", "start"} => s = "CREATED"
    /\ h.pc \in {"request", "ask_ai", "ai", "plan", "asked", "wait", "created"}
          => s = "RUNNING"
    /\ h.pc = "request_check" =>
          s \in {"RUNNING", "WAITING_FOR_ACTION", "WAITING_FOR_USER"}
    /\ h.pc \in {"request_send", "screen", "iterate"} => s = "WAITING_FOR_SCREEN"
    /\ h.pc \in Late \cup {"dispatch"} => s = "WAITING_FOR_ACTION"
    /\ IsReply(h) => s = "WAITING_FOR_USER"
    /\ h.pc \in {"start", "request_check", "screen", "iterate", "result"} =>
          h.seen = s

\* The invariant.
Phases ==
    /\ budget["cancel"] = 0
    /\ \A j \in Jobs : ~At(j, "cancel") /\ Agrees(job[j], status[T(j)])
    /\ \A r \in RequestIds :
          captures[r] # None => status[captures[r]] = "WAITING_FOR_SCREEN"
    /\ \A a \in executing : status[action[a].task] = "WAITING_FOR_ACTION"
    /\ \A j \in Jobs : At(j, "request_send") =>
          /\ captures[job[j].req] = None
          /\ \A i \in Jobs \ {j} :
                At(i, "request_send") => job[i].req # job[j].req

\* Handler h brings a screenshot of t.
Delivers(h, t) == h.task = t /\ h.pc \in {"screen", "iterate"}

\* The phases are kept by a step of j that changes the status of tasks that
\* nothing but j carries on, before it or after.
LEMMA PhasesFrom ==
    ASSUME Order, Phases, [Next]_vars, NEW j \in Jobs, NEW h, Moved(j, h),
           \A r \in RequestIds : captures'[r] \in {captures[r], None},
           executing' \subseteq executing, budget'["cancel"] = 0,
           h.pc # "cancel", Agrees(h, status'[h.task]),
           h.pc = "request_send" =>
              /\ captures'[h.req] = None
              /\ \A i \in Jobs \ {j} : job[i].req # h.req,
           \A t \in Tasks :
              status'[t] # status[t] =>
                 Drives(job[j], t) \/ Free(t) \/ OnlyBy(j, t)'
    PROVE  Phases'
<1>1. IInv' /\ RowsAdvance
  BY NextInv, NextAdvances DEF Order
<1>2. ASSUME NEW i \in Jobs
      PROVE  job'[i].pc # "cancel" /\ Agrees(job'[i], status'[job'[i].task])
  <2>1. CASE i = j
    BY <2>1 DEF Moved
  <2>2. CASE i # j /\ Drives(job[i], T(i))
    <3>1. PICK t \in Tasks : t = T(i) /\ job'[i] = job[i] /\ Drives(job[i], t)
      BY <2>2, TaskEngineAssumption
      DEF Moved, Order, IInv, WellFormed, HandlerOK, T, Drives, Idle, Early,
          Late, IsReply
    <3>2. ~Drives(job[j], t) /\ ~Free(t) /\ ~OnlyBy(j, t)'
      BY <2>2, <3>1 DEF Order, OneCarrier, OnlyBy, Free
    <3>3. status'[t] = status[t]
      BY <3>2
    <3>. QED
      BY <3>1, <3>3 DEF Phases, At, T
  <2>3. CASE i # j /\ ~Drives(job[i], T(i))
    <3>1. job'[i] = job[i]
      BY <2>3 DEF Moved
    <3>2. job[i].pc \notin Early \cup Late /\ ~IsReply(job[i])
      BY <2>3 DEF Drives, T
    <3>3. Agrees(job[i], status'[job[i].task])
      BY <3>2 DEF Agrees, Early, Late
    <3>. QED
      BY <3>1, <3>3 DEF Phases, At
  <2>. QED
    BY <2>1, <2>2, <2>3
<1>3. ASSUME NEW r \in RequestIds, captures'[r] # None
      PROVE  status'[captures'[r]] = "WAITING_FOR_SCREEN"
  <2>1. PICK t \in Tasks : t = captures[r] /\ captures'[r] = t
    BY <1>3 DEF Order, IInv, TypeOK
  <2>2. ~Drives(job[j], t) /\ ~Free(t) /\ ~OnlyBy(j, t)'
    BY <2>1 DEF Order, OneCarrier, OnlyBy, Free, NoScreen
  <2>. QED
    BY <2>1, <2>2, TaskEngineAssumption DEF Phases
<1>4. ASSUME NEW a \in executing'
      PROVE  status'[action'[a].task] = "WAITING_FOR_ACTION"
  <2>1. PICK t \in Tasks :
           a \in executing /\ t = action[a].task /\ action'[a].task = t
    BY <1>1 DEF Order, IInv, TypeOK, WellFormed, SentBeforeExecuted, RowsAdvance,
                Recorded
  <2>2. ~Drives(job[j], t) /\ ~Free(t) /\ ~OnlyBy(j, t)'
    BY <1>4, <2>1 DEF Order, OneCarrier, OnlyBy, Free, NoOutcome
  <2>. QED
    BY <2>1, <2>2 DEF Phases
<1>5. ASSUME NEW i \in Jobs, job'[i].pc = "request_send"
      PROVE  /\ captures'[job'[i].req] = None
             /\ \A k \in Jobs \ {i} :
                   job'[k].pc = "request_send" => job'[k].req # job'[i].req
  <2>1. CASE i = j
    BY <1>5, <2>1 DEF Moved
  <2>2. CASE i # j
    <3>1. /\ job'[i] = job[i] /\ At(i, "request_send")
          /\ job[i].req \in RequestIds
      BY <1>5, <2>2 DEF Moved, At, Order, IInv, WellFormed, HandlerOK
    <3>2. captures'[job[i].req] = None
      BY <3>1 DEF Phases
    <3>3. \A k \in Jobs \ {i} :
             job'[k].pc = "request_send" => job'[k].req # job[i].req
      BY <2>2, <3>1 DEF Moved, Phases, At
    <3>. QED
      BY <3>1, <3>2, <3>3
  <2>. QED
    BY <2>1, <2>2
<1>. QED
  BY <1>2, <1>3, <1>4, <1>5 DEF Phases, At, T

\* What a task is owed, by what carries it on.
LEMMA OwedWhere ==
    ASSUME Order, NEW t \in Tasks
    PROVE  /\ \A r \in RequestIds : captures[r] = t => OwedTo(t) = "screen"
           /\ \A j \in Jobs : Delivers(job[j], t) => OwedTo(t) = "delivered"
           /\ \A j \in Jobs : Drives(job[j], t) /\ ~Delivers(job[j], t)
                                 => OwedTo(t) = "nothing"
           /\ \A a \in executing : action[a].task = t => OwedTo(t) = "outcome"
           /\ Free(t) => OwedTo(t) = "nothing"
<1>1. \A r \in RequestIds : captures[r] = t => OwedTo(t) = "screen"
  BY DEF OwedTo
<1>2. \A j \in Jobs : Delivers(job[j], t) => Drives(job[j], t)
  BY DEF Delivers, Drives, Early
<1>3. Delivered(t) <=> \E j \in Jobs : Delivers(job[j], t)
  BY DEF Delivered, Delivers, T
<1>4. \A j \in Jobs : Delivers(job[j], t) => OwedTo(t) = "delivered"
  BY <1>2, <1>3 DEF OwedTo, Order, OneCarrier, OnlyBy, NoScreen
<1>5. \A j \in Jobs : Drives(job[j], t) /\ ~Delivers(job[j], t)
         => OwedTo(t) = "nothing"
  BY <1>2, <1>3 DEF OwedTo, Order, OneCarrier, OnlyBy, NoScreen, NoOutcome
<1>6. \A a \in executing : action[a].task = t => OwedTo(t) = "outcome"
  BY <1>2, <1>3 DEF OwedTo, Order, OneCarrier, OnlyBy, NoScreen, NoOutcome
<1>7. Free(t) => OwedTo(t) = "nothing"
  BY <1>2, <1>3 DEF OwedTo, Free, NoScreen, NoOutcome
<1>. QED
  BY <1>1, <1>4, <1>5, <1>6, <1>7

\* What a task is not touched by leaves it owed the same.
LEMMA OwedStays ==
    ASSUME Order, [Next]_vars, NEW j \in Jobs, Moved(j, job'[j]), NEW t \in Tasks,
           Delivers(job'[j], t) <=> Delivers(job[j], t),
           \A r \in RequestIds : captures'[r] = t <=> captures[r] = t,
           \A a \in executing : action[a].task = t => a \in executing',
           \A a \in executing' \ executing : action'[a].task # t
    PROVE  OwedTo(t)' = OwedTo(t)
<1>1. IInv' /\ RowsAdvance
  BY NextInv, NextAdvances DEF Order
<1>2. Delivered(t)' <=> Delivered(t)
  BY DEF Delivered, Delivers, T, Moved
<1>3. (\E r \in RequestIds : captures[r] = t)'
         <=> \E r \in RequestIds : captures[r] = t
  OBVIOUS
<1>4. executing \subseteq ActionIds /\ executing' \subseteq ActionIds
  BY <1>1 DEF IInv, TypeOK, Order
<1>5. \A a \in executing : action'[a].task = action[a].task
  BY <1>1, <1>4 DEF RowsAdvance, Order, IInv, SentBeforeExecuted, Recorded
<1>6. (\E a \in executing : action[a].task = t)'
         <=> \E a \in executing : action[a].task = t
  BY <1>5
<1>. QED
  BY <1>2, <1>3, <1>6 DEF OwedTo


\* The mapped step: what the protocol sees of a task.
Owings == [t \in Tasks |-> OwedTo(t)]

\* Requests and answers are lost, or nothing is seen.
LEMMA LoseSeen ==
    ASSUME status' = status, iteration' = iteration,
           \A t \in Tasks : OwedTo(t)' \in {OwedTo(t), "nothing"}
    PROVE  Protocol!Next
<1>1. \A t \in Tasks : OwedTo(t) \in Protocol!Owed
  BY DEF OwedTo, Protocol!Owed
<1>2. \A t \in Tasks : OwedTo(t)' \in Protocol!Owed
  BY <1>1 DEF Protocol!Owed
<1>3. Protocol!Lose
  BY <1>2 DEF Protocol!Lose
<1>. QED
  BY <1>3 DEF Protocol!Next

\* A handler goes on and writes no status: it may drop a screenshot.
LEMMA SilentStep ==
    ASSUME Order, Phases, [Next]_vars, NEW j \in Jobs, NEW h, Moved(j, h),
           status' = status, iteration' = iteration, captures' = captures,
           executing' = executing, budget'["cancel"] = budget["cancel"],
           h.pc \notin {"cancel", "request_send"}, Agrees(h, status[h.task]),
           \A t \in Tasks : Delivers(h, t) => Delivers(job[j], t)
    PROVE  Phases' /\ Protocol!Next
<1>1. Phases'
  BY PhasesFrom DEF Phases
<1>2. Moved(j, job'[j]) /\ job'[j] = h
  BY DEF Moved
<1>3. ASSUME NEW t \in Tasks PROVE OwedTo(t)' \in {OwedTo(t), "nothing"}
  <2>1. CASE Delivers(h, t) <=> Delivers(job[j], t)
    BY <1>2, <2>1, OwedStays
  <2>2. CASE Delivers(job[j], t) /\ ~Delivers(h, t)
    <3>1. OnlyBy(j, t)
      BY <2>2 DEF Order, OneCarrier, Delivers, Drives, Early
    <3>2. OnlyBy(j, t)'
      <4>1. RowsAdvance
        BY NextAdvances DEF Order
      <4>2. Untouched(j, t)
        BY <4>1, AsksNothing DEF Order
      <4>. QED
        BY <3>1, <4>2, OnlyByStays
    <3>3. NoScreen(t)' /\ NoOutcome(t)' /\ ~Delivered(t)'
      BY <1>2, <2>2, <3>2
      DEF OnlyBy, NoScreen, NoOutcome, Delivered, Delivers, Drives, Early, T
    <3>. QED
      BY <3>3 DEF OwedTo, NoScreen, NoOutcome
  <2>. QED
    BY <2>1, <2>2
<1>. QED
  BY <1>1, <1>3, LoseSeen

\* A handler moves its task u to the status s, along the protocol.
LEMMA StatusStep ==
    ASSUME Order, Phases, [Next]_vars, NEW j \in Jobs, NEW h, Moved(j, h),
           NEW u \in Tasks, NEW s, SetStatus(u, s), Drives(job[j], u),
           job[j].pc \notin {"screen", "iterate"},
           h.pc \notin {"screen", "iterate", "cancel"},
           iteration' = iteration, captures' = captures, executing' = executing,
           budget'["cancel"] = budget["cancel"], h.task = u, Agrees(h, s),
           h.pc = "request_send" =>
              /\ captures[h.req] = None
              /\ \A i \in Jobs \ {j} : job[i].req # h.req,
           \/ status[u] = "CREATED" /\ s = "RUNNING"
           \/ /\ status[u] \in {"RUNNING", "WAITING_FOR_ACTION",
                                "WAITING_FOR_USER"}
              /\ s = "WAITING_FOR_SCREEN" /\ iteration[u] < MaxIterations
           \/ status[u] = "RUNNING" /\ s \in {"WAITING_FOR_USER",
                                              "WAITING_FOR_ACTION"}
           \/ status[u] \in {"RUNNING", "WAITING_FOR_ACTION"} /\ s = "COMPLETED"
           \/ status[u] \in Protocol!Live \ {"CREATED"} /\ s = "FAILED"
    PROVE  Phases' /\ Protocol!Next
<1>1. status'[u] = s /\ \A t \in Tasks : status'[t] # status[t] => t = u
  BY DEF SetStatus, Order, IInv, TypeOK
<1>2. Phases'
  BY <1>1, PhasesFrom DEF Phases
<1>3. Moved(j, job'[j]) /\ job'[j] = h
  BY DEF Moved
<1>4. \A t \in Tasks : OwedTo(t)' = OwedTo(t)
  BY <1>3, OwedStays DEF Delivers
<1>5. Owings' = Owings
  BY <1>4 DEF Owings
<1>6. Owings[u] = "nothing"
  BY OwedWhere DEF Delivers, Owings
<1>7. Owings' = [Owings EXCEPT ![u] = "nothing"]
  BY <1>5, <1>6 DEF Owings
<1>. USE <1>5, <1>6 DEF Owings, Protocol!Next, Protocol!Moves, SetStatus
<1>8. CASE status[u] = "CREATED" /\ s = "RUNNING"
  <2>1. Protocol!Start(u)
    BY <1>8 DEF Protocol!Start
  <2>. QED
    BY <1>2, <2>1
<1>9. CASE /\ status[u] \in {"RUNNING", "WAITING_FOR_ACTION", "WAITING_FOR_USER"}
           /\ s = "WAITING_FOR_SCREEN" /\ iteration[u] < MaxIterations
  <2>1. Protocol!Look(u)
    BY <1>9 DEF Protocol!Look
  <2>. QED
    BY <1>2, <2>1
<1>10. CASE /\ status[u] = "RUNNING"
            /\ s \in {"WAITING_FOR_USER", "WAITING_FOR_ACTION"}
  <2>1. Protocol!AwaitUser(u) \/ Protocol!Execute(u)
    BY <1>10 DEF Protocol!AwaitUser, Protocol!Execute
  <2>. QED
    BY <1>2, <2>1
<1>11. CASE status[u] \in {"RUNNING", "WAITING_FOR_ACTION"} /\ s = "COMPLETED"
  <2>1. Protocol!Complete(u)
    BY <1>11 DEF Protocol!Complete
  <2>. QED
    BY <1>2, <2>1
<1>12. CASE status[u] \in Protocol!Live \ {"CREATED"} /\ s = "FAILED"
  <2>1. Protocol!FailTask(u)
    BY <1>7, <1>12 DEF Protocol!FailTask
  <2>. QED
    BY <1>2, <2>1
<1>. QED
  BY <1>8, <1>9, <1>10, <1>11, <1>12


\* What a step leaves alone when it writes no status and asks for nothing.
Silent ==
    /\ status' = status /\ iteration' = iteration
    /\ captures' = captures /\ executing' = executing
    /\ budget'["cancel"] = budget["cancel"]

\* A handler ends.
LEMMA ReturnsSilent ==
    ASSUME Order, Phases, [Next]_vars, NEW j \in Jobs, Silent,
           Return(j) \/ ReturnCleared(j)
    PROVE  Phases' /\ Protocol!Next
<1>1. Moved(j, Idle) /\ Idle.pc = "idle"
  BY ReturnMoves DEF Order, IInv, Idle
<1>2. Agrees(Idle, status[Idle.task])
  BY <1>1 DEF Agrees, Late, IsReply
<1>3. \A t \in Tasks : ~Delivers(Idle, t)
  BY <1>1 DEF Delivers
<1>. QED
  BY <1>1, <1>2, <1>3, SilentStep DEF Silent

\* They are over, or give up.
LEMMA EndsSilent ==
    ASSUME Order, Phases, [Next]_vars, NEW j \in Jobs,
           \/ RequestTerminal(j) \/ RequestSkipped(j) \/ Close(j)
           \/ ScreenTerminal(j) \/ IterateTerminal(j) \/ IterateSkipped(j)
           \/ LeaveCycle(j) \/ ResultTerminal(j) \/ BatchUnfinished(j)
           \/ Reject(j)
           \/ StartTask(j) /\ job[j].seen = "CANCELLED"
           \/ MessageIgnored(j) /\ Return(j) /\ UNCHANGED status
    PROVE  Phases' /\ Protocol!Next
<1>1. Return(j) \/ ReturnCleared(j)
  BY DEF RequestTerminal, RequestSkipped, Close, ScreenTerminal,
         IterateTerminal, IterateSkipped, LeaveCycle, ResultTerminal,
         BatchUnfinished, Reject, StartTask
<1>2. Silent
  BY DEF RequestTerminal, RequestSkipped, Close, ScreenTerminal,
         IterateTerminal, IterateSkipped, LeaveCycle, ResultTerminal,
         BatchUnfinished, Reject, StartTask, MessageIgnored, Spend, Silent, rows,
         device, Order, IInv, TypeOK, Trouble
<1>. QED
  BY <1>1, <1>2, ReturnsSilent

\* Handlers that read the task again.
LEMMA ReadsSilent ==
    ASSUME Order, Phases, [Next]_vars, NEW j \in Jobs,
           \/ Start(j) \/ Request(j) \/ ScreenDelivered(j) \/ ResultRecorded(j)
           \/ DecideReplans(j) \/ Waited(j) \/ MessageResumes(j)
           \/ \E p \in Plans : PlanReplans(j, p)
    PROVE  Phases' /\ Protocol!Next
<1>. USE DEF Start, Request, ScreenDelivered, ResultRecorded, DecideReplans,
             Waited, MessageResumes, PlanReplans, Planned, At
<1>1. PICK p \in PC :
         /\ AwaitTask(j, p)
         /\ <<job[j].pc, p>> \in
               {<<"create", "start">>, <<"request", "request_check">>,
                <<"screen", "iterate">>, <<"recorded", "result">>,
                <<"decide", "request_check">>, <<"wait", "request_check">>,
                <<"plan", "request_check">>, <<"message", "request_check">>}
         /\ job[j].pc = "message" => IsReply(job[j])
  BY DEF PC, IsReply
<1>2. Silent
  BY DEF Silent, rows, device
<1>3. job[j] \in Job /\ T(j) \in Tasks /\ Agrees(job[j], status[T(j)])
  BY <1>1 DEF Order, IInv, TypeOK, WellFormed, HandlerOK, T, Phases
<1>. DEFINE h == Read(j, p)
<1>4. Moved(j, h)
  BY <1>1, <1>3, AwaitTaskMoves DEF Order, IInv
<1>5. h.pc = p /\ h.task = T(j) /\ h.seen = status[T(j)]
  BY <1>3 DEF Read, Job, T
<1>. HIDE DEF h
<1>6. Agrees(h, status[T(j)])
  BY <1>1, <1>3, <1>5 DEF Agrees, Late, IsReply
<1>7. \A t \in Tasks : Delivers(h, t) => Delivers(job[j], t)
  BY <1>1, <1>5 DEF Delivers, T
<1>. QED
  BY <1>1, <1>2, <1>4, <1>5, <1>6, <1>7, SilentStep DEF Silent

\* Handlers that await something else.
LEMMA AwaitsSilent ==
    ASSUME Order, Phases, [Next]_vars, NEW j \in Jobs,
           \/ AskAi(j) \/ AiFailed(j) \/ AiAnswers(j) \/ Record(j)
           \/ \E p \in Plans : PlanAsksUser(j, p) \/ PlanWaits(j, p)
    PROVE  Phases' /\ Protocol!Next
<1>. USE DEF AskAi, AiFailed, AiAnswers, Record, PlanAsksUser, PlanWaits,
             Planned, At
<1>1. PICK p \in PC :
         /\ Await(j, p)
         /\ <<job[j].pc, p>> \in
               {<<"ask_ai", "ai">>, <<"ai_failed", "return">>, <<"ai", "plan">>,
                <<"record", "recorded">>, <<"plan", "asked">>,
                <<"plan", "wait">>}
  BY DEF PC
<1>2. Silent
  BY DEF Silent, rows, device
<1>3. job[j] \in Job /\ Agrees(job[j], status[T(j)])
  BY DEF Order, IInv, TypeOK, Phases
<1>. DEFINE h == [job[j] EXCEPT !.pc = p]
<1>4. Moved(j, h)
  BY <1>1, AwaitMoves DEF Order, IInv
<1>5. h.pc = p /\ h.task = T(j)
  BY <1>3 DEF Job, T
<1>. HIDE DEF h
<1>6. Agrees(h, status[T(j)])
  BY <1>1, <1>3, <1>5 DEF Agrees, Late, IsReply
<1>7. \A t \in Tasks : Delivers(h, t) => Delivers(job[j], t)
  BY <1>1, <1>5 DEF Delivers
<1>. QED
  BY <1>1, <1>2, <1>4, <1>5, <1>6, <1>7, SilentStep DEF Silent

\* Handlers whose locals change, and one that begins with a message.
LEMMA LocalsSilent ==
    ASSUME Order, Phases, [Next]_vars, NEW j \in Jobs,
           \/ Dispatch(j) \/ CountUnanswered(j) \/ BatchFinished(j)
           \/ \E p \in Plans : PlanExecutes(j, p)
    PROVE  Phases' /\ Protocol!Next
<1>1. job \in [Jobs -> Job] /\ job' \in [Jobs -> Job]
  BY NextInv DEF Order, IInv, TypeOK
<1>. DEFINE h == job'[j]
<1>2. /\ \A i \in Jobs \ {j} : job'[i] = job[i]
      /\ \/ job[j].pc = "dispatch" /\ h.pc = "send"
         \/ job[j].pc = "result" /\ h.pc = "count"
         \/ job[j].pc = "count" /\ h.pc = "decide"
         \/ job[j].pc = "plan" /\ h.pc = "created"
      /\ h.task = T(j)
  <2>. USE DEF At, Job, T
  <2>1. CASE Dispatch(j)
    <3>1. PICK a \in job[j].todo : MarkSent(j, a)
      BY <2>1 DEF Dispatch
    <3>. QED
      BY <1>1, <2>1, <3>1 DEF Dispatch, MarkSent
  <2>2. CASE CountUnanswered(j)
    <3>1. job[j].pc = "result"
      BY <2>2 DEF CountUnanswered
    <3>2. PICK ok : job' = [job EXCEPT ![j].pc = "count", ![j].ok = ok]
      BY <2>2 DEF CountUnanswered
    <3>. QED
      BY <1>1, <3>1, <3>2
  <2>3. CASE BatchFinished(j)
    BY <1>1, <2>3 DEF BatchFinished
  <2>4. CASE \E p \in Plans : PlanExecutes(j, p)
    <3>1. PICK p \in Plans, new \in SUBSET ActionIds :
             /\ job[j].pc = "plan"
             /\ job' = [job EXCEPT ![j].pc = "created", ![j].todo = new,
                                   ![j].ok = SaysDone(p)]
      BY <2>4 DEF PlanExecutes, Planned, FreshRows, Unused
    <3>. QED
      BY <1>1, <3>1
  <2>. QED
    BY <2>1, <2>2, <2>3, <2>4
<1>3. Moved(j, h)
  BY <1>1, <1>2 DEF Moved
<1>4. Silent
  BY DEF Dispatch, CountUnanswered, BatchFinished, PlanExecutes, Silent, rows,
         device
<1>5. Agrees(job[j], status[T(j)])
  BY DEF Phases
<1>6. Agrees(h, status[T(j)])
  BY <1>2, <1>5 DEF Agrees, Late, IsReply
<1>7. \A t \in Tasks : Delivers(h, t) => Delivers(job[j], t)
  BY <1>2 DEF Delivers
<1>. HIDE DEF h
<1>. QED
  BY <1>2, <1>3, <1>4, <1>6, <1>7, SilentStep DEF Silent

\* A message that reads its task.
LEMMA MessageSilent ==
    ASSUME Order, Phases, NEW j \in Jobs, NEW t \in Tasks, Message(j, t)
    PROVE  Phases' /\ Protocol!Next
<1>. DEFINE h == Begun("message", t)
<1>1. Moved(j, h)
  BY BeginMoves DEF Message, Order, IInv, PC
<1>2. h.pc = "message" /\ h.task = t /\ h.seen = status[t]
  BY DEF Begun, Idle
<1>. HIDE DEF h
<1>3. Agrees(h, status[t])
  BY <1>2 DEF Agrees, Late, IsReply
<1>4. Silent
  BY DEF Message, Silent, rows, device, Spend, Order, IInv, TypeOK, Trouble
<1>5. [Next]_vars
  BY DEF Next
<1>. QED
  BY <1>1, <1>2, <1>3, <1>4, <1>5, SilentStep DEF Silent, Delivers


\* Handlers that write the status and await the write.
LEMMA WritesSeen ==
    ASSUME Order, Phases, [Next]_vars, NEW j \in Jobs,
           \/ StartTask(j) /\ job[j].seen # "CANCELLED"
           \/ RequestExhausted(j) \/ RequestUnsent(j) \/ AiFails(j)
           \/ UserAsked(j) \/ ActionsCreated(j) \/ SendFails(j)
           \/ DecideMarked(j) \/ DecideEnds(j)
           \/ \E p \in Plans :
                 PlanAwaitsUser(j, p) \/ PlanCompletes(j, p) \/ PlanFails(j, p)
    PROVE  Phases' /\ Protocol!Next
<1>. USE DEF StartTask, RequestExhausted, RequestUnsent, AiFails, UserAsked,
             ActionsCreated, SendFails, DecideMarked, DecideEnds,
             PlanAwaitsUser, PlanCompletes, PlanFails, Planned, FailTask,
             CompleteTask, At
<1>1. PICK p \in PC, s \in TaskStatus :
         /\ Await(j, p) /\ SetStatus(T(j), s)
         /\ \/ job[j].pc = "start" /\ p = "request" /\ s = "RUNNING"
            \/ job[j].pc = "created" /\ p = "dispatch"
                  /\ s = "WAITING_FOR_ACTION"
            \/ /\ job[j].pc \in {"plan", "asked"}
               /\ p = "return" /\ s = "WAITING_FOR_USER"
            \/ job[j].pc \in {"plan", "decide"} /\ p = "close" /\ s = "COMPLETED"
            \/ /\ job[j].pc \in {"request_check", "request_send", "ai", "plan",
                                 "send", "decide"}
               /\ p \in {"close", "ai_failed"} /\ s = "FAILED"
  BY DEF PC, TaskStatus
<1>2. iteration' = iteration /\ captures' = captures /\ executing' = executing
         /\ budget' = budget
  BY DEF device
<1>3. PICK u \in Tasks : u = T(j)
  BY <1>1 DEF Order, IInv, WellFormed, HandlerOK, T
<1>4. job[j] \in Job /\ Agrees(job[j], status[u])
  BY <1>3 DEF Order, IInv, TypeOK, Phases
<1>. DEFINE h == [job[j] EXCEPT !.pc = p]
<1>5. Moved(j, h)
  BY <1>1, AwaitMoves DEF Order, IInv
<1>6. h.pc = p /\ h.task = u
  BY <1>3, <1>4 DEF Job, T
<1>. HIDE DEF h
<1>7. Agrees(h, s)
  BY <1>1, <1>6 DEF Agrees, Late, IsReply
<1>8. Drives(job[j], u)
  BY <1>1, <1>3 DEF Drives, Early, Late, T
<1>9. \/ status[u] = "CREATED" /\ s = "RUNNING"
      \/ status[u] = "RUNNING" /\ s \in {"WAITING_FOR_USER", "WAITING_FOR_ACTION"}
      \/ status[u] \in {"RUNNING", "WAITING_FOR_ACTION"} /\ s = "COMPLETED"
      \/ status[u] \in Protocol!Live \ {"CREATED"} /\ s = "FAILED"
  BY <1>1, <1>4
  DEF Agrees, Late, Protocol!Live, Protocol!TaskStatus, Protocol!Terminal
<1>. QED
  BY <1>1, <1>2, <1>3, <1>5, <1>6, <1>7, <1>8, <1>9, StatusStep

\* A screenshot is to be requested.
LEMMA RequestScreenSeen ==
    ASSUME Pace, Phases, NEW j \in Jobs, RequestScreen(j)
    PROVE  Phases' /\ Protocol!Next
<1>1. [Next]_vars
  BY DEF Next, Resume
<1>. DEFINE h == job'[j]
<1>2. Moved(j, h)
  BY <1>1, OtherMoves DEF Pace
<1>3. PICK u \in Tasks : u = T(j) /\ Drives(job[j], u)
  BY DEF RequestScreen, At, T, Pace, Order, IInv, WellFormed, HandlerOK, Drives,
         Early
<1>4. h.pc = "request_send" /\ h.task = u
  BY <1>3 DEF RequestScreen, Pace, Order, IInv, TypeOK, Job, T
<1>5. /\ iteration[u] < MaxIterations
      /\ status[u] \in {"RUNNING", "WAITING_FOR_ACTION", "WAITING_FOR_USER"}
  BY <1>3 DEF RequestScreen, Pace, Numbers, Phases, Agrees, At
<1>8. captures[h.req] = None /\ \A i \in Jobs \ {j} : job[i].req # h.req
  BY DEF RequestScreen, FreshRequests, Pace, Order, IInv, TypeOK, Job
<1>. HIDE DEF h
<1>6. Agrees(h, "WAITING_FOR_SCREEN")
  BY <1>4 DEF Agrees, Late, IsReply
<1>7. /\ SetStatus(u, "WAITING_FOR_SCREEN") /\ job[j].pc = "request_check"
      /\ iteration' = iteration /\ captures' = captures /\ executing' = executing
      /\ budget' = budget
  BY <1>3 DEF RequestScreen, device, At
<1>. QED
  BY <1>1, <1>2, <1>3, <1>4, <1>5, <1>6, <1>7, <1>8, StatusStep DEF Pace

\* A task is created.
LEMMA NewTaskSeen ==
    ASSUME Order, Phases, [Next]_vars, NEW j \in Jobs, NEW t \in Tasks,
           NewTask(j, t), job[j].pc \in {"idle", "message"},
           UNCHANGED <<iteration, action, device, budget>>
    PROVE  Phases' /\ Protocol!Next
<1>. DEFINE h == [Idle EXCEPT !.pc = "create", !.task = t]
<1>1. h \in Job /\ h.pc = "create" /\ h.task = t
  BY DEF Job, Idle, PC, TaskStatus
<1>. HIDE DEF h
<1>2. Moved(j, h)
  BY <1>1, MoveTo DEF NewTask, Order, IInv, h
<1>3. Free(t) /\ status[t] = "NONE" /\ status' = [status EXCEPT ![t] = "CREATED"]
  BY DEF NewTask, SetStatus, Order, Rests
<1>4. captures' = captures /\ executing' = executing /\ budget' = budget
  BY DEF device
<1>5. Phases'
  <2>1. status'[t] = "CREATED" /\ \A u \in Tasks : status'[u] # status[u] => u = t
    BY <1>3 DEF Order, IInv, TypeOK
  <2>2. Agrees(h, status'[h.task])
    BY <1>1, <2>1 DEF Agrees, Late, IsReply
  <2>. QED
    BY <1>1, <1>2, <1>3, <1>4, <2>1, <2>2, PhasesFrom DEF Phases
<1>6. \A u \in Tasks : OwedTo(u)' = OwedTo(u)
  <2>1. Moved(j, job'[j]) /\ job'[j] = h
    BY <1>2 DEF Moved
  <2>2. \A u \in Tasks : ~Delivers(h, u) /\ ~Delivers(job[j], u)
    BY <1>1 DEF Delivers
  <2>. QED
    BY <1>4, <2>1, <2>2, OwedStays
<1>7. Protocol!Create(t)
  BY <1>3, <1>6 DEF Protocol!Create, Protocol!Moves
<1>. QED
  BY <1>5, <1>7 DEF Protocol!Next

\* CAPTURE_SCREEN goes out.
LEMMA RequestSentSeen ==
    ASSUME Order, Phases, NEW j \in Jobs, RequestSent(j)
    PROVE  Phases' /\ Protocol!Next
<1>1. [Next]_vars
  BY DEF Next, Resume
<1>2. PICK u \in Tasks, q \in RequestIds :
         /\ u = T(j) /\ q = job[j].req /\ Drives(job[j], u)
         /\ job[j].pc = "request_send"
  BY DEF RequestSent, At, T, Order, IInv, WellFormed, HandlerOK, Drives, Early
<1>3. Moved(j, Idle) /\ Idle.pc = "idle"
  BY ReturnMoves DEF RequestSent, Order, IInv, Idle
<1>4. \A r \in RequestIds : captures'[r] = IF r = q THEN u ELSE captures[r]
  BY <1>2 DEF RequestSent, Order, IInv, TypeOK
<1>5. status' = status /\ iteration' = iteration /\ action' = action
         /\ executing' = executing /\ budget' = budget
  BY DEF RequestSent, rows
<1>6. status[u] = "WAITING_FOR_SCREEN"
  BY <1>2 DEF Phases, Agrees
<1>7. Phases'
  <2>1. \A i \in Jobs : job'[i] = job[i] \/ job'[i] = Idle
    BY <1>3 DEF Moved
  <2>2. \A s : Agrees(Idle, s)
    BY <1>3 DEF Agrees, Late, IsReply
  <2>3. \A i \in Jobs : job'[i].pc # "cancel"
                        /\ Agrees(job'[i], status[job'[i].task])
    BY <1>3, <2>1, <2>2 DEF Phases, At, T
  <2>4. \A r \in RequestIds :
           captures'[r] # None => status[captures'[r]] = "WAITING_FOR_SCREEN"
    BY <1>4, <1>6 DEF Phases
  <2>5. \A i \in Jobs : job'[i].pc = "request_send" =>
           job'[i] = job[i] /\ i # j /\ captures'[job[i].req] = None
    <3>1. \A i \in Jobs : job'[i].pc = "request_send" =>
             /\ job'[i] = job[i] /\ i # j /\ job[i].req \in RequestIds
             /\ job[i].req # q /\ captures[job[i].req] = None
      BY <1>2, <1>3, <2>1
      DEF Moved, Phases, At, Order, IInv, WellFormed, HandlerOK
    <3>. QED
      BY <1>4, <3>1
  <2>. QED
    BY <1>5, <2>3, <2>4, <2>5 DEF Phases, At, T
<1>8. OwedTo(u) = "nothing"
  BY <1>2, OwedWhere DEF Delivers
<1>9. OwedTo(u)' = "screen"
  BY <1>4 DEF OwedTo
<1>10. ASSUME NEW t \in Tasks, t # u PROVE OwedTo(t)' = OwedTo(t)
  <2>1. Moved(j, job'[j]) /\ job'[j] = Idle
    BY <1>3 DEF Moved
  <2>2. ~Delivers(Idle, t) /\ ~Delivers(job[j], t)
    BY <1>2, <1>3 DEF Delivers
  <2>3. \A r \in RequestIds : captures'[r] = t <=> captures[r] = t
    <3>1. captures[q] # t
      BY <1>2, TaskEngineAssumption DEF Phases, At
    <3>. QED
      BY <1>4, <1>10, <3>1
  <2>. QED
    BY <1>1, <1>5, <2>1, <2>2, <2>3, OwedStays
<1>11. Protocol!AskScreen(u)
  BY <1>5, <1>6, <1>8, <1>9, <1>10 DEF Protocol!AskScreen, Protocol!Owes
<1>. QED
  BY <1>7, <1>11 DEF Protocol!Next


\* EXECUTE_ACTION goes out.
LEMMA SendSeen ==
    ASSUME Order, Phases, NEW j \in Jobs, Send(j)
    PROVE  Phases' /\ Protocol!Next
<1>1. [Next]_vars
  BY DEF Next, Resume
<1>2. PICK u \in Tasks, b \in ActionIds :
         /\ u = T(j) /\ b = job[j].act /\ Drives(job[j], u)
         /\ action[b].task = u /\ job[j].pc = "send"
  BY DEF Send, At, T, Order, IInv, WellFormed, HandlerOK, WithAction, Drives,
         Late
<1>3. Return(j) /\ action' = action
  BY DEF Send, Order, OneToSend, MarkSent
<1>4. Moved(j, Idle) /\ Idle.pc = "idle"
  BY <1>3, ReturnMoves DEF Order, IInv, Idle
<1>5. /\ status' = status /\ iteration' = iteration /\ captures' = captures
      /\ executing' = executing \cup {b} /\ budget' = budget
  BY <1>2 DEF Send
<1>6. status[u] = "WAITING_FOR_ACTION"
  BY <1>2 DEF Phases, Agrees, Late
<1>7. Phases'
  <2>1. \A i \in Jobs : job'[i] = job[i] \/ job'[i] = Idle
    BY <1>4 DEF Moved
  <2>2. \A s : Agrees(Idle, s)
    BY <1>4 DEF Agrees, Late, IsReply
  <2>3. \A i \in Jobs : job'[i].pc # "cancel"
                        /\ Agrees(job'[i], status[job'[i].task])
    BY <1>4, <2>1, <2>2 DEF Phases, At, T
  <2>4. \A i \in Jobs : job'[i].pc = "request_send" => job'[i] = job[i]
    BY <1>4, <2>1
  <2>. QED
    BY <1>2, <1>3, <1>5, <1>6, <2>3, <2>4 DEF Phases, At, T
<1>8. OwedTo(u) = "nothing"
  BY <1>2, OwedWhere DEF Delivers
<1>9. OwedTo(u)' = "outcome"
  <2>1. NoScreen(u) /\ \A i \in Jobs \ {j} : ~Drives(job[i], u)
    BY <1>2 DEF Order, OneCarrier, OnlyBy
  <2>2. ~Delivered(u)'
    BY <1>4, <2>1 DEF Delivered, Moved, Drives, Early, T
  <2>. QED
    BY <1>2, <1>3, <1>5, <2>1, <2>2 DEF OwedTo, NoScreen
<1>10. ASSUME NEW t \in Tasks, t # u PROVE OwedTo(t)' = OwedTo(t)
  <2>1. Moved(j, job'[j]) /\ job'[j] = Idle
    BY <1>4 DEF Moved
  <2>2. ~Delivers(Idle, t) /\ ~Delivers(job[j], t)
    BY <1>2, <1>4 DEF Delivers
  <2>. QED
    BY <1>1, <1>2, <1>3, <1>5, <1>10, <2>1, <2>2, OwedStays
<1>11. Protocol!AskAction(u)
  BY <1>5, <1>6, <1>8, <1>9, <1>10 DEF Protocol!AskAction, Protocol!Owes
<1>. QED
  BY <1>7, <1>11 DEF Protocol!Next

\* SCREEN_RESULT.
LEMMA ScreenSeen ==
    ASSUME Order, Phases, NEW j \in Jobs, NEW r \in RequestIds,
           NEW echo \in EchoTaskId,
           ScreenFailed(j, r, echo) \/ ScreenArrived(j, r, echo)
    PROVE  Phases' /\ Protocol!Next
<1>1. [Next]_vars
  BY DEF Next, AnswerScreen
<1>2. PICK u \in Tasks : u = captures[r] /\ u = ResultTask(r, echo)
  BY AnswersItsTask DEF ScreenFailed, ScreenArrived
<1>3. captures' = [captures EXCEPT ![r] = None] /\ budget' = budget
  BY AnsweredOnce DEF ScreenFailed, ScreenArrived
<1>4. \A q \in RequestIds : captures'[q] = IF q = r THEN None ELSE captures[q]
  BY <1>3 DEF Order, IInv, TypeOK
<1>5. /\ iteration' = iteration /\ action' = action /\ executing' = executing
  BY DEF ScreenFailed, ScreenArrived, rows
<1>6. Moved(j, job'[j])
  BY <1>1, OtherMoves
<1>7. At(j, "idle") /\ \A t \in Tasks : ~Delivers(job[j], t)
  BY DEF ScreenFailed, ScreenArrived, Begin, At, Delivers
<1>8. /\ status[u] = "WAITING_FOR_SCREEN" /\ OwedTo(u) = "screen"
      /\ \A i \in Jobs : ~Drives(job[i], u)
      /\ NoOutcome(u) /\ \A q \in RequestIds : captures[q] = u => q = r
  <2>1. OwedTo(u) = "screen"
    BY <1>2, OwedWhere
  <2>. QED
    BY <1>2, <2>1, TaskEngineAssumption
    DEF Phases, Order, OneCarrier, OnlyBy, NoScreen
<1>9. NoScreen(u)' /\ NoOutcome(u)'
  BY <1>4, <1>5, <1>8, TaskEngineAssumption DEF NoScreen, NoOutcome
<1>10. job'[j].task = u
  <2>1. job \in [Jobs -> Job]
    BY DEF Order, IInv, TypeOK
  <2>2. CASE ScreenFailed(j, r, echo)
    BY <1>2, <2>1, <2>2 DEF ScreenFailed, Idle
  <2>3. CASE ScreenArrived(j, r, echo)
    BY <1>2, <2>1, <2>3 DEF ScreenArrived, Begin, Idle
  <2>. QED
    BY <2>2, <2>3
<1>11. ASSUME NEW t \in Tasks, t # u PROVE OwedTo(t)' = OwedTo(t)
  <2>1. ~Delivers(job'[j], t)
    BY <1>10, <1>11 DEF Delivers
  <2>2. \A q \in RequestIds : captures'[q] = t <=> captures[q] = t
    BY <1>2, <1>4, <1>11, TaskEngineAssumption
  <2>. QED
    BY <1>1, <1>5, <1>6, <1>7, <2>1, <2>2, OwedStays
<1>12. CASE ScreenFailed(j, r, echo)
  <2>1. status' = [status EXCEPT ![u] = "FAILED"] /\ job'[j].pc = "close"
    BY <1>2, <1>12 DEF ScreenFailed, SetStatus, Order, IInv, TypeOK, Idle
  <2>2. Agrees(job'[j], status'[u])
    BY <2>1 DEF Agrees, Late, IsReply
  <2>3. Phases'
    <3>1. \A q \in RequestIds : captures'[q] \in {captures[q], None}
      BY <1>4
    <3>2. OnlyBy(j, u)'
      BY <1>6, <1>8, <1>9 DEF OnlyBy, Moved, NoScreen, NoOutcome
    <3>3. \A t \in Tasks : status'[t] # status[t] => t = u
      BY <2>1 DEF Order, IInv, TypeOK
    <3>. QED
      BY <1>1, <1>3, <1>5, <1>6, <1>10, <2>1, <2>2, <3>1, <3>2, <3>3, PhasesFrom
      DEF Phases
  <2>4. OwedTo(u)' = "nothing"
    <3>1. ~Delivered(u)'
      BY <1>6, <1>8, <2>1 DEF Delivered, Moved, Drives, Early, T
    <3>. QED
      BY <1>9, <3>1 DEF OwedTo, NoScreen, NoOutcome
  <2>5. Protocol!FailTask(u)
    BY <1>5, <1>8, <1>11, <2>1, <2>4
    DEF Protocol!FailTask, Protocol!Moves, Protocol!Live, Protocol!TaskStatus,
        Protocol!Terminal
  <2>. QED
    BY <2>3, <2>5 DEF Protocol!Next
<1>13. CASE ScreenArrived(j, r, echo)
  <2>1. status' = status /\ job'[j].pc = "screen" /\ job'[j].seen = status[u]
    BY <1>2, <1>13
    DEF ScreenArrived, rows, Begin, Order, IInv, TypeOK, Idle
  <2>2. Agrees(job'[j], status'[job'[j].task])
    BY <1>8, <1>10, <2>1 DEF Agrees, Late, IsReply
  <2>3. Phases'
    <3>1. \A q \in RequestIds : captures'[q] \in {captures[q], None}
      BY <1>4
    <3>. QED
      BY <1>1, <1>3, <1>5, <1>6, <2>1, <2>2, <3>1, PhasesFrom DEF Phases
  <2>4. OwedTo(u)' = "delivered"
    <3>1. Delivered(u)'
      BY <1>10, <2>1 DEF Delivered, T
    <3>. QED
      BY <1>9, <3>1 DEF OwedTo, NoScreen
  <2>5. Protocol!Deliver(u)
    BY <1>5, <1>8, <1>11, <2>1, <2>4 DEF Protocol!Deliver, Protocol!Owes
  <2>. QED
    BY <2>3, <2>5 DEF Protocol!Next
<1>. QED
  BY <1>12, <1>13


\* ACTION_RESULT.
LEMMA ResultSeen ==
    ASSUME Order, Phases, NEW j \in Jobs, NEW b \in ActionIds, NEW ok \in BOOLEAN,
           ResultArrived(j, b, ok)
    PROVE  Phases' /\ Protocol!Next
<1>1. [Next]_vars
  BY DEF Next, AnswerAction
<1>2. PICK u \in Tasks : u = action[b].task
  BY DEF ResultArrived, Order, IInv, SentBeforeExecuted, WellFormed, Recorded
<1>3. /\ executing' = executing \ {b} /\ budget' = budget /\ b \in executing
      /\ action' = action /\ captures' = captures /\ status' = status
      /\ iteration' = iteration
  BY DEF ResultArrived, Spend, Order, rows
<1>4. Moved(j, job'[j])
  BY <1>1, OtherMoves
<1>5. job'[j].pc \in {"return", "record"} /\ job'[j].task = u /\ job[j].pc = "idle"
  BY <1>2 DEF ResultArrived, Order, IInv, TypeOK, Idle, At
<1>6. /\ status[u] = "WAITING_FOR_ACTION" /\ OwedTo(u) = "outcome"
      /\ \A i \in Jobs : ~Drives(job[i], u)
      /\ NoScreen(u) /\ \A a \in executing : action[a].task = u => a = b
  <2>1. OwedTo(u) = "outcome"
    BY <1>2, <1>3, OwedWhere
  <2>. QED
    BY <1>2, <1>3, <2>1 DEF Phases, Order, OneCarrier, OnlyBy, NoOutcome
<1>7. Agrees(job'[j], status'[job'[j].task])
  BY <1>3, <1>5, <1>6 DEF Agrees, Late, IsReply
<1>8. Phases'
  BY <1>1, <1>3, <1>4, <1>5, <1>7, PhasesFrom DEF Phases
<1>9. OwedTo(u)' = "nothing"
  <2>1. NoScreen(u)' /\ NoOutcome(u)'
    BY <1>3, <1>6 DEF NoScreen, NoOutcome
  <2>2. ~Delivered(u)'
    BY <1>4, <1>5, <1>6 DEF Delivered, Moved, Drives, Early, T
  <2>. QED
    BY <2>1, <2>2 DEF OwedTo, NoScreen, NoOutcome
<1>10. ASSUME NEW t \in Tasks, t # u PROVE OwedTo(t)' = OwedTo(t)
  <2>1. ~Delivers(job'[j], t) /\ ~Delivers(job[j], t)
    BY <1>5 DEF Delivers
  <2>. QED
    BY <1>1, <1>2, <1>3, <1>4, <1>10, <2>1, OwedStays
<1>11. Protocol!Outcome(u)
  BY <1>3, <1>6, <1>9, <1>10 DEF Protocol!Outcome, Protocol!Owes
<1>. QED
  BY <1>8, <1>11 DEF Protocol!Next

\* runAiIteration takes the guard and counts a round.
LEMMA IterateSeen ==
    ASSUME Pace, Phases, NEW j \in Jobs, Iterate(j)
    PROVE  Phases' /\ Protocol!Next
<1>1. [Next]_vars
  BY DEF Next, Resume
<1>2. Moved(j, job'[j])
  BY <1>1, OtherMoves DEF Pace
<1>3. PICK u \in Tasks : /\ u = T(j) /\ Drives(job[j], u) /\ Delivers(job[j], u)
                         /\ job[j].pc = "iterate" /\ job[j].iter = iteration[u]
  BY DEF Iterate, At, T, Pace, Numbers, Order, IInv, WellFormed, HandlerOK,
         Drives, Delivers, Early
<1>4. job'[j].pc = "ask_ai" /\ job'[j].task = u
  BY <1>3 DEF Iterate, Pace, Order, IInv, TypeOK, Job, T
<1>5. /\ status' = [status EXCEPT ![u] = "RUNNING"]
      /\ iteration' = [iteration EXCEPT ![u] = iteration[u] + 1]
      /\ captures' = captures /\ executing' = executing /\ action' = action
      /\ budget' = budget
  BY <1>3 DEF Iterate, SetStatus, device
<1>6. status[u] = "WAITING_FOR_SCREEN" /\ OwedTo(u) = "delivered"
  BY <1>3, OwedWhere DEF Phases, Agrees, Pace, T
<1>7. Phases'
  <2>1. status'[u] = "RUNNING" /\ \A t \in Tasks : status'[t] # status[t] => t = u
    BY <1>5 DEF Pace, Order, IInv, TypeOK
  <2>2. Agrees(job'[j], status'[job'[j].task])
    BY <1>4, <2>1 DEF Agrees, Late, IsReply
  <2>. QED
    BY <1>1, <1>2, <1>3, <1>4, <1>5, <2>1, <2>2, PhasesFrom DEF Pace, Phases
<1>8. OwedTo(u)' = "nothing"
  <2>1. OnlyBy(j, u)
    BY <1>3 DEF Pace, Order, OneCarrier
  <2>2. NoScreen(u)' /\ NoOutcome(u)' /\ ~Delivered(u)'
    BY <1>2, <1>4, <1>5, <2>1
    DEF OnlyBy, NoScreen, NoOutcome, Delivered, Moved, Drives, Early, T
  <2>. QED
    BY <2>2 DEF OwedTo, NoScreen, NoOutcome
<1>9. ASSUME NEW t \in Tasks, t # u PROVE OwedTo(t)' = OwedTo(t)
  <2>1. ~Delivers(job'[j], t) /\ ~Delivers(job[j], t)
    BY <1>3, <1>4, <1>9 DEF Delivers
  <2>. QED
    BY <1>1, <1>2, <1>5, <2>1, OwedStays DEF Pace
<1>10. Protocol!Plan(u)
  BY <1>5, <1>6, <1>8, <1>9 DEF Protocol!Plan, Protocol!Moves, Protocol!Owes
<1>. QED
  BY <1>7, <1>10 DEF Protocol!Next

\* The environment.
LEMMA EnvironmentSeen ==
    ASSUME Order, Phases,
           \/ \E r \in RequestIds, echo \in EchoTaskId : ScreenOrphan(r, echo)
           \/ Disconnect \/ Reconnect \/ Expire \/ Restart \/ UNCHANGED vars
    PROVE  Phases' /\ Protocol!Next
<1>1. /\ action' = action /\ status' = status /\ iteration' = iteration
      /\ budget'["cancel"] = budget["cancel"]
  BY AnsweredOnce
  DEF ScreenOrphan, Disconnect, Reconnect, Expire, Restart, vars, rows, Spend,
      Order, IInv, TypeOK, Trouble
<1>2. \A i \in Jobs : job'[i] = job[i] \/ job'[i].pc = "idle"
  BY DEF Order, IInv, TypeOK, ScreenOrphan, Disconnect, Reconnect, Expire,
         Restart, vars, Idle
<1>3. \A r \in RequestIds : captures'[r] \in {captures[r], None}
  BY AnsweredOnce
  DEF Order, IInv, TypeOK, ScreenOrphan, Disconnect, Reconnect, Expire, Restart,
      vars, device
<1>4. executing' \subseteq executing
  BY DEF ScreenOrphan, Disconnect, Reconnect, Expire, Restart, vars, device
<1>5. Phases'
  <2>1. \A i \in Jobs : job'[i].pc # "cancel"
                        /\ Agrees(job'[i], status[job'[i].task])
    BY <1>2 DEF Phases, At, T, Agrees, Late, IsReply
  <2>2. \A i \in Jobs : job'[i].pc = "request_send" =>
           job'[i] = job[i] /\ job[i].req \in RequestIds
    BY <1>2 DEF Order, IInv, WellFormed, HandlerOK
  <2>3. \A r \in RequestIds :
           captures'[r] # None => status[captures'[r]] = "WAITING_FOR_SCREEN"
    BY <1>3 DEF Phases
  <2>4. \A i \in Jobs : job'[i].pc = "request_send" =>
           /\ captures'[job'[i].req] = None
           /\ \A k \in Jobs \ {i} :
                 job'[k].pc = "request_send" => job'[k].req # job'[i].req
    BY <1>3, <2>2 DEF Phases, At
  <2>. QED
    BY <1>1, <1>4, <2>1, <2>3, <2>4 DEF Phases, At, T
<1>6. ASSUME NEW t \in Tasks PROVE OwedTo(t)' \in {OwedTo(t), "nothing"}
  <2>1. CASE \E r \in RequestIds : captures'[r] = t
    <3>1. PICK r \in RequestIds : captures'[r] = t /\ captures[r] = t
      BY <1>3, <2>1, TaskEngineAssumption
    <3>. QED
      BY <3>1 DEF OwedTo
  <2>2. CASE NoScreen(t)' /\ Delivered(t)'
    <3>1. PICK i \in Jobs : Delivers(job[i], t)
      BY <1>2, <2>2 DEF Delivered, Delivers, T
    <3>2. OwedTo(t) = "delivered"
      BY <3>1, OwedWhere
    <3>. QED
      BY <2>2, <3>2 DEF OwedTo, NoScreen
  <2>3. CASE NoScreen(t)' /\ ~Delivered(t)' /\ ~NoOutcome(t)'
    <3>1. PICK a \in executing : action[a].task = t
      BY <1>1, <1>4, <2>3 DEF NoOutcome
    <3>2. OwedTo(t) = "outcome"
      BY <3>1, OwedWhere
    <3>. QED
      BY <2>3, <3>2 DEF OwedTo, NoScreen, NoOutcome
  <2>4. CASE NoScreen(t)' /\ ~Delivered(t)' /\ NoOutcome(t)'
    BY <2>4 DEF OwedTo, NoScreen, NoOutcome
  <2>. QED
    BY <2>1, <2>2, <2>3, <2>4 DEF NoScreen
<1>. QED
  BY <1>1, <1>5, <1>6, LoseSeen

\* The initial states map to the protocol's.
LEMMA InitSeen == ASSUME Orderly, Uncancelled, Init PROVE Phases /\ Protocol!Init
<1>1. \A j \in Jobs : job[j].pc = "idle"
  BY DEF Init, Idle
<1>2. Phases
  BY <1>1 DEF Init, Phases, Uncancelled, At, Agrees, Late, IsReply
<1>3. \A t \in Tasks : OwedTo(t) = "nothing"
  BY <1>1, TaskEngineAssumption DEF Init, OwedTo, Delivered
<1>. QED
  BY <1>2, <1>3 DEF Init, Protocol!Init

\* Every step maps to a step of the protocol.
LEMMA NextSeen ==
    ASSUME Orderly, Pace, Phases, [Next]_vars
    PROVE  Phases' /\ Protocol!Next
<1>. DEFINE Seen == Phases' /\ Protocol!Next
<1>0. Order
  BY DEF Pace
<1>1. ASSUME NEW j \in Jobs, Plan(j) PROVE Seen
  BY <1>0, <1>1, ReadsSilent, AwaitsSilent, LocalsSilent, WritesSeen DEF Plan
<1>2. ASSUME NEW j \in Jobs, MessageIgnored(j) PROVE Seen
  <2>1. job[j].pc = "message"
    BY <1>2 DEF MessageIgnored, At
  <2>. QED
    BY <1>0, <1>2, <2>1, EndsSilent, NewTaskSeen DEF MessageIgnored
<1>3. ASSUME NEW j \in Jobs, Resume(j) \/ Reject(j), ~Plan(j), ~MessageIgnored(j)
      PROVE  Seen
  <2>1. ~CancelTask(j)
    BY DEF CancelTask, Phases
  <2>2. CASE RequestScreen(j) \/ RequestSent(j) \/ Iterate(j) \/ Send(j)
    BY <1>0, <2>2, RequestScreenSeen, RequestSentSeen, IterateSeen, SendSeen
  <2>3. CASE ~RequestScreen(j) /\ ~RequestSent(j) /\ ~Iterate(j) /\ ~Send(j)
    BY <1>0, <1>3, <2>1, <2>3, EndsSilent, ReadsSilent, AwaitsSilent,
       LocalsSilent, WritesSeen
    DEF Resume
  <2>. QED
    BY <2>2, <2>3
<1>4. ASSUME NEW j \in Jobs, NEW t \in Tasks,
             Create(j, t) \/ Cancel(j, t) \/ Message(j, t)
      PROVE  Seen
  <2>1. CASE Create(j, t)
    BY <1>0, <2>1, NewTaskSeen DEF Create, At
  <2>2. ~Cancel(j, t)
    BY DEF Cancel, Spend, Phases
  <2>. QED
    BY <1>0, <1>4, <2>1, <2>2, MessageSilent
<1>5. ASSUME AnswerScreen PROVE Seen
  BY <1>0, <1>5, ScreenSeen, EnvironmentSeen DEF AnswerScreen
<1>6. ASSUME AnswerAction PROVE Seen
  BY <1>0, <1>6, ResultSeen DEF AnswerAction
<1>7. ASSUME Disconnect \/ Reconnect \/ Expire \/ Restart \/ UNCHANGED vars
      PROVE  Seen
  BY <1>0, <1>7, EnvironmentSeen
<1>. QED
  BY <1>1, <1>2, <1>3, <1>4, <1>5, <1>6, <1>7 DEF Next

\* TasksService keeps to the task protocol where answers come one at a time and
\* nothing is cancelled: whatever is lost, rejected, expired or restarted.
THEOREM EngineImplements ==
    ASSUME Orderly, Uncancelled
    PROVE  Spec => ImplementsProtocol
<1>1. Init => Pace /\ Phases /\ Protocol!Init
  BY InitPace, InitSeen
<1>2. Pace /\ Phases /\ [Next]_vars => Pace' /\ Phases' /\ [Protocol!Next]_Protocol!vars
  BY NextPace, NextSeen
<1>. QED
  BY <1>1, <1>2, PTL DEF Spec, ImplementsProtocol, Protocol!Spec

\* The protocol leaves a task alone that is over.
LEMMA ProtocolEnds ==
    ASSUME status \in [Tasks -> TaskStatus], [Protocol!Next]_Protocol!vars,
           NEW t \in Tasks, status[t] \in Terminal
    PROVE  status'[t] = status[t]
<1>1. ASSUME NEW u \in Tasks, NEW from, NEW to, Protocol!Moves(u, from, to),
             from \cap Terminal = {}
      PROVE  status'[t] = status[t]
  BY <1>1 DEF Protocol!Moves
<1>2. Protocol!Live \cap Terminal = {}
  BY DEF Protocol!Live, Protocol!Terminal, Terminal
<1>. QED
  BY <1>1, <1>2
  DEF Protocol!Next, Protocol!vars, Protocol!Create, Protocol!Start,
      Protocol!Look, Protocol!AskScreen, Protocol!Deliver, Protocol!Plan,
      Protocol!AwaitUser, Protocol!Execute, Protocol!AskAction,
      Protocol!Outcome, Protocol!Complete, Protocol!FailTask,
      Protocol!Cancel, Protocol!Lose, Terminal

\* A task that is COMPLETED, FAILED or CANCELLED stays so where answers come one
\* at a time and nothing is cancelled: the status write of runAiIteration on a row
\* it does not read again loses nothing but what run CancelRevived shows.
THEOREM OverIsFinal ==
    ASSUME Orderly, Uncancelled
    PROVE  Spec => TerminalFinal
<1>1. Pace /\ [Protocol!Next]_Protocol!vars
        => [\A t \in Tasks : status[t] \in Terminal => status'[t] = status[t]]_vars
  BY ProtocolEnds DEF Pace, Order, IInv, TypeOK
<1>. QED
  BY <1>1, PaceIsKept, EngineImplements, PTL
  DEF ImplementsProtocol, Protocol!Spec, TerminalFinal

------------------------------------------------------------------------------
\* Where no plan asks for more than one round, a single action gets its own, and
\* one more for a message and for an answer that is repeated: whatever the number
\* of messages, the size of the batches and the order of what arrives.

NoOverride == \A p \in Plans : p.mode # "multi_step"

\* Where a handler that leads to a new round may be.
Asking == {"create", "start", "request", "request_check", "request_send",
           "screen", "iterate", "message"}

\* The handlers that lead task t to a round, and the screenshots that will.
Leaders(t) == {j \in Jobs : T(j) = t /\ job[j].pc \in Asking}
Shown(t) == {r \in RequestIds : captures[r] = t}
Ahead(t) == Cardinality(Leaders(t)) + Cardinality(Shown(t))

\* The rounds a single action may have by now.
Allowed == 1 + Spent("message") + Spent("duplicate")

\* The rounds t had, as any handler that leads it to one knows them, and those
\* ahead of it stay within what is allowed.
Counted(t) ==
    /\ IsFiniteSet(Leaders(t)) /\ IsFiniteSet(Shown(t))
    /\ status[t] = "NONE" => /\ iteration[t] = 0
                             /\ Leaders(t) = {} /\ Shown(t) = {}
    /\ mode[t] # "multi_step"
    /\ iteration[t] + Ahead(t) <= Allowed
    /\ \A j \in Leaders(t) : job[j].iter + Ahead(t) <= Allowed

\* Handler h plans a single action as one.
PlansOnce(h) ==
    h.pc # "idle" /\ instruction[h.task] = "single_action" =>
       /\ h.pc \in {"ask_ai", "ai", "plan", "decide"} => h.mode = "single_action"
       /\ h.pc # "wait"

\* The invariant.
Shots ==
    /\ \A k \in {"message", "duplicate"} : budget[k] <= Budget[k]
    /\ \A t \in Tasks : instruction[t] = "single_action" => Counted(t)
    /\ \A j \in Jobs : PlansOnce(job[j])

\* No handler makes t a task of several rounds.
StaysSingle(t) ==
    instruction[t] = "single_action" /\ mode[t] # "multi_step"
        => mode'[t] # "multi_step"

\* Handler j leads no single action to a round it did not lead it to before.
Onward(j) ==
    job'[j].pc \in Asking /\ instruction[job'[j].task] = "single_action" =>
       /\ job[j].pc \in Asking /\ job'[j].task = T(j)
       /\ job'[j].iter \in {job[j].iter, iteration[T(j)]}

\* A step that brings t no nearer to a round too many.
LEMMA CountedFrom ==
    ASSUME IInv, IInv', NEW t \in Tasks, Counted(t),
           NEW j \in Jobs, Moved(j, job'[j]),
           iteration'[t] = iteration[t], mode'[t] # "multi_step",
           \/ status'[t] # "NONE"
           \/ /\ status[t] = "NONE"
              /\ Leaders(t)' \subseteq Leaders(t) /\ Shown(t)' \subseteq Shown(t),
           IsFiniteSet(Leaders(t)'), IsFiniteSet(Shown(t)'),
           Ahead(t)' + Allowed <= Ahead(t) + Allowed',
           j \in Leaders(t)' =>
              \/ job'[j].iter = iteration[t]
              \/ j \in Leaders(t) /\ job'[j].iter = job[j].iter
    PROVE  Counted(t)'
<1>1. /\ Allowed \in Int /\ Allowed' \in Int
      /\ Ahead(t) \in Nat /\ Ahead(t)' \in Nat
  <2>1. Allowed \in Int /\ Allowed' \in Int
    BY TaskEngineAssumption DEF Allowed, Spent, IInv, TypeOK, Trouble
  <2>2. /\ Cardinality(Leaders(t)) \in Nat /\ Cardinality(Leaders(t)') \in Nat
        /\ Cardinality(Shown(t)) \in Nat /\ Cardinality(Shown(t)') \in Nat
    BY FS_CardinalityType DEF Counted
  <2>3. /\ Ahead(t) = Cardinality(Leaders(t)) + Cardinality(Shown(t))
        /\ Ahead(t)' = Cardinality(Leaders(t)') + Cardinality(Shown(t)')
    BY DEF Ahead
  <2>. QED
    BY <2>1, <2>2, <2>3
<1>2. iteration[t] \in Nat
  BY DEF IInv, TypeOK
<1>3. iteration'[t] + Ahead(t)' <= Allowed'
  BY <1>1, <1>2 DEF Counted
<1>4. ASSUME NEW i \in Leaders(t)' PROVE job'[i].iter + Ahead(t)' <= Allowed'
  <2>1. CASE i = j /\ job'[j].iter = iteration[t]
    BY <1>3, <2>1
  <2>2. CASE i \in Leaders(t) /\ job'[i].iter = job[i].iter
    <3>1. job[i].iter \in Nat
      BY <2>2 DEF IInv, TypeOK, Job, Leaders
    <3>. QED
      BY <1>1, <2>2, <3>1 DEF Counted
  <2>3. i # j => i \in Leaders(t) /\ job'[i].iter = job[i].iter
    BY <1>4 DEF Leaders, Moved, T
  <2>. QED
    BY <1>4, <2>1, <2>2, <2>3
<1>5. status'[t] = "NONE" =>
         iteration'[t] = 0 /\ Leaders(t)' = {} /\ Shown(t)' = {}
  BY DEF Counted
<1>. QED
  BY <1>3, <1>4, <1>5 DEF Counted

\* A set that grows by one element at most.
LEMMA OneMore ==
    ASSUME NEW A, NEW B, NEW x, IsFiniteSet(A), B \subseteq A \cup {x}
    PROVE  /\ IsFiniteSet(B) /\ Cardinality(A) \in Nat /\ Cardinality(B) \in Nat
           /\ Cardinality(B) <= Cardinality(A) + 1
<1>1. /\ IsFiniteSet(A \cup {x})
      /\ Cardinality(A \cup {x}) \in {Cardinality(A), Cardinality(A) + 1}
  BY FS_AddElement
<1>2. IsFiniteSet(B) /\ Cardinality(B) <= Cardinality(A \cup {x})
  BY <1>1, FS_Subset
<1>3. Cardinality(A) \in Nat /\ Cardinality(B) \in Nat
  BY <1>2, FS_CardinalityType
<1>. QED
  BY <1>1, <1>2, <1>3

\* A set that loses an element.
LEMMA OneLess ==
    ASSUME NEW A, NEW B, NEW x \in A, IsFiniteSet(A), B \subseteq A \ {x}
    PROVE  /\ IsFiniteSet(B) /\ Cardinality(A) \in Nat /\ Cardinality(B) \in Nat
           /\ Cardinality(B) + 1 <= Cardinality(A)
<1>1. IsFiniteSet(A \ {x}) /\ Cardinality(A \ {x}) = Cardinality(A) - 1
  BY FS_RemoveElement
<1>2. IsFiniteSet(B) /\ Cardinality(B) <= Cardinality(A \ {x})
  BY <1>1, FS_Subset
<1>3. Cardinality(A) \in Nat /\ Cardinality(B) \in Nat
  BY <1>2, FS_CardinalityType
<1>. QED
  BY <1>1, <1>2, <1>3

\* Fewer rounds are ahead of t, or as many.
LEMMA NoneAhead ==
    ASSUME IInv, IInv', NEW t \in Tasks, Counted(t),
           Leaders(t)' \subseteq Leaders(t), Shown(t)' \subseteq Shown(t),
           Allowed <= Allowed'
    PROVE  /\ IsFiniteSet(Leaders(t)') /\ IsFiniteSet(Shown(t)')
           /\ Ahead(t)' + Allowed <= Ahead(t) + Allowed'
<1>1. /\ IsFiniteSet(Leaders(t)') /\ IsFiniteSet(Shown(t)')
      /\ Cardinality(Leaders(t)') <= Cardinality(Leaders(t))
      /\ Cardinality(Shown(t)') <= Cardinality(Shown(t))
  BY FS_Subset DEF Counted
<1>2. /\ Cardinality(Leaders(t)) \in Nat /\ Cardinality(Leaders(t)') \in Nat
      /\ Cardinality(Shown(t)) \in Nat /\ Cardinality(Shown(t)') \in Nat
  BY <1>1, FS_CardinalityType DEF Counted
<1>3. Allowed \in Int /\ Allowed' \in Int
  BY TaskEngineAssumption DEF Allowed, Spent, IInv, TypeOK, Trouble
<1>4. /\ Ahead(t) = Cardinality(Leaders(t)) + Cardinality(Shown(t))
      /\ Ahead(t)' = Cardinality(Leaders(t)') + Cardinality(Shown(t)')
  BY DEF Ahead
<1>. QED
  BY <1>1, <1>2, <1>3, <1>4

\* No step gives back what was spent.
LEMMA SpendingGrows ==
    ASSUME IInv, [Next]_vars
    PROVE  /\ Allowed <= Allowed'
           /\ \A k \in {"message", "duplicate"} : budget'[k] <= budget[k]
<1>1. \A k \in {"message", "duplicate"} : budget'[k] <= budget[k]
  <2>0. budget \in [Trouble -> Nat] /\ {"message", "duplicate"} \subseteq Trouble
    BY DEF IInv, TypeOK, Trouble
  <2>1. ASSUME NEW k, Spend(k)
        PROVE  \A q \in {"message", "duplicate"} : budget'[q] <= budget[q]
    BY <2>0, <2>1 DEF Spend
  <2>2. ASSUME budget' = budget
        PROVE  \A q \in {"message", "duplicate"} : budget'[q] <= budget[q]
    BY <2>0, <2>2
  <2>3. ASSUME NEW j \in Jobs, Resume(j) PROVE budget' = budget
    <3>1. CASE Plan(j)
      <4>1. PICK p \in Plans :
               \/ PlanAwaitsUser(j, p) \/ PlanCompletes(j, p)
               \/ PlanFails(j, p) \/ PlanAsksUser(j, p)
               \/ PlanReplans(j, p) \/ PlanWaits(j, p) \/ PlanExecutes(j, p)
        BY <3>1 DEF Plan
      <4>2. CASE PlanAwaitsUser(j, p) \/ PlanCompletes(j, p) \/ PlanFails(j, p)
        BY <4>2 DEF PlanAwaitsUser, PlanCompletes, PlanFails
      <4>3. CASE PlanAsksUser(j, p) \/ PlanReplans(j, p)
        BY <4>3 DEF PlanAsksUser, PlanReplans
      <4>4. CASE PlanWaits(j, p)
        BY <4>4 DEF PlanWaits
      <4>5. CASE PlanExecutes(j, p)
        BY <4>5 DEF PlanExecutes
      <4>. QED
        BY <4>1, <4>2, <4>3, <4>4, <4>5
    <3>2. CASE ~Plan(j)
      BY <2>3, <3>2
      DEF Resume, Start, StartTask, Request, RequestTerminal, RequestSkipped,
          RequestExhausted, RequestScreen, RequestSent, RequestUnsent, Close,
          ScreenTerminal, ScreenDelivered, IterateTerminal, IterateSkipped,
          Iterate, AskAi, AiFails, AiFailed, AiAnswers, UserAsked, Waited,
          ActionsCreated, Dispatch, Send, SendFails, LeaveCycle, Record,
          ResultRecorded, ResultTerminal, CountUnanswered, BatchUnfinished,
          BatchFinished, DecideMarked, DecideEnds, DecideReplans, CancelTask,
          MessageResumes, MessageIgnored
    <3>. QED
      BY <3>1, <3>2
  <2>4. ASSUME \/ \E j \in Jobs, t \in Tasks :
                     Create(j, t) \/ Cancel(j, t) \/ Message(j, t)
               \/ \E j \in Jobs : Reject(j)
               \/ Disconnect \/ Reconnect \/ Expire \/ Restart
               \/ UNCHANGED vars
        PROVE  (\E k : Spend(k)) \/ budget' = budget
    BY <2>4
    DEF Create, Cancel, Message, Reject, Disconnect, Reconnect, Expire, Restart,
        vars
  <2>5. ASSUME AnswerScreen \/ AnswerAction
        PROVE  Spend("duplicate") \/ budget' = budget
    <3>1. CASE AnswerScreen
      <4>1. PICK r \in RequestIds : Answered(r)
        BY <3>1 DEF AnswerScreen, ScreenOrphan, ScreenFailed, ScreenArrived
      <4>. QED
        BY <4>1 DEF Answered
    <3>2. CASE AnswerAction
      <4>1. PICK j \in Jobs, a \in ActionIds, ok \in BOOLEAN :
               ResultArrived(j, a, ok)
        BY <3>2 DEF AnswerAction
      <4>. QED
        BY <4>1 DEF ResultArrived
    <3>. QED
      BY <2>5, <3>1, <3>2
  <2>. QED
    BY <2>1, <2>2, <2>3, <2>4, <2>5 DEF Next
<1>. QED
  BY <1>1, NextInv, TaskEngineAssumption
  DEF Allowed, Spent, IInv, TypeOK, Trouble

\* The keys agree in every environment.
LEMMA NextKeys ==
    ASSUME IInv, KeysAgree, [Next]_vars
    PROVE  KeysAgree'
<1>1. ASSUME NEW j \in Jobs, Moved(j, job'[j]), job'[j].pc # "request_send",
             \A r \in RequestIds : captures'[r] \in {captures[r], None},
             \A r \in RequestIds : screenPending'[r] \in {screenPending[r], None}
      PROVE  KeysAgree'
  BY <1>1, KeysRemain
<1>2. ASSUME NEW j \in Jobs, Plain(j) PROVE KeysAgree'
  BY <1>1, <1>2 DEF Plain, PlainNext
<1>3. ASSUME NEW j \in Jobs, NEW t \in Tasks, NewTask(j, t),
             UNCHANGED <<pending, device>>
      PROVE  KeysAgree'
  <2>. DEFINE h == [Idle EXCEPT !.pc = "create", !.task = t]
  <2>1. h \in Job /\ h.pc = "create"
    BY DEF Job, Idle, PC, TaskStatus
  <2>2. Moved(j, h) /\ job'[j] = h
    BY <1>3, <2>1, MoveTo DEF NewTask, IInv, Moved
  <2>. QED
    BY <1>1, <1>3, <2>1, <2>2 DEF pending, device
<1>4. ASSUME NEW j \in Jobs, Resume(j) \/ Reject(j) PROVE KeysAgree'
  <2>1. CASE MessageIgnored(j)
    <3>1. CASE Return(j) /\ UNCHANGED status
      BY <1>2, <2>1, <3>1, StoredIsPlain
    <3>. QED
      BY <1>3, <2>1, <3>1 DEF MessageIgnored
  <2>2. CASE RequestScreen(j)
    BY <2>2, RequestScreenKeys
  <2>3. CASE RequestSent(j)
    BY <2>3, RequestSentKeys
  <2>4. CASE Iterate(j) \/ Dispatch(j) \/ Send(j)
             \/ \E p \in Plans : PlanExecutes(j, p)
    <3>1. Moved(j, job'[j])
      BY <2>4, OthersMove
    <3>2. job'[j].pc # "request_send"
      <4>1. job \in [Jobs -> Job] /\ job' \in [Jobs -> Job]
        BY <3>1 DEF IInv, TypeOK, Moved
      <4>2. CASE Iterate(j)
        BY <4>1, <4>2 DEF Iterate, Job
      <4>3. CASE \E p \in Plans : PlanExecutes(j, p)
        <5>1. PICK new, done :
                 job' = [job EXCEPT ![j].pc = "created", ![j].todo = new,
                                    ![j].ok = done]
          BY <4>3 DEF PlanExecutes
        <5>. QED
          BY <4>1, <5>1 DEF Job
      <4>4. CASE Return(j)
        BY <4>1, <4>4 DEF Return, Idle
      <4>5. ASSUME NEW a, MarkSent(j, a) PROVE job'[j].pc = "send"
        BY <4>1, <4>5 DEF MarkSent, Job
      <4>. QED
        BY <2>4, <4>2, <4>3, <4>4, <4>5 DEF Dispatch, Send
    <3>3. captures' = captures /\ screenPending' = screenPending
      BY <2>4 DEF Iterate, Dispatch, Send, PlanExecutes, pending, device
    <3>. QED
      BY <1>1, <3>1, <3>2, <3>3
  <2>. QED
    BY <1>2, <1>4, <2>1, <2>2, <2>3, <2>4, OthersArePlain
<1>5. ASSUME NEW j \in Jobs, NEW t \in Tasks,
             Create(j, t) \/ Cancel(j, t) \/ Message(j, t)
      PROVE  KeysAgree'
  <2>1. CASE Message(j, t)
    <3>1. Moved(j, Begun("message", t))
      BY <2>1, BeginMoves DEF Message, IInv, PC
    <3>2. Moved(j, job'[j]) /\ job'[j].pc = "message"
      BY <3>1 DEF Moved, Begun, Idle
    <3>. QED
      BY <1>1, <2>1, <3>2 DEF Message, pending, device
  <2>. QED
    BY <1>2, <1>3, <1>5, <2>1, OthersArePlain DEF Create
<1>6. ASSUME NEW r \in RequestIds, Answered(r)
      PROVE  \A q \in RequestIds : captures'[q] \in {captures[q], None}
  BY <1>6 DEF Answered, IInv, TypeOK
<1>7. ASSUME NEW j \in Jobs, NEW r \in RequestIds, NEW echo \in EchoTaskId,
             ScreenFailed(j, r, echo) \/ ScreenArrived(j, r, echo)
      PROVE  KeysAgree'
  <2>1. Moved(j, job'[j])
    BY <1>7, OthersMove
  <2>2. job'[j].pc \in {"close", "screen"}
    BY <1>7 DEF ScreenFailed, ScreenArrived, Begin, Idle, IInv, TypeOK
  <2>3. Answered(r) /\ screenPending' = [screenPending EXCEPT ![r] = None]
    BY <1>7 DEF ScreenFailed, ScreenArrived
  <2>. QED
    BY <1>1, <1>6, <2>1, <2>2, <2>3 DEF IInv, TypeOK
<1>8. ASSUME NEW j \in Jobs, NEW a \in ActionIds, NEW ok \in BOOLEAN,
             ResultArrived(j, a, ok)
      PROVE  KeysAgree'
  <2>1. Moved(j, job'[j])
    BY <1>8, OthersMove
  <2>2. job'[j].pc \in {"return", "record"}
    BY <1>8 DEF ResultArrived, Idle, IInv, TypeOK
  <2>. QED
    BY <1>1, <1>8, <2>1, <2>2 DEF ResultArrived, pending
<1>9. ASSUME \/ \E r \in RequestIds, echo \in EchoTaskId : ScreenOrphan(r, echo)
             \/ Disconnect \/ Reconnect \/ Expire \/ Restart \/ UNCHANGED vars
      PROVE  KeysAgree'
  <2>1. \A i \in Jobs : job'[i] \in {job[i], Idle}
    BY <1>9 DEF IInv, TypeOK, ScreenOrphan, Disconnect, Reconnect, Expire,
                Restart, vars
  <2>2. \A r \in RequestIds : captures'[r] \in {captures[r], None}
    BY <1>6, <1>9 DEF IInv, TypeOK, ScreenOrphan, Disconnect, Reconnect, Expire,
                      Restart, vars, device
  <2>3. \A r \in RequestIds : screenPending'[r] \in {screenPending[r], None}
    BY <1>9 DEF IInv, TypeOK, ScreenOrphan, Disconnect, Reconnect, Expire,
                Restart, vars, pending
  <2>4. \A i \in Jobs : job'[i].pc = "request_send" =>
           job'[i] = job[i] /\ job[i].req \in RequestIds
    BY <2>1 DEF Idle, IInv, WellFormed, HandlerOK
  <2>. QED
    BY <2>2, <2>3, <2>4 DEF KeysAgree, At, T
<1>. QED
  BY <1>4, <1>5, <1>7, <1>8, <1>9 DEF Next, AnswerScreen, AnswerAction

\* The mode of a task after a step of one of its handlers.
LEMMA HandlerModes ==
    ASSUME IInv, NoOverride, NEW j \in Jobs, PlansOnce(job[j]),
           Resume(j) \/ Reject(j)
    PROVE  \A t \in Tasks : StaysSingle(t)
<1>1. job[j] \in Job /\ mode \in [Tasks -> ExecutionMode \cup {"unset"}]
      /\ instruction \in [Tasks -> ExecutionMode]
  BY DEF IInv, TypeOK
<1>. SUFFICES ASSUME NEW t \in Tasks, instruction[t] = "single_action",
                     mode[t] # "multi_step"
              PROVE  mode'[t] # "multi_step"
  BY DEF StaysSingle
<1>2. CASE mode' = mode
  BY <1>2
<1>3. CASE mode' = [mode EXCEPT ![T(j)] = "unset"]
  BY <1>1, <1>3
<1>4. CASE mode' = [mode EXCEPT ![T(j)] = CachedMode(T(j))]
  BY <1>1, <1>4 DEF CachedMode
<1>5. ASSUME NEW p \in Plans, At(j, "plan"),
             mode' = [mode EXCEPT ![T(j)] = EffectiveMode(p, job[j].mode)]
      PROVE  mode'[t] # "multi_step"
  <2>1. T(j) = t => job[j].mode = "single_action"
    BY <1>5 DEF PlansOnce, At, T
  <2>. QED
    BY <1>1, <1>5, <2>1 DEF EffectiveMode, NoOverride
<1>6. ASSUME Plan(j) PROVE mode'[t] # "multi_step"
  <2>1. PICK p \in Plans : \E v : Planned(j, p, v)
    BY <1>6
    DEF Plan, PlanAwaitsUser, PlanCompletes, PlanFails, PlanAsksUser,
        PlanReplans, PlanWaits, PlanExecutes
  <2>. QED
    BY <1>5, <2>1 DEF Planned
<1>7. ASSUME \/ RequestTerminal(j) \/ Close(j) \/ ScreenTerminal(j)
             \/ IterateTerminal(j) \/ AiFailed(j) \/ ResultTerminal(j)
      PROVE  mode'[t] # "multi_step"
  BY <1>2, <1>3, <1>7
  DEF RequestTerminal, Close, ScreenTerminal, IterateTerminal, AiFailed,
      ResultTerminal, ReturnCleared
<1>8. ASSUME Iterate(j) \/ BatchFinished(j) PROVE mode'[t] # "multi_step"
  BY <1>4, <1>8 DEF Iterate, BatchFinished
<1>9. ASSUME \/ Start(j) \/ StartTask(j) \/ Request(j) \/ RequestSkipped(j)
             \/ RequestExhausted(j) \/ RequestScreen(j) \/ RequestSent(j)
             \/ RequestUnsent(j) \/ ScreenDelivered(j) \/ IterateSkipped(j)
             \/ AskAi(j) \/ AiFails(j) \/ AiAnswers(j) \/ UserAsked(j)
             \/ Waited(j) \/ ActionsCreated(j) \/ Dispatch(j) \/ Send(j)
             \/ SendFails(j) \/ LeaveCycle(j) \/ Record(j) \/ ResultRecorded(j)
             \/ CountUnanswered(j) \/ BatchUnfinished(j) \/ DecideMarked(j)
             \/ DecideEnds(j) \/ DecideReplans(j) \/ CancelTask(j)
             \/ MessageResumes(j) \/ MessageIgnored(j) \/ Reject(j)
      PROVE  mode'[t] # "multi_step"
  <2>1. mode' = mode
    BY <1>9
    DEF Start, StartTask, Request, RequestSkipped, RequestExhausted,
        RequestScreen, RequestSent, RequestUnsent, ScreenDelivered,
        IterateSkipped, AskAi, AiFails, AiAnswers, UserAsked, Waited,
        ActionsCreated, Dispatch, Send, SendFails, LeaveCycle, Record,
        ResultRecorded, CountUnanswered, BatchUnfinished, DecideMarked,
        DecideEnds, DecideReplans, CancelTask, MessageResumes, MessageIgnored,
        Reject
  <2>. QED
    BY <2>1
<1>. QED
  BY <1>6, <1>7, <1>8, <1>9 DEF Resume

\* A single action is not planned again by itself.
LEMMA NoSecondRound ==
    ASSUME IInv, NoOverride, NEW j \in Jobs, PlansOnce(job[j]),
           instruction[T(j)] = "single_action"
    PROVE  /\ \A p \in Plans : ~Planned(j, p, "replan")
           /\ ~DecideReplans(j) /\ ~Waited(j)
<1>1. \A p \in Plans : ~Planned(j, p, "replan")
  <2>1. ASSUME NEW p \in Plans, Planned(j, p, "replan") PROVE FALSE
    <3>1. PlanVerdict(p, "single_action") = "replan"
      BY <2>1 DEF Planned, PlansOnce, At, T
    <3>2. EffectiveMode(p, "single_action") # "single_action"
      BY <3>1 DEF PlanVerdict, ShouldReplan
    <3>3. p.mode \in ExecutionMode \cup {"none"} /\ p.mode # "multi_step"
      BY TaskEngineAssumption DEF PlanSpace, NoOverride
    <3>. QED
      BY <3>2, <3>3 DEF EffectiveMode, ExecutionMode
  <2>. QED
    BY <2>1
<1>2. ~DecideReplans(j)
  BY DEF DecideReplans, Decision, AfterBatch, PlansOnce, At, T
<1>3. ~Waited(j)
  BY DEF Waited, PlansOnce, At, T
<1>. QED
  BY <1>1, <1>2, <1>3

\* Handler j brings task t no nearer to a round too many.
NoNearer(j, t) ==
    /\ iteration'[t] = iteration[t]
    /\ \/ status'[t] # "NONE"
       \/ /\ status[t] = "NONE"
          /\ Leaders(t)' \subseteq Leaders(t) /\ Shown(t)' \subseteq Shown(t)
    /\ IsFiniteSet(Leaders(t)') /\ IsFiniteSet(Shown(t)')
    /\ Ahead(t)' + Allowed <= Ahead(t) + Allowed'
    /\ j \in Leaders(t)' =>
          \/ job'[j].iter = iteration[t]
          \/ j \in Leaders(t) /\ job'[j].iter = job[j].iter

\* A step of handler j, task by task.
LEMMA ShotsFrom ==
    ASSUME IInv, Shots, [Next]_vars, NEW j \in Jobs, Moved(j, job'[j]),
           instruction' = instruction, \A t \in Tasks : StaysSingle(t),
           \A t \in Tasks : instruction[t] = "single_action" =>
              NoNearer(j, t) \/ Counted(t)',
           PlansOnce(job[j])'
    PROVE  Shots'
<1>1. IInv'
  BY NextInv
<1>2. \A k \in {"message", "duplicate"} : budget'[k] <= Budget[k]
  BY <1>1, SpendingGrows, TaskEngineAssumption DEF Shots, IInv, TypeOK, Trouble
<1>3. ASSUME NEW t \in Tasks, instruction'[t] = "single_action"
      PROVE  Counted(t)'
  <2>1. Counted(t) /\ (NoNearer(j, t) \/ Counted(t)')
    BY <1>3 DEF Shots
  <2>2. mode'[t] # "multi_step"
    BY <1>3, <2>1 DEF StaysSingle, Counted
  <2>. QED
    BY <1>1, <2>1, <2>2, CountedFrom DEF NoNearer
<1>4. ASSUME NEW i \in Jobs PROVE PlansOnce(job[i])'
  <2>1. i # j => job'[i] = job[i]
    BY DEF Moved
  <2>. QED
    BY <2>1 DEF Shots, PlansOnce
<1>. QED
  BY <1>2, <1>3, <1>4 DEF Shots

\* A handler that goes on, or begins something that leads to no round.
LEMMA OnwardNearer ==
    ASSUME IInv, [Next]_vars, NEW j \in Jobs, Moved(j, job'[j]), Onward(j),
           NEW t \in Tasks, Counted(t), instruction[t] = "single_action",
           iteration'[t] = iteration[t],
           \A r \in RequestIds : captures'[r] = t => captures[r] = t,
           status'[t] = "NONE" => status[t] = "NONE"
    PROVE  NoNearer(j, t)
<1>1. Leaders(t)' \subseteq Leaders(t)
  BY DEF Leaders, Moved, Onward, T
<1>2. Shown(t)' \subseteq Shown(t)
  BY DEF Shown
<1>3. j \in Leaders(t)' =>
         \/ job'[j].iter = iteration[t]
         \/ j \in Leaders(t) /\ job'[j].iter = job[j].iter
  BY DEF Leaders, Onward, T
<1>. QED
  BY <1>1, <1>2, <1>3, NextInv, SpendingGrows, NoneAhead DEF NoNearer

\* Such a step.
LEMMA OnwardShots ==
    ASSUME IInv, Shots, [Next]_vars, NEW j \in Jobs, Moved(j, job'[j]), Onward(j),
           iteration' = iteration, instruction' = instruction,
           \A t \in Tasks : StaysSingle(t),
           \A r \in RequestIds : captures'[r] \in {captures[r], None},
           \A t \in Tasks : status'[t] = "NONE" => status[t] = "NONE",
           PlansOnce(job[j])'
    PROVE  Shots'
<1>1. \A t \in Tasks : instruction[t] = "single_action" => NoNearer(j, t)
  BY OnwardNearer, TaskEngineAssumption DEF Shots
<1>. QED
  BY <1>1, ShotsFrom

\* Where plain steps leave the handler, as to the rounds.
LEMMA PlainOnward ==
    ASSUME IInv, NoOverride, [Next]_vars, NEW j \in Jobs, Plain(j),
           PlansOnce(job[j]),
           T(j) \in Tasks /\ mode[T(j)] = "multi_step"
              => instruction[T(j)] # "single_action",
           \/ Reject(j)
           \/ MessageIgnored(j) /\ Return(j)
           \/ Resume(j) /\ ~RequestScreen(j) /\ ~RequestSent(j) /\ ~Iterate(j)
                        /\ ~Dispatch(j) /\ ~Send(j) /\ ~MessageIgnored(j)
                        /\ \A p \in Plans : ~PlanExecutes(j, p)
    PROVE  Onward(j) /\ PlansOnce(job[j])'
<1>1. /\ job[j] \in Job /\ instruction' = instruction
      /\ mode \in [Tasks -> ExecutionMode \cup {"unset"}]
      /\ Moved(j, job'[j]) /\ (~At(j, "idle") => T(j) \in Tasks)
  BY DEF IInv, TypeOK, Plain, WellFormed, HandlerOK, At, T
<1>2. ASSUME Return(j) \/ ReturnCleared(j) PROVE Onward(j) /\ PlansOnce(job[j])'
  <2>1. job'[j].pc = "idle"
    BY <1>2, ReturnMoves DEF IInv, Moved, Idle
  <2>. QED
    BY <2>1 DEF Onward, PlansOnce, Asking
<1>3. ASSUME NEW p \in PC, AwaitTask(j, p), T(j) \in Tasks,
             \/ <<job[j].pc, p>> \in
                   {<<"create", "start">>, <<"request", "request_check">>,
                    <<"message", "request_check">>, <<"screen", "iterate">>,
                    <<"recorded", "result">>}
             \/ instruction[T(j)] # "single_action"
      PROVE  Onward(j) /\ PlansOnce(job[j])'
  <2>2. job'[j] = Read(j, p)
    BY <1>3, AwaitTaskMoves DEF IInv, Moved
  <2>3. job'[j].pc = p /\ job'[j].task = T(j) /\ job'[j].iter = iteration[T(j)]
    BY <1>1, <2>2 DEF Read, Job, T
  <2>. QED
    BY <1>1, <1>3, <2>3 DEF Onward, PlansOnce, Asking, T
<1>4. ASSUME NEW p \in PC, Await(j, p),
             \/ <<job[j].pc, p>> \in
                   {<<"start", "request">>, <<"ask_ai", "ai">>, <<"ai", "plan">>}
             \/ p \in {"close", "return", "ai_failed", "asked", "dispatch",
                       "recorded"}
             \/ instruction[T(j)] # "single_action"
      PROVE  Onward(j) /\ PlansOnce(job[j])'
  <2>1. job'[j] = [job[j] EXCEPT !.pc = p]
    BY <1>4, AwaitMoves DEF IInv, Moved
  <2>2. /\ job'[j].pc = p /\ job'[j].task = T(j) /\ job'[j].mode = job[j].mode
        /\ job'[j].iter = job[j].iter
    BY <1>1, <2>1 DEF Job, T
  <2>. QED
    BY <1>1, <1>4, <2>2 DEF Onward, PlansOnce, Asking, T
<1>5. ASSUME Plan(j), \A p \in Plans : ~PlanExecutes(j, p)
      PROVE  Onward(j) /\ PlansOnce(job[j])'
  <2>1. PICK p \in Plans :
           \/ PlanAwaitsUser(j, p) \/ PlanCompletes(j, p) \/ PlanFails(j, p)
           \/ PlanAsksUser(j, p)   \/ PlanReplans(j, p)   \/ PlanWaits(j, p)
    BY <1>5 DEF Plan
  <2>2. CASE PlanReplans(j, p)
    BY <1>1, <1>3, <2>2, NoSecondRound DEF PlanReplans, Planned, At, PC
  <2>3. CASE PlanWaits(j, p)
    BY <1>4, <2>3, NoSecondRound DEF PlanWaits, PC
  <2>. QED
    BY <1>4, <2>1, <2>2, <2>3
    DEF PlanAwaitsUser, PlanCompletes, PlanFails, PlanAsksUser, CompleteTask,
        FailTask, PC
<1>6. ASSUME CountUnanswered(j) PROVE Onward(j) /\ PlansOnce(job[j])'
  <2>1. PICK ok : job' = [job EXCEPT ![j].pc = "count", ![j].ok = ok]
    BY <1>6 DEF CountUnanswered
  <2>2. job'[j].pc = "count"
    BY <1>1, <2>1 DEF IInv, TypeOK, Job
  <2>. QED
    BY <2>2 DEF Onward, PlansOnce, Asking
<1>7. ASSUME BatchFinished(j) PROVE Onward(j) /\ PlansOnce(job[j])'
  <2>1. PICK ok : job' = [job EXCEPT ![j].pc = "decide",
                                     ![j].mode = CachedMode(T(j)),
                                     ![j].ok = ok]
    BY <1>7 DEF BatchFinished
  <2>2. /\ job'[j].pc = "decide" /\ job'[j].mode = CachedMode(T(j))
        /\ job'[j].task = T(j) /\ T(j) \in Tasks
    BY <1>1, <1>7, <2>1
    DEF IInv, TypeOK, Job, WellFormed, HandlerOK, BatchFinished, At, T
  <2>3. instruction[T(j)] = "single_action" => CachedMode(T(j)) = "single_action"
    BY <1>1, <2>2 DEF CachedMode, ExecutionMode, IInv, TypeOK
  <2>. QED
    BY <1>1, <2>2, <2>3 DEF Onward, PlansOnce, Asking, T
<1>8. ASSUME \/ RequestTerminal(j) \/ RequestSkipped(j) \/ Close(j)
             \/ ScreenTerminal(j) \/ IterateTerminal(j) \/ IterateSkipped(j)
             \/ LeaveCycle(j) \/ ResultTerminal(j) \/ BatchUnfinished(j)
             \/ Reject(j)
             \/ MessageIgnored(j) /\ Return(j)
      PROVE  Onward(j) /\ PlansOnce(job[j])'
  BY <1>2, <1>8
  DEF RequestTerminal, RequestSkipped, Close, ScreenTerminal, IterateTerminal,
      IterateSkipped, LeaveCycle, ResultTerminal, BatchUnfinished, Reject
<1>9. ASSUME \/ Start(j) \/ Request(j) \/ ScreenDelivered(j)
             \/ ResultRecorded(j) \/ DecideReplans(j) \/ Waited(j)
             \/ MessageResumes(j)
      PROVE  Onward(j) /\ PlansOnce(job[j])'
  <2>1. CASE DecideReplans(j) \/ Waited(j)
    <3>1. instruction[T(j)] # "single_action"
      BY <2>1, NoSecondRound
    <3>. QED
      BY <1>1, <1>3, <2>1, <3>1 DEF DecideReplans, Waited, At, PC
  <2>2. CASE MessageResumes(j)
    BY <1>1, <1>3, <2>2 DEF MessageResumes, At, PC
  <2>3. CASE Start(j) \/ Request(j) \/ ScreenDelivered(j) \/ ResultRecorded(j)
    BY <1>1, <1>3, <2>3
    DEF Start, Request, ScreenDelivered, ResultRecorded, At, PC
  <2>. QED
    BY <1>9, <2>1, <2>2, <2>3
<1>10. ASSUME \/ StartTask(j) \/ RequestExhausted(j) \/ RequestUnsent(j)
              \/ AskAi(j) \/ AiFails(j) \/ AiFailed(j) \/ AiAnswers(j)
              \/ UserAsked(j) \/ ActionsCreated(j) \/ SendFails(j) \/ Record(j)
              \/ DecideMarked(j) \/ DecideEnds(j) \/ CancelTask(j)
       PROVE  Onward(j) /\ PlansOnce(job[j])'
  BY <1>2, <1>4, <1>10
  DEF StartTask, RequestExhausted, RequestUnsent, AskAi, AiFails, AiFailed,
      AiAnswers, UserAsked, ActionsCreated, SendFails, Record, DecideMarked,
      DecideEnds, CancelTask, FailTask, CompleteTask, At, PC
<1>11. ASSUME Resume(j), ~RequestScreen(j), ~RequestSent(j), ~Iterate(j),
              ~Dispatch(j), ~Send(j), ~MessageIgnored(j), ~Plan(j)
       PROVE  Onward(j) /\ PlansOnce(job[j])'
  BY <1>6, <1>7, <1>8, <1>9, <1>10, <1>11 DEF Resume
<1>12. ASSUME Resume(j), ~RequestScreen(j), ~RequestSent(j), ~Iterate(j),
              ~Dispatch(j), ~Send(j), ~MessageIgnored(j),
              \A p \in Plans : ~PlanExecutes(j, p)
       PROVE  Onward(j) /\ PlansOnce(job[j])'
  BY <1>5, <1>11, <1>12
<1>13. ASSUME \/ Reject(j)
              \/ MessageIgnored(j) /\ Return(j)
       PROVE  Onward(j) /\ PlansOnce(job[j])'
  BY <1>2, <1>13 DEF Reject
<1>. QED
  BY <1>12, <1>13

\* A plain step.
LEMMA PlainShots ==
    ASSUME IInv, Shots, NoOverride, [Next]_vars, NEW j \in Jobs, Plain(j),
           \/ Reject(j)
           \/ MessageIgnored(j) /\ Return(j)
           \/ Resume(j) /\ ~RequestScreen(j) /\ ~RequestSent(j) /\ ~Iterate(j)
                        /\ ~Dispatch(j) /\ ~Send(j) /\ ~MessageIgnored(j)
                        /\ \A p \in Plans : ~PlanExecutes(j, p)
    PROVE  Shots'
<1>1. Resume(j) \/ Reject(j)
  BY DEF Resume
<1>2. Moved(j, job'[j])
  BY DEF Plain
<1>3. PlansOnce(job[j]) /\ \A t \in Tasks : instruction[t] = "single_action" =>
                                               mode[t] # "multi_step"
  BY DEF Shots, Counted
<1>4. Onward(j) /\ PlansOnce(job[j])'
  BY <1>3, PlainOnward
<1>5. \A t \in Tasks : StaysSingle(t)
  BY <1>1, <1>3, HandlerModes
<1>6. /\ iteration' = iteration /\ instruction' = instruction
      /\ captures' = captures
      /\ \A t \in Tasks : status'[t] = "NONE" => status[t] = "NONE"
  BY DEF Plain, PlainChange, Terminal
<1>. QED
  BY <1>2, <1>4, <1>5, <1>6, OnwardShots

\* A batch is stored or sent: rounds are as before.
LEMMA BatchShots ==
    ASSUME IInv, Shots, NoOverride, NEW j \in Jobs,
           \/ Dispatch(j) \/ Send(j)
           \/ \E p \in Plans : PlanExecutes(j, p)
    PROVE  Shots'
<1>1. [Next]_vars /\ Resume(j)
  BY DEF Next, Resume, Plan
<1>2. Moved(j, job'[j])
  BY <1>1, OthersMove
<1>3. /\ iteration' = iteration /\ instruction' = instruction
      /\ status' = status /\ captures' = captures
  BY DEF Dispatch, Send, PlanExecutes, rows, device
<1>4. job'[j].pc \in {"idle", "send", "created"}
  <2>1. job \in [Jobs -> Job] /\ job' \in [Jobs -> Job]
    BY <1>2 DEF IInv, TypeOK, Moved
  <2>2. CASE Return(j)
    BY <2>1, <2>2 DEF Return, Idle
  <2>3. ASSUME NEW a, MarkSent(j, a) PROVE job'[j].pc = "send"
    BY <2>1, <2>3 DEF MarkSent, Job
  <2>4. CASE \E p \in Plans : PlanExecutes(j, p)
    <3>1. PICK new, done :
             job' = [job EXCEPT ![j].pc = "created", ![j].todo = new,
                                ![j].ok = done]
      BY <2>4 DEF PlanExecutes
    <3>. QED
      BY <2>1, <3>1 DEF Job
  <2>. QED
    BY <2>2, <2>3, <2>4 DEF Dispatch, Send
<1>5. Onward(j) /\ PlansOnce(job[j])'
  BY <1>4 DEF Onward, PlansOnce, Asking
<1>6. \A t \in Tasks : StaysSingle(t)
  BY <1>1, HandlerModes DEF Shots
<1>. QED
  BY <1>1, <1>2, <1>3, <1>5, <1>6, OnwardShots

\* A screenshot is asked for: the round is still ahead.
LEMMA RequestScreenShots ==
    ASSUME IInv, Shots, NoOverride, NEW j \in Jobs, RequestScreen(j)
    PROVE  Shots'
<1>1. [Next]_vars /\ Resume(j)
  BY DEF Next, Resume
<1>2. /\ Moved(j, job'[j]) /\ job'[j].pc = "request_send"
      /\ job'[j].task = T(j) /\ job'[j].iter = job[j].iter
  BY RequestScreenMoves DEF Moved
<1>3. /\ iteration' = iteration /\ instruction' = instruction
      /\ captures' = captures /\ job[j].pc = "request_check"
      /\ \A t \in Tasks : status'[t] = "NONE" => status[t] = "NONE"
  BY DEF RequestScreen, SetStatus, device, At, IInv, TypeOK
<1>4. Onward(j) /\ PlansOnce(job[j])'
  BY <1>2, <1>3 DEF Onward, PlansOnce, Asking
<1>5. \A t \in Tasks : StaysSingle(t)
  BY <1>1, HandlerModes DEF Shots
<1>. QED
  BY <1>1, <1>2, <1>3, <1>4, <1>5, OnwardShots

\* The request is at the device: its handler leads nowhere any more.
LEMMA RequestSentShots ==
    ASSUME IInv, Shots, NoOverride, NEW j \in Jobs, RequestSent(j)
    PROVE  Shots'
<1>1. [Next]_vars /\ Resume(j)
  BY DEF Next, Resume
<1>2. PICK u \in Tasks, q \in RequestIds :
         u = T(j) /\ q = job[j].req /\ job[j].pc = "request_send"
  BY DEF RequestSent, At, T, IInv, WellFormed, HandlerOK
<1>3. Moved(j, Idle) /\ job'[j] = Idle
  BY ReturnMoves DEF RequestSent, IInv, Moved
<1>4. \A r \in RequestIds : captures'[r] = IF r = q THEN u ELSE captures[r]
  BY <1>2 DEF RequestSent, IInv, TypeOK
<1>5. /\ iteration' = iteration /\ instruction' = instruction
      /\ status' = status /\ budget' = budget
  BY DEF RequestSent, rows
<1>6. Onward(j) /\ PlansOnce(job[j])'
  BY <1>3 DEF Onward, PlansOnce, Asking, Idle
<1>7. ASSUME NEW t \in Tasks, instruction[t] = "single_action"
      PROVE  NoNearer(j, t)
  <2>1. Counted(t)
    BY <1>7 DEF Shots
  <2>2. CASE t # u
    BY <1>1, <1>3, <1>4, <1>5, <1>6, <1>7, <2>1, <2>2, OnwardNearer
  <2>3. CASE t = u
    <3>1. j \in Leaders(t) /\ status[t] # "NONE"
      BY <1>2, <2>1, <2>3 DEF Leaders, Asking, Counted
    <3>2. Leaders(t)' \subseteq Leaders(t) \ {j}
      BY <1>3 DEF Leaders, Moved, Idle, Asking, T
    <3>3. Shown(t)' \subseteq Shown(t) \cup {q}
      BY <1>4 DEF Shown
    <3>4. /\ IsFiniteSet(Leaders(t)')
          /\ Cardinality(Leaders(t)) \in Nat
          /\ Cardinality(Leaders(t)') \in Nat
          /\ Cardinality(Leaders(t)') + 1 <= Cardinality(Leaders(t))
      BY <2>1, <3>1, <3>2, OneLess DEF Counted
    <3>5. /\ IsFiniteSet(Shown(t)')
          /\ Cardinality(Shown(t)) \in Nat /\ Cardinality(Shown(t)') \in Nat
          /\ Cardinality(Shown(t)') <= Cardinality(Shown(t)) + 1
      BY <2>1, <3>3, OneMore DEF Counted
    <3>6. Allowed \in Int /\ Allowed' = Allowed
      BY <1>5, TaskEngineAssumption DEF Allowed, Spent, IInv, TypeOK, Trouble
    <3>7. Ahead(t)' + Allowed <= Ahead(t) + Allowed'
      <4>1. /\ Ahead(t) = Cardinality(Leaders(t)) + Cardinality(Shown(t))
            /\ Ahead(t)' = Cardinality(Leaders(t)') + Cardinality(Shown(t)')
        BY DEF Ahead
      <4>. QED
        BY <3>4, <3>5, <3>6, <4>1
    <3>. QED
      BY <1>5, <3>1, <3>2, <3>4, <3>5, <3>7 DEF NoNearer
  <2>. QED
    BY <2>2, <2>3
<1>8. \A t \in Tasks : StaysSingle(t)
  BY <1>1, HandlerModes DEF Shots
<1>. QED
  BY <1>1, <1>3, <1>5, <1>6, <1>7, <1>8, ShotsFrom

\* A handler takes the lead for a screenshot the device no longer owes, or for
\* what was spent.
LEMMA LeadTaken ==
    ASSUME IInv, IInv', NEW t \in Tasks, Counted(t), NEW j \in Jobs, NEW r,
           Leaders(t)' \subseteq Leaders(t) \cup {j},
           \/ Shown(t)' \subseteq Shown(t) /\ Allowed + 1 <= Allowed'
           \/ /\ r \in Shown(t) /\ Shown(t)' \subseteq Shown(t) \ {r}
              /\ Allowed <= Allowed'
    PROVE  /\ IsFiniteSet(Leaders(t)') /\ IsFiniteSet(Shown(t)')
           /\ Ahead(t)' + Allowed <= Ahead(t) + Allowed'
<1>1. /\ IsFiniteSet(Leaders(t)')
      /\ Cardinality(Leaders(t)) \in Nat /\ Cardinality(Leaders(t)') \in Nat
      /\ Cardinality(Leaders(t)') <= Cardinality(Leaders(t)) + 1
  BY OneMore DEF Counted
<1>2. Allowed \in Int /\ Allowed' \in Int
  BY TaskEngineAssumption DEF Allowed, Spent, IInv, TypeOK, Trouble
<1>3. /\ Ahead(t) = Cardinality(Leaders(t)) + Cardinality(Shown(t))
      /\ Ahead(t)' = Cardinality(Leaders(t)') + Cardinality(Shown(t)')
  BY DEF Ahead
<1>4. CASE Shown(t)' \subseteq Shown(t) /\ Allowed + 1 <= Allowed'
  <2>1. IsFiniteSet(Shown(t)') /\ Cardinality(Shown(t)') <= Cardinality(Shown(t))
    BY <1>4, FS_Subset DEF Counted
  <2>2. Cardinality(Shown(t)) \in Nat /\ Cardinality(Shown(t)') \in Nat
    BY <2>1, FS_CardinalityType DEF Counted
  <2>. QED
    BY <1>1, <1>2, <1>3, <1>4, <2>1, <2>2
<1>5. CASE /\ r \in Shown(t) /\ Shown(t)' \subseteq Shown(t) \ {r}
           /\ Allowed <= Allowed'
  <2>1. /\ IsFiniteSet(Shown(t)')
        /\ Cardinality(Shown(t)) \in Nat /\ Cardinality(Shown(t)') \in Nat
        /\ Cardinality(Shown(t)') + 1 <= Cardinality(Shown(t))
    BY <1>5, OneLess DEF Counted
  <2>. QED
    BY <1>1, <1>2, <1>3, <1>5, <2>1
<1>. QED
  BY <1>4, <1>5

\* A handler that begins.
LEMMA BeginsShots ==
    ASSUME IInv, Shots, [Next]_vars, NEW j \in Jobs, NEW u \in Tasks, NEW r,
           Moved(j, job'[j]), job'[j].task = u, job'[j].iter = iteration[u],
           job'[j].pc \in {"message", "screen"}, status[u] # "NONE",
           status' = status, iteration' = iteration,
           instruction' = instruction, mode' = mode,
           \A q \in RequestIds : captures'[q] \in {captures[q], None},
           \/ Allowed + 1 <= Allowed'
           \/ /\ r \in RequestIds /\ captures[r] = u /\ captures'[r] = None
    PROVE  Shots'
<1>1. IInv' /\ Allowed <= Allowed'
  BY NextInv, SpendingGrows
<1>2. ASSUME NEW t \in Tasks, instruction[t] = "single_action"
      PROVE  NoNearer(j, t)
  <2>1. Counted(t)
    BY <1>2 DEF Shots
  <2>2. Shown(t)' \subseteq Shown(t)
    BY TaskEngineAssumption DEF Shown
  <2>3. CASE t = u
    <3>1. Leaders(t)' \subseteq Leaders(t) \cup {j}
      BY DEF Leaders, Moved, T
    <3>2. \/ Shown(t)' \subseteq Shown(t) /\ Allowed + 1 <= Allowed'
          \/ /\ r \in Shown(t) /\ Shown(t)' \subseteq Shown(t) \ {r}
             /\ Allowed <= Allowed'
      BY <1>1, <2>2, <2>3, TaskEngineAssumption DEF Shown
    <3>. QED
      BY <1>1, <2>1, <2>3, <3>1, <3>2, LeadTaken DEF NoNearer
  <2>4. CASE t # u
    <3>1. Leaders(t)' \subseteq Leaders(t) /\ j \notin Leaders(t)'
      BY <2>4 DEF Leaders, Moved, T
    <3>. QED
      BY <1>1, <2>1, <2>2, <3>1, NoneAhead DEF NoNearer
  <2>. QED
    BY <2>3, <2>4
<1>3. PlansOnce(job[j])'
  BY DEF PlansOnce
<1>. QED
  BY <1>2, <1>3, ShotsFrom DEF StaysSingle

\* A new task has its first round ahead.
LEMMA NewTaskShots ==
    ASSUME IInv, Shots, [Next]_vars, NEW j \in Jobs, NEW t \in Tasks,
           NewTask(j, t),
           UNCHANGED <<iteration, instruction, mode, device, budget>>
    PROVE  Shots'
<1>. DEFINE h == [Idle EXCEPT !.pc = "create", !.task = t]
<1>1. h \in Job /\ h.pc = "create" /\ h.task = t /\ h.iter = 0
  BY DEF Job, Idle, PC, TaskStatus
<1>2. Moved(j, h) /\ job'[j] = h
  BY <1>1, MoveTo DEF NewTask, IInv, Moved
<1>. HIDE DEF h
<1>3. /\ status[t] = "NONE"
      /\ \A u \in Tasks : status'[u] = "NONE" => status[u] = "NONE" /\ u # t
  BY DEF NewTask, SetStatus, IInv, TypeOK
<1>4. ASSUME NEW u \in Tasks, instruction[u] = "single_action"
      PROVE  NoNearer(j, u) \/ Counted(u)'
  <2>1. Counted(u) /\ IInv' /\ Allowed <= Allowed'
    BY <1>4, NextInv, SpendingGrows DEF Shots
  <2>2. Shown(u)' = Shown(u)
    BY DEF Shown, device
  <2>3. CASE u # t
    <3>1. Leaders(u)' \subseteq Leaders(u) /\ j \notin Leaders(u)'
      BY <1>1, <1>2, <2>3 DEF Leaders, Moved, T
    <3>. QED
      BY <1>3, <2>1, <2>2, <3>1, NoneAhead DEF NoNearer
  <2>4. CASE u = t
    <3>1. /\ Leaders(u) = {} /\ Shown(u)' = {} /\ iteration'[u] = 0
          /\ mode'[u] # "multi_step"
      BY <1>3, <2>1, <2>2, <2>4 DEF Counted
    <3>2. Leaders(u)' \subseteq {} \cup {j}
      BY <1>1, <1>2, <3>1 DEF Leaders, Moved, T
    <3>3. /\ IsFiniteSet(Leaders(u)') /\ IsFiniteSet(Shown(u)')
          /\ Cardinality(Leaders(u)') \in Nat /\ Cardinality(Leaders(u)') <= 1
          /\ Cardinality(Shown(u)') = 0
      <4>1. IsFiniteSet({}) /\ Cardinality({}) = 0
        BY FS_EmptySet
      <4>2. /\ IsFiniteSet(Leaders(u)') /\ Cardinality(Leaders(u)') \in Nat
            /\ Cardinality(Leaders(u)') <= Cardinality({}) + 1
        BY <3>2, <4>1, OneMore
      <4>. QED
        BY <3>1, <4>1, <4>2
    <3>4. Allowed' \in Int /\ 1 <= Allowed'
      BY TaskEngineAssumption DEF Shots, Allowed, Spent, IInv, TypeOK, Trouble
    <3>5. Ahead(u)' = Cardinality(Leaders(u)') + Cardinality(Shown(u)')
      BY DEF Ahead
    <3>6. \A i \in Leaders(u)' : job'[i].iter = 0
      BY <1>1, <1>2, <3>2
    <3>7. status'[u] # "NONE"
      BY <1>3, <2>4
    <3>. QED
      BY <3>1, <3>3, <3>4, <3>5, <3>6, <3>7 DEF Counted
  <2>. QED
    BY <2>3, <2>4
<1>5. PlansOnce(job[j])'
  BY <1>1, <1>2 DEF PlansOnce
<1>. QED
  BY <1>2, <1>4, <1>5, ShotsFrom DEF StaysSingle

\* A message, a cancellation or an answer of the device arrives.
LEMMA EventShots ==
    ASSUME IInv, KeysAgree, Shots, NEW j \in Jobs,
           \/ \E t \in Tasks : Cancel(j, t) \/ Message(j, t)
           \/ \E r \in RequestIds, echo \in EchoTaskId :
                 ScreenFailed(j, r, echo) \/ ScreenArrived(j, r, echo)
           \/ \E a \in ActionIds, ok \in BOOLEAN : ResultArrived(j, a, ok)
    PROVE  Shots'
<1>1. [Next]_vars
  BY DEF Next, AnswerScreen, AnswerAction
<1>2. /\ job \in [Jobs -> Job] /\ job' \in [Jobs -> Job]
      /\ budget \in [Trouble -> Nat] /\ IInv'
  BY <1>1, NextInv DEF IInv, TypeOK
<1>3. ASSUME Moved(j, job'[j]), job'[j].pc \notin Asking \cup {"wait"},
             job'[j].pc \notin {"ask_ai", "ai", "plan", "decide"},
             iteration' = iteration, instruction' = instruction, mode' = mode,
             \A r \in RequestIds : captures'[r] \in {captures[r], None},
             \A t \in Tasks : status'[t] = "NONE" => status[t] = "NONE"
      PROVE  Shots'
  BY <1>1, <1>3, OnwardShots DEF Onward, PlansOnce, StaysSingle
<1>4. ASSUME NEW k \in {"message", "duplicate"}, Spend(k)
      PROVE  Allowed + 1 <= Allowed'
  BY <1>2, <1>4, TaskEngineAssumption DEF Spend, Allowed, Spent, Trouble
<1>5. ASSUME NEW t \in Tasks, Cancel(j, t) PROVE Shots'
  <2>1. Moved(j, Begun("cancel", t))
    BY <1>5, BeginMoves DEF Cancel, IInv, PC
  <2>2. Moved(j, job'[j]) /\ job'[j].pc = "cancel"
    BY <2>1 DEF Moved, Begun, Idle
  <2>. QED
    BY <1>3, <1>5, <2>2 DEF Cancel, rows, device, Asking
<1>6. ASSUME NEW t \in Tasks, Message(j, t) PROVE Shots'
  <2>1. Moved(j, Begun("message", t))
    BY <1>6, BeginMoves DEF Message, IInv, PC
  <2>2. /\ Moved(j, job'[j]) /\ job'[j].pc = "message"
        /\ job'[j].task = t /\ job'[j].iter = iteration[t]
    BY <2>1 DEF Moved, Begun, Idle
  <2>3. Allowed + 1 <= Allowed'
    BY <1>4, <1>6 DEF Message
  <2>. QED
    BY <1>1, <1>6, <2>2, <2>3, BeginsShots DEF Message, rows, device
<1>7. ASSUME NEW r \in RequestIds, NEW echo \in EchoTaskId,
             ScreenFailed(j, r, echo) \/ ScreenArrived(j, r, echo)
      PROVE  Shots'
  <2>1. PICK u \in Tasks : u = captures[r] /\ u = ResultTask(r, echo)
    BY <1>7 DEF ScreenFailed, ScreenArrived, ResultTask, KeysAgree, IInv, TypeOK
  <2>2. /\ \A q \in RequestIds : captures'[q] \in {captures[q], None}
        /\ captures'[r] = None \/ Spend("duplicate")
    BY <1>7 DEF ScreenFailed, ScreenArrived, Answered, IInv, TypeOK
  <2>3. CASE ScreenFailed(j, r, echo)
    <3>1. Moved(j, job'[j])
      BY <1>1, <2>3, OthersMove
    <3>2. job'[j].pc = "close"
      BY <1>2, <2>3 DEF ScreenFailed, Idle
    <3>3. \A t \in Tasks : status'[t] = "NONE" => status[t] = "NONE"
      BY <2>1, <2>3 DEF ScreenFailed, SetStatus, IInv, TypeOK
    <3>. QED
      BY <1>3, <2>2, <2>3, <3>1, <3>2, <3>3 DEF ScreenFailed, Asking
  <2>4. CASE ScreenArrived(j, r, echo) /\ instruction[u] = "single_action"
    <3>1. Moved(j, Begun("screen", u))
      BY <2>1, <2>4, BeginMoves DEF ScreenArrived, IInv, PC
    <3>2. /\ Moved(j, job'[j]) /\ job'[j].pc = "screen"
          /\ job'[j].task = u /\ job'[j].iter = iteration[u]
      BY <3>1 DEF Moved, Begun, Idle
    <3>3. status[u] # "NONE"
      BY <2>1, <2>4 DEF Shots, Counted, Shown
    <3>4. \/ Allowed + 1 <= Allowed'
          \/ r \in RequestIds /\ captures[r] = u /\ captures'[r] = None
      BY <1>4, <2>1, <2>2
    <3>. QED
      BY <1>1, <2>2, <2>4, <3>2, <3>3, <3>4, BeginsShots DEF ScreenArrived, rows
  <2>5. CASE ScreenArrived(j, r, echo) /\ instruction[u] # "single_action"
    <3>1. Moved(j, Begun("screen", u))
      BY <2>1, <2>5, BeginMoves DEF ScreenArrived, IInv, PC
    <3>2. Moved(j, job'[j]) /\ job'[j].pc = "screen" /\ job'[j].task = u
      BY <3>1 DEF Moved, Begun, Idle
    <3>3. Onward(j) /\ PlansOnce(job[j])'
      BY <2>5, <3>2 DEF Onward, PlansOnce, ScreenArrived, rows
    <3>. QED
      BY <1>1, <2>2, <2>5, <3>2, <3>3, OnwardShots
      DEF ScreenArrived, rows, StaysSingle
  <2>. QED
    BY <1>7, <2>3, <2>4, <2>5
<1>8. ASSUME NEW b \in ActionIds, NEW ok \in BOOLEAN, ResultArrived(j, b, ok)
      PROVE  Shots'
  <2>1. Moved(j, job'[j])
    BY <1>1, <1>8, OthersMove
  <2>2. job'[j].pc \in {"return", "record"}
    BY <1>2, <1>8 DEF ResultArrived, Idle
  <2>. QED
    BY <1>3, <1>8, <2>1, <2>2 DEF ResultArrived, rows, Asking
<1>. QED
  BY <1>5, <1>6, <1>7, <1>8

\* A round is counted: the handler that counts it led to it.
LEMMA IterateShots ==
    ASSUME IInv, Shots, NoOverride, NEW j \in Jobs, Iterate(j)
    PROVE  Shots'
<1>1. [Next]_vars /\ Resume(j)
  BY DEF Next, Resume
<1>2. Moved(j, job'[j])
  BY <1>1, OthersMove
<1>3. PICK u \in Tasks : u = T(j) /\ job[j].pc = "iterate"
  BY DEF Iterate, At, T, IInv, WellFormed, HandlerOK
<1>4. /\ job'[j].pc = "ask_ai" /\ job'[j].task = u
      /\ job'[j].mode = CachedMode(u)
  BY <1>3 DEF Iterate, IInv, TypeOK, Job, T
<1>5. /\ \A t \in Tasks :
            iteration'[t] = IF t = u THEN job[j].iter + 1 ELSE iteration[t]
      /\ instruction' = instruction /\ captures' = captures /\ budget' = budget
      /\ \A t \in Tasks : status'[t] = IF t = u THEN "RUNNING" ELSE status[t]
  BY <1>3 DEF Iterate, SetStatus, IInv, TypeOK, T, device
<1>6. ASSUME NEW t \in Tasks, instruction[t] = "single_action"
      PROVE  NoNearer(j, t) \/ Counted(t)'
  <2>1. Counted(t) /\ IInv' /\ Allowed <= Allowed'
    BY <1>1, <1>6, NextInv, SpendingGrows DEF Shots
  <2>2. Shown(t)' = Shown(t)
    BY <1>5 DEF Shown
  <2>3. CASE t # u
    <3>1. Leaders(t)' \subseteq Leaders(t) /\ j \notin Leaders(t)'
      BY <1>2, <1>4, <2>3 DEF Leaders, Moved, T
    <3>. QED
      BY <1>5, <2>1, <2>2, <2>3, <3>1, NoneAhead DEF NoNearer
  <2>4. CASE t = u
    <3>1. j \in Leaders(t) /\ mode'[t] # "multi_step"
      <4>1. StaysSingle(t)
        BY <1>1, HandlerModes DEF Shots
      <4>. QED
        BY <1>3, <1>6, <2>1, <2>4, <4>1 DEF Leaders, Asking, Counted, StaysSingle
    <3>2. Leaders(t)' \subseteq Leaders(t) \ {j}
      BY <1>2, <1>4 DEF Leaders, Moved, Asking, T
    <3>3. /\ IsFiniteSet(Leaders(t)')
          /\ Cardinality(Leaders(t)) \in Nat
          /\ Cardinality(Leaders(t)') \in Nat
          /\ Cardinality(Leaders(t)') + 1 <= Cardinality(Leaders(t))
      BY <2>1, <3>1, <3>2, OneLess DEF Counted
    <3>4. /\ IsFiniteSet(Shown(t)') /\ Cardinality(Shown(t)) \in Nat
          /\ Cardinality(Shown(t)') = Cardinality(Shown(t))
      BY <2>1, <2>2, FS_CardinalityType DEF Counted
    <3>5. Allowed \in Int /\ Allowed' = Allowed
      BY <1>5, TaskEngineAssumption DEF Allowed, Spent, IInv, TypeOK, Trouble
    <3>6. /\ Ahead(t) = Cardinality(Leaders(t)) + Cardinality(Shown(t))
          /\ Ahead(t)' = Cardinality(Leaders(t)') + Cardinality(Shown(t)')
      BY DEF Ahead
    <3>7. \A i \in Leaders(t) : job[i].iter \in Nat
                                /\ job[i].iter + Ahead(t) <= Allowed
      BY <2>1 DEF Counted, Leaders, IInv, TypeOK, Job
    <3>8. \A i \in Leaders(t)' : i \in Leaders(t) /\ job'[i].iter = job[i].iter
      BY <1>2, <3>2 DEF Moved, Leaders
    <3>9. \A i \in Leaders(t)' : job'[i].iter + Ahead(t)' <= Allowed'
      BY <3>3, <3>4, <3>5, <3>6, <3>7, <3>8
    <3>10. iteration'[t] + Ahead(t)' <= Allowed'
      BY <1>5, <2>4, <3>1, <3>3, <3>4, <3>5, <3>6, <3>7
    <3>. QED
      BY <1>5, <2>4, <3>1, <3>3, <3>4, <3>9, <3>10 DEF Counted
  <2>. QED
    BY <2>3, <2>4
<1>7. PlansOnce(job[j])'
  <2>1. instruction[u] = "single_action" => CachedMode(u) = "single_action"
    BY DEF Shots, Counted, CachedMode, ExecutionMode, IInv, TypeOK
  <2>. QED
    BY <1>4, <1>5, <2>1 DEF PlansOnce
<1>8. \A t \in Tasks : StaysSingle(t)
  BY <1>1, HandlerModes DEF Shots
<1>. QED
  BY <1>1, <1>2, <1>5, <1>6, <1>7, <1>8, ShotsFrom

\* The environment brings no round.
LEMMA EnvironmentShots ==
    ASSUME IInv, Shots, [Next]_vars,
           \/ \E r \in RequestIds, echo \in EchoTaskId : ScreenOrphan(r, echo)
           \/ Disconnect \/ Reconnect \/ Expire \/ Restart \/ UNCHANGED vars
    PROVE  Shots'
<1>1. /\ status' = status /\ iteration' = iteration
      /\ instruction' = instruction
  BY DEF ScreenOrphan, Disconnect, Reconnect, Expire, Restart, vars, rows
<1>2. \A i \in Jobs : job'[i] \in {job[i], Idle}
  BY DEF IInv, TypeOK, ScreenOrphan, Disconnect, Reconnect, Expire, Restart, vars
<1>3. \A r \in RequestIds : captures'[r] \in {captures[r], None}
  BY DEF IInv, TypeOK, ScreenOrphan, Answered, Disconnect, Reconnect, Expire,
         Restart, vars, device
<1>4. \A t \in Tasks : mode'[t] \in {mode[t], "unset"}
  BY DEF IInv, TypeOK, ScreenOrphan, Disconnect, Reconnect, Expire, Restart, vars
<1>5. IInv' /\ Allowed <= Allowed'
      /\ \A k \in {"message", "duplicate"} : budget'[k] <= Budget[k]
  BY NextInv, SpendingGrows, TaskEngineAssumption
  DEF Shots, IInv, TypeOK, Trouble
<1>6. Idle.pc = "idle"
  BY DEF Idle
<1>7. ASSUME NEW t \in Tasks, instruction'[t] = "single_action"
      PROVE  Counted(t)'
  <2>1. Counted(t)
    BY <1>1, <1>7 DEF Shots
  <2>2. /\ Leaders(t)' \subseteq Leaders(t) /\ Shown(t)' \subseteq Shown(t)
        /\ \A i \in Leaders(t)' : job'[i] = job[i]
    BY <1>2, <1>3, <1>6, TaskEngineAssumption DEF Leaders, Shown, Asking, T
  <2>3. /\ IsFiniteSet(Leaders(t)') /\ IsFiniteSet(Shown(t)')
        /\ Ahead(t)' + Allowed <= Ahead(t) + Allowed'
    BY <1>5, <2>1, <2>2, NoneAhead
  <2>4. /\ Ahead(t) \in Nat /\ Ahead(t)' \in Nat /\ iteration[t] \in Nat
        /\ Allowed \in Int /\ Allowed' \in Int
    <3>1. /\ Cardinality(Leaders(t)) \in Nat /\ Cardinality(Shown(t)) \in Nat
          /\ Cardinality(Leaders(t)') \in Nat /\ Cardinality(Shown(t)') \in Nat
      BY <2>1, <2>3, FS_CardinalityType DEF Counted
    <3>2. /\ Ahead(t) = Cardinality(Leaders(t)) + Cardinality(Shown(t))
          /\ Ahead(t)' = Cardinality(Leaders(t)') + Cardinality(Shown(t)')
      BY DEF Ahead
    <3>. QED
      BY <1>5, <3>1, <3>2, TaskEngineAssumption
      DEF IInv, TypeOK, Allowed, Spent, Trouble
  <2>5. ASSUME NEW i \in Leaders(t)' PROVE job'[i].iter + Ahead(t)' <= Allowed'
    <3>1. i \in Leaders(t) /\ job'[i] = job[i] /\ job[i].iter \in Nat
      BY <2>2, <2>5 DEF Leaders, IInv, TypeOK, Job
    <3>. QED
      BY <2>1, <2>3, <2>4, <3>1 DEF Counted
  <2>6. iteration'[t] + Ahead(t)' <= Allowed'
    BY <1>1, <2>1, <2>3, <2>4 DEF Counted
  <2>. QED
    BY <1>1, <1>4, <2>1, <2>2, <2>3, <2>5, <2>6 DEF Counted
<1>8. ASSUME NEW i \in Jobs PROVE PlansOnce(job[i])'
  BY <1>1, <1>2, <1>6 DEF Shots, PlansOnce
<1>. QED
  BY <1>5, <1>7, <1>8 DEF Shots

\* Every step keeps the rounds.
LEMMA NextShots ==
    ASSUME IInv, KeysAgree, Shots, NoOverride, [Next]_vars
    PROVE  Shots'
<1>1. ASSUME NEW j \in Jobs, Resume(j) \/ Reject(j) PROVE Shots'
  <2>1. CASE MessageIgnored(j)
    <3>1. CASE Return(j) /\ UNCHANGED status
      BY <2>1, <3>1, StoredIsPlain, PlainShots
    <3>2. CASE \E t \in Tasks : NewTask(j, t)
      BY <2>1, <3>2, NewTaskShots DEF MessageIgnored
    <3>. QED
      BY <2>1, <3>1, <3>2 DEF MessageIgnored
  <2>2. CASE RequestScreen(j) \/ RequestSent(j) \/ Iterate(j)
    BY <2>2, RequestScreenShots, RequestSentShots, IterateShots
  <2>3. CASE Dispatch(j) \/ Send(j) \/ \E p \in Plans : PlanExecutes(j, p)
    BY <2>3, BatchShots
  <2>4. CASE Reject(j)
    BY <2>4, OthersArePlain, PlainShots
  <2>5. CASE /\ Resume(j)
             /\ ~RequestScreen(j) /\ ~RequestSent(j) /\ ~Iterate(j)
             /\ ~Dispatch(j) /\ ~Send(j) /\ ~MessageIgnored(j)
             /\ \A p \in Plans : ~PlanExecutes(j, p)
    BY <2>5, OthersArePlain, PlainShots
  <2>. QED
    BY <1>1, <2>1, <2>2, <2>3, <2>4, <2>5
<1>2. ASSUME NEW j \in Jobs, NEW t \in Tasks, Create(j, t) PROVE Shots'
  BY <1>2, NewTaskShots DEF Create
<1>. QED
  BY <1>1, <1>2, EventShots, EnvironmentShots
  DEF Next, AnswerScreen, AnswerAction

\* The rounds when the server starts.
LEMMA InitShots == ASSUME Init PROVE KeysAgree /\ Shots
<1>1. \A t \in Tasks : Leaders(t) = {} /\ Shown(t) = {}
  BY TaskEngineAssumption DEF Init, Leaders, Shown, Asking, Idle
<1>2. \A t \in Tasks : Ahead(t) = 0 + 0
  BY <1>1, FS_EmptySet DEF Ahead
<1>3. Allowed = 1
  BY TaskEngineAssumption DEF Init, Allowed, Spent, Trouble
<1>4. \A t \in Tasks : Counted(t)
  BY <1>1, <1>2, <1>3, FS_EmptySet DEF Init, Counted
<1>5. KeysAgree
  BY DEF Init, KeysAgree, At, Idle
<1>. QED
  BY <1>4, <1>5, TaskEngineAssumption DEF Init, Shots, PlansOnce, Idle, Trouble

\* Where no plan asks for more than one round, a single action is planned once,
\* and once more for each message and each answer that was repeated: a restart,
\* a lost socket, a rejected await or a batch of any size brings no other.
THEOREM SingleShotIsKept == ASSUME NoOverride PROVE Spec => []SingleShot
<1>. DEFINE Inv == IInv /\ KeysAgree /\ Shots
<1>1. Init => Inv
  BY InitInv, InitShots
<1>2. Inv /\ [Next]_vars => Inv'
  BY NextInv, NextKeys, NextShots
<1>3. Inv => SingleShot
  <2>. SUFFICES ASSUME Inv, NEW t \in Tasks, instruction[t] = "single_action"
                PROVE  iteration[t] <= 1 + Spent("message") + Spent("duplicate")
    BY DEF SingleShot
  <2>1. Counted(t) /\ iteration[t] \in Nat
    BY DEF Shots, IInv, TypeOK
  <2>2. Cardinality(Leaders(t)) \in Nat /\ Cardinality(Shown(t)) \in Nat
    BY <2>1, FS_CardinalityType DEF Counted
  <2>3. Allowed \in Int
    BY TaskEngineAssumption DEF Allowed, Spent, IInv, TypeOK, Trouble
  <2>. QED
    BY <2>1, <2>2, <2>3 DEF Counted, Ahead, Allowed
<1>. QED
  BY <1>1, <1>2, <1>3, PTL DEF Spec

==============================================================================
