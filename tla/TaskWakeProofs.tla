--------------------------- MODULE TaskWakeProofs ---------------------------
(***************************************************************************)
(* TLAPS proof that TaskEngine loses no wake-up where nothing is lost      *)
(* besides (Lossless): a task that is neither over nor waiting for its     *)
(* user is never left to itself, but for a question stored among other     *)
(* actions (OnlyQuestionsStrand).  Batches may have any size, answers may  *)
(* be duplicated, users may cancel and reply at any time.                  *)
(*                                                                         *)
(* The argument: what carries a task on (Carries) ends only by handing it  *)
(* to something else that does.  An early return of the task loop found    *)
(* the task over, or the guard held by a handler that plans (Guarded), or  *)
(* an unanswered action of the batch, which is at the device, or about to  *)
(* be sent, or about to be recorded (SentRows) - or is a question.  Where  *)
(* no plan stores one, or answers come one at a time, no task is ever lost *)
(* (NeverStranded).                                                        *)
(***************************************************************************)
EXTENDS TaskOrderProofs

\* The agent repeats the taskId and stays connected, no await is rejected and
\* the server is not restarted.
Lossless ==
    /\ EchoTaskId \subseteq {TRUE}
    /\ \A k \in {"disconnect", "reject", "restart"} : Budget[k] = 0

\* Handler h goes on with its task, as far as it knows.
Carries(h) ==
    \/ h.pc \in {"create", "request", "request_send", "ask_ai", "ai", "plan",
                 "asked", "wait", "created", "dispatch", "send", "record",
                 "recorded", "decide"}
    \/ h.pc = "start" /\ h.seen # "CANCELLED"
    \/ /\ h.pc \in {"request_check", "screen", "iterate", "result"}
       /\ h.seen \notin Terminal
    \/ h.pc = "count" /\ h.ok

\* The device owes the outcome of action a, and it will count.
Due(a) == action[a].status = "SENT" /\ a \in executing

\* Something carries task t on.
Carried(t) ==
    \/ \E j \in Jobs : T(j) = t /\ Carries(job[j])
    \/ \E r \in RequestIds : captures[r] = t
    \/ \E a \in ActionIds : action[a].task = t /\ Due(a)

\* What is to be proved.
Awake ==
    \A t \in Tasks : status[t] \in Moving /\ QuestionsApart(t) => Carried(t)

------------------------------------------------------------------------------
\* What it rests on.

\* The agent is there and nothing is lost any more.
NoLoss ==
    /\ online
    /\ \A k \in {"disconnect", "reject", "restart"} : budget[k] = 0

\* Handler j is about to send action a, or about to record it.
Handles(j, a) == job[j].act = a /\ job[j].pc \in WithAction
MovesRow(j, a) == job[j].act = a /\ job[j].pc \in {"send", "record"}

\* An action marked as sent is at the device, or a handler moves it on.
SentRows ==
    \A a \in ActionIds : action[a].status = "SENT" =>
        a \in executing \/ \E j \in Jobs : MovesRow(j, a)

\* What handler j has: rows to send only in its dispatch loop, an action to send
\* that nobody else has, an action that is recorded when the batch is counted,
\* and the guard while it plans.
Holds(j) ==
    /\ job[j].todo # {} => job[j].pc \in {"created", "dispatch", "send"}
    /\ At(j, "send") =>
          /\ action[job[j].act].status = "SENT" /\ job[j].act \notin executing
          /\ \A i \in Jobs \ {j} : ~Handles(i, job[j].act)
    /\ job[j].pc \in {"recorded", "result", "count", "decide"} =>
          action[job[j].act].status \in Recorded
    /\ Planning(j, T(j)) => job[j].cycle

\* A request about to be sent is not at the device, nor another handler's.
OwnRequest(j) ==
    At(j, "request_send") =>
        /\ captures[job[j].req] = None
        /\ \A i \in Jobs \ {j} :
              At(i, "request_send") => job[i].req # job[j].req

\* The guard of a moving task is held by a handler that plans it.
Guarded == \A t \in active : status[t] \in Moving => \E j \in Jobs : Planning(j, t)

\* A handler that leaves a task alone which is about to start.
Spares(h) ==
    \/ h.pc \in {"cancel", "close"}
    \/ h.pc = "message" /\ h.seen # "WAITING_FOR_USER"

\* Nothing has happened yet to a task about to start, but a cancellation.
Unstarted(j) ==
    job[j].pc \in {"create", "start"} =>
        /\ T(j) \notin active
        /\ \A r \in RequestIds : captures[r] # T(j)
        /\ \A a \in ActionIds : action[a].status # "NONE" => action[a].task # T(j)
        /\ \A i \in Jobs \ {j} : T(i) = T(j) => Spares(job[i])
        /\ status[T(j)] \in {"CREATED", "CANCELLED"}

\* Nothing is about a task that was not created.
Born ==
    /\ \A j \in Jobs : T(j) \in Tasks => status[T(j)] # "NONE"
    /\ \A r \in RequestIds : captures[r] \in Tasks => status[captures[r]] # "NONE"
    /\ \A a \in ActionIds : action[a].status # "NONE" => status[action[a].task] # "NONE"
    /\ \A t \in active : status[t] # "NONE"

\* The invariant.
Tidy ==
    /\ NoLoss /\ SentRows /\ Guarded /\ Born
    /\ \A j \in Jobs : Holds(j) /\ OwnRequest(j) /\ Unstarted(j)

------------------------------------------------------------------------------
\* Steps of one handler.

\* What a step of handler j for task u does to the rows of actions and to the
\* requests at the device.
Rows(j, u) ==
    \A a \in ActionIds : action'[a] # action[a] =>
        /\ action'[a].task = u /\ action'[a].status # "NONE"
        /\ \/ action[a].status = "NONE"
           \/ a \in job[j].todo
           \/ a = job[j].act /\ At(j, "record")

Requests(j, u) ==
    /\ \A r \in RequestIds : captures'[r] # captures[r] =>
          \/ captures[r] = u /\ captures'[r] = None
          \/ captures'[r] = u /\ At(j, "request_send") /\ r = job[j].req
    /\ \A a \in executing' : a \in executing \/ (a = job[j].act /\ At(j, "send"))
    /\ \A a \in executing : a \in executing' \/ action[a].task = u

\* Handler j, which works on task u or on nothing, does something for u.
Does(j, u) ==
    /\ Moved(j, job'[j])
    /\ T(j) = u \/ job[j].pc \in {"idle", "message"}
    /\ job'[j].task \in {u, None}
    /\ \A a \in job'[j].todo : a \in job[j].todo \/ action[a].status = "NONE"
    /\ job'[j].pc \in WithAction =>
          \/ Handles(j, job'[j].act)
          \/ job'[j].act \in job[j].todo
          \/ job'[j].act \in executing /\ ~At(j, "send")'
    /\ \A t \in Tasks \ {u} : status'[t] = status[t]
    /\ status'[u] # "NONE"
    /\ active' \subseteq active \cup {u}
    /\ Rows(j, u) /\ Requests(j, u)
    /\ online' = online
    /\ \A k \in {"disconnect", "reject", "restart"} : budget'[k] = budget[k]

\* A stored question stays one, so a batch it has to itself was its own before.
LEMMA QuestionsWere ==
    ASSUME IInv, RowsAdvance, NEW j \in Jobs, NEW u \in Tasks, Does(j, u),
           NEW t \in Tasks, QuestionsApart(t)'
    PROVE  QuestionsApart(t)
<1>. SUFFICES ASSUME NEW a \in ActionIds, Undispatched(a), action[a].task = t
              PROVE  Batch(a) = {a}
  BY DEF QuestionsApart
<1>1. action'[a] = action[a]
  BY DEF Does, Rows, Undispatched, At, IInv, WellFormed, HandlerOK, WithAction,
         Recorded
<1>2. Undispatched(a)'
  BY <1>1 DEF Does, Undispatched, Moved
<1>3. Batch(a)' = {a}
  BY <1>1, <1>2 DEF QuestionsApart
<1>4. ASSUME NEW b \in Batch(a) PROVE b = a
  <2>1. /\ b \in ActionIds /\ action[b].status # "NONE"
        /\ action[b].task = t /\ action[b].iter = action[a].iter
    BY <1>4 DEF Batch
  <2>2. action'[b].status # "NONE"
    BY <2>1 DEF Does, Rows
  <2>. QED
    BY <1>1, <1>3, <2>1, <2>2 DEF Batch, RowsAdvance
<1>5. a \in Batch(a)
  BY DEF Batch, Undispatched
<1>. QED
  BY <1>4, <1>5

\* What carries another task on goes on doing so.
LEMMA OthersCarried ==
    ASSUME IInv, RowsAdvance, Tidy, NEW j \in Jobs, NEW u \in Tasks, Does(j, u),
           NEW t \in Tasks, t # u, Carried(t)
    PROVE  Carried(t)'
<1>1. ASSUME NEW i \in Jobs, T(i) = t, Carries(job[i]) PROVE Carried(t)'
  <2>1. i # j
    BY <1>1 DEF Does, Carries
  <2>. QED
    BY <1>1, <2>1 DEF Does, Moved, Carried, T
<1>2. ASSUME NEW r \in RequestIds, captures[r] = t PROVE Carried(t)'
  <2>1. t # None /\ captures'[r] = captures[r]
    BY <1>2, TaskEngineAssumption DEF Does, Requests, Tidy, OwnRequest
  <2>. QED
    BY <1>2, <2>1 DEF Carried
<1>3. ASSUME NEW a \in ActionIds, action[a].task = t, Due(a) PROVE Carried(t)'
  <2>1. action'[a] = action[a]
    BY <1>3 DEF Does, Rows, RowsAdvance, Due
  <2>. QED
    BY <1>3, <2>1 DEF Does, Requests, Carried, Due
<1>. QED
  BY <1>1, <1>2, <1>3 DEF Carried

\* So it is the handler's own task that counts.
LEMMA AwakeFrom ==
    ASSUME IInv, RowsAdvance, Tidy, Awake, NEW j \in Jobs, NEW u \in Tasks,
           Does(j, u),
           status'[u] \in Moving /\ QuestionsApart(u)
                              /\ (status[u] \in Moving => Carried(u)) => Carried(u)'
    PROVE  Awake'
<1>. SUFFICES ASSUME NEW t \in Tasks, status'[t] \in Moving, QuestionsApart(t)'
              PROVE  Carried(t)'
  BY DEF Awake
<1>1. QuestionsApart(t)
  BY QuestionsWere
<1>2. status[t] \in Moving => Carried(t)
  BY <1>1 DEF Awake
<1>3. CASE t = u
  BY <1>1, <1>2, <1>3
<1>4. CASE t # u
  BY <1>2, <1>4, OthersCarried DEF Does
<1>. QED
  BY <1>3, <1>4

\* An action that nobody has in hand is left as it is.
LEMMA RowStays ==
    ASSUME IInv, NEW j \in Jobs, NEW u \in Tasks, Does(j, u), NEW a \in ActionIds,
           action[a].status = "SENT", ~Handles(j, a)
    PROVE  /\ action'[a] = action[a]
           /\ a \in executing' => a \in executing
           /\ a \notin executing => ~Handles(j, a)'
<1>1. a \notin job[j].todo
  BY DEF IInv, SentBeforeExecuted
<1>2. action'[a] = action[a]
  BY <1>1 DEF Does, Rows, Handles, At, WithAction
<1>3. a \in executing' => a \in executing
  BY DEF Does, Requests, Handles, At, WithAction
<1>4. a \notin executing => ~Handles(j, a)'
  BY <1>1 DEF Does, Handles
<1>. QED
  BY <1>2, <1>3, <1>4

\* The other handlers keep what they have.
LEMMA OthersHold ==
    ASSUME IInv, RowsAdvance, Tidy, NEW j \in Jobs, NEW u \in Tasks, Does(j, u),
           NEW i \in Jobs \ {j},
           At(j, "request_send")' => job'[j].req # job[i].req \/ ~At(i, "request_send")
    PROVE  Holds(i)' /\ OwnRequest(i)'
<1>1. /\ \A k \in Jobs \ {j} : job'[k] = job[k]
      /\ Holds(i) /\ OwnRequest(i)
      /\ job[i].pc \in WithAction => job[i].act \in ActionIds
  BY DEF Does, Moved, Tidy, IInv, WellFormed, HandlerOK
<1>2. ASSUME At(i, "send")
      PROVE  /\ action'[job[i].act].status = "SENT"
             /\ job[i].act \notin executing'
             /\ \A k \in Jobs \ {i} : ~Handles(k, job[i].act)'
  <2>1. PICK a \in ActionIds : job[i].act = a
    BY <1>1, <1>2 DEF At, WithAction
  <2>2. /\ action[a].status = "SENT" /\ a \notin executing
        /\ \A k \in Jobs \ {i} : ~Handles(k, a)
    BY <1>1, <1>2, <2>1 DEF Holds
  <2>3. /\ action'[a] = action[a] /\ a \notin executing' /\ ~Handles(j, a)'
    <3>1. ~Handles(j, a)
      BY <2>2
    <3>. QED
      BY <2>2, <3>1, RowStays
  <2>. QED
    BY <1>1, <2>1, <2>2, <2>3 DEF Handles
<1>3. job[i].pc \in {"recorded", "result", "count", "decide"} =>
         action'[job[i].act].status \in Recorded
  BY <1>1 DEF Holds, WithAction, RowsAdvance
<1>4. Holds(i)'
  BY <1>1, <1>2, <1>3 DEF Holds, At, Planning, T, Handles
<1>5. ASSUME At(i, "request_send")
      PROVE  captures'[job[i].req] = None
  <2>1. captures[job[i].req] = None /\ job[i].req \in RequestIds
    BY <1>1, <1>5 DEF OwnRequest, At, IInv, WellFormed, HandlerOK
  <2>2. At(j, "request_send") => job[j].req # job[i].req
    BY <1>1, <1>5 DEF OwnRequest
  <2>. QED
    BY <2>1, <2>2 DEF Does, Requests
<1>6. OwnRequest(i)'
  BY <1>1, <1>5 DEF OwnRequest, At
<1>. QED
  BY <1>4, <1>6

\* A handler beside which none is about to start its task.
LEMMA NoneStarts ==
    ASSUME Tidy, NEW j \in Jobs, NEW u \in Tasks, T(j) = u, ~Spares(job[j])
    PROVE  \A i \in Jobs \ {j} : T(i) = u => job[i].pc \notin {"create", "start"}
<1>. SUFFICES ASSUME NEW i \in Jobs \ {j}, T(i) = u, job[i].pc \in {"create", "start"}
              PROVE  FALSE
  OBVIOUS
<1>1. Unstarted(i)
  BY DEF Tidy
<1>. QED
  BY <1>1 DEF Unstarted

\* A step that changes nothing about task u, or cancels it.
LeavesIt(j, u) ==
    /\ active' \subseteq active /\ captures' = captures /\ action' = action
    /\ status'[u] \in {status[u], "CANCELLED"}
    /\ job'[j].task = u => Spares(job'[j])

\* A task about to start is left alone by the other handlers.
LEMMA OthersUnstarted ==
    ASSUME IInv, RowsAdvance, Tidy, NEW j \in Jobs, NEW u \in Tasks, Does(j, u),
           \/ LeavesIt(j, u)
           \/ \A i \in Jobs \ {j} : T(i) = u => job[i].pc \notin {"create", "start"},
           NEW i \in Jobs \ {j}
    PROVE  Unstarted(i)'
<1>. SUFFICES ASSUME job[i].pc \in {"create", "start"}
              PROVE  Unstarted(i)'
  BY DEF Unstarted, Does, Moved
<1>1. /\ job'[i] = job[i] /\ Unstarted(i) /\ T(i) \in Tasks
      /\ \A k \in Jobs \ {j} : job'[k] = job[k]
  BY DEF Does, Moved, Tidy, IInv, WellFormed, HandlerOK, T
<1>2. T(i) = u \/ T(i) # u
  OBVIOUS
<1>3. CASE T(i) = u
  <2>1. LeavesIt(j, u)
    BY <1>3
  <2>2. \A k \in Jobs \ {i} : job'[k].task = u => Spares(job'[k])
    BY <1>1, <1>3, <2>1 DEF LeavesIt, Unstarted, T
  <2>. QED
    BY <1>1, <1>3, <2>1, <2>2 DEF LeavesIt, Unstarted, T
<1>4. CASE T(i) # u
  <2>1. \A k \in Jobs \ {i} : job'[k].task = T(i) => Spares(job'[k])
    BY <1>1, <1>4, TaskEngineAssumption DEF Does, Unstarted, T
  <2>2. \A r \in RequestIds : captures'[r] # T(i)
    BY <1>1, <1>4, TaskEngineAssumption DEF Does, Requests, Unstarted
  <2>3. \A a \in ActionIds : action'[a].status # "NONE" => action'[a].task # T(i)
    BY <1>1, <1>4 DEF Does, Rows, Unstarted
  <2>4. T(i) \notin active' /\ status'[T(i)] = status[T(i)]
    BY <1>1, <1>4 DEF Does, Unstarted
  <2>. QED
    BY <1>1, <2>1, <2>2, <2>3, <2>4 DEF Unstarted, T
<1>. QED
  BY <1>3, <1>4

\* What handler j does keeps everything tidy.
LEMMA TidyFrom ==
    ASSUME IInv, RowsAdvance, [Next]_vars, Tidy,
           NEW j \in Jobs, NEW u \in Tasks, Does(j, u),
           \A a \in ActionIds :
              /\ a \in executing \/ MovesRow(j, a) \/ action[a].status # "SENT"
              /\ action'[a].status = "SENT"
              => a \in executing' \/ MovesRow(j, a)',
           Holds(j)', OwnRequest(j)', Unstarted(j)',
           At(j, "request_send")' => \A i \in Jobs \ {j} :
              At(i, "request_send") => job'[j].req # job[i].req,
           u \in active' /\ status'[u] \in Moving =>
              \/ Planning(j, u)'
              \/ u \in active /\ status[u] \in Moving /\ ~Planning(j, u),
           \/ LeavesIt(j, u)
           \/ \A i \in Jobs \ {j} : T(i) = u => job[i].pc \notin {"create", "start"}
    PROVE  Tidy'
<1>1. \A i \in Jobs \ {j} : job'[i] = job[i]
  BY DEF Does, Moved
<1>2. NoLoss'
  BY DEF Does, Tidy, NoLoss
<1>3. SentRows'
  <2>. SUFFICES ASSUME NEW a \in ActionIds, action'[a].status = "SENT"
                PROVE  a \in executing' \/ \E i \in Jobs : MovesRow(i, a)'
    BY DEF SentRows
  <2>1. CASE a \in executing \/ MovesRow(j, a) \/ action[a].status # "SENT"
    BY <2>1
  <2>2. CASE \E i \in Jobs \ {j} : MovesRow(i, a)
    BY <1>1, <2>2 DEF MovesRow
  <2>. QED
    BY <2>1, <2>2 DEF Tidy, SentRows
<1>4. Guarded'
  <2>. SUFFICES ASSUME NEW t \in active', status'[t] \in Moving
                PROVE  \E i \in Jobs : Planning(i, t)'
    BY DEF Guarded
  <2>0. t \in Tasks
    BY NextInv DEF IInv, TypeOK
  <2>1. CASE Planning(j, t)'
    BY <2>1
  <2>2. CASE ~Planning(j, t)'
    <3>1. t \in active /\ status[t] \in Moving
      BY <2>0, <2>2 DEF Does
    <3>2. PICK i \in Jobs : Planning(i, t)
      BY <3>1 DEF Tidy, Guarded
    <3>3. i # j
      BY <2>0, <2>2, <3>2 DEF Does, Planning, T
    <3>. QED
      BY <1>1, <3>2, <3>3 DEF Planning, T
  <2>. QED
    BY <2>1, <2>2
<1>5. Born'
  <2>1. /\ \A t \in Tasks : status[t] # "NONE" => status'[t] # "NONE"
        /\ status'[u] # "NONE" /\ None \notin Tasks
    BY TaskEngineAssumption DEF Does
  <2>2. \A i \in Jobs : job'[i].task \in Tasks => status'[job'[i].task] # "NONE"
    BY <1>1, <2>1 DEF Does, Tidy, Born, T
  <2>3. \A r \in RequestIds : captures'[r] \in Tasks => status'[captures'[r]] # "NONE"
    BY <2>1 DEF Does, Requests, Tidy, Born
  <2>4. \A a \in ActionIds : action'[a].status # "NONE" =>
           action[a].status # "NONE" \/ action'[a].task = u
    BY DEF Does, Rows
  <2>5. \A a \in ActionIds : action'[a].status # "NONE" =>
           status'[action'[a].task] # "NONE"
    BY <2>1, <2>4 DEF Tidy, Born, RowsAdvance, IInv, WellFormed
  <2>6. \A t \in active' : status'[t] # "NONE"
    BY <2>1 DEF Does, Tidy, Born, IInv, TypeOK
  <2>. QED
    BY <2>2, <2>3, <2>5, <2>6 DEF Born, T
<1>6. \A i \in Jobs \ {j} : Holds(i)' /\ OwnRequest(i)'
  BY OthersHold DEF At
<1>7. \A i \in Jobs \ {j} : Unstarted(i)'
  BY OthersUnstarted
<1>. QED
  BY <1>2, <1>3, <1>4, <1>5, <1>6, <1>7 DEF Tidy

\* Handler j goes on to p with what it has.
Proceeds(j, p) ==
    /\ Moved(j, job'[j])
    /\ job'[j].pc = p /\ job'[j].task = T(j) /\ job'[j].act = job[j].act
    /\ job'[j].cycle = job[j].cycle /\ job'[j].todo = job[j].todo

\* Where a handler that plans a task may be.
PlanningAt == {"ask_ai", "ai", "plan", "asked", "wait", "created", "dispatch", "send"}

\* The step of handler j that leads it to p concerns its own task only, and
\* neither the device nor an action that exists.
Keeps(j) ==
    /\ captures' = captures /\ executing' = executing /\ online' = online
    /\ \A k \in {"disconnect", "reject", "restart"} : budget'[k] = budget[k]
    /\ active' \in {active, active \ {T(j)}}
    /\ \A t \in Tasks \ {T(j)} : status'[t] = status[t]
    /\ status'[T(j)] # "NONE"
    /\ \A a \in ActionIds : action'[a] # action[a] =>
          /\ action[a].status = "NONE" /\ action'[a].status = "PENDING"
          /\ action'[a].task = T(j)

\* What a handler does between two awaits, where it talks to nobody.
LEMMA GoesOn ==
    ASSUME IInv, RowsAdvance, [Next]_vars, Tidy, NEW j \in Jobs, NEW p,
           NEW u \in Tasks, T(j) = u, Proceeds(j, p), Keeps(j),
           job[j].pc \notin {"idle", "send", "record", "request_send"},
           p \notin {"send", "record", "request_send", "create"},
           p = "start" => At(j, "create") /\ active' = active /\ action' = action
                                          /\ status' = status,
           p \in {"recorded", "result", "count", "decide"} =>
              job[j].pc \in {"recorded", "result", "count", "decide"},
           p \in PlanningAt => job[j].pc \in PlanningAt,
           job[j].pc \in {"created", "dispatch"} => p \in {"created", "dispatch"},
           job[j].pc \in PlanningAt /\ p \notin PlanningAt =>
              u \notin active' \/ status'[u] \notin Moving,
           status'[u] \in Moving =>
              p \in PlanningAt \/ u \notin active \/ status[u] \in Moving,
           \/ ~Spares(job[j])
           \/ p = "close" /\ action' = action /\ status'[u] = "CANCELLED"
    PROVE  Does(j, u) /\ Tidy'
<1>1. /\ HandlerOK(job[j])
      /\ Holds(j) /\ Unstarted(j) /\ OwnRequest(j)
  BY DEF IInv, WellFormed, HandlerOK, T, Tidy
<1>2. Does(j, u)
  <2>1. Rows(j, u)
    BY DEF Keeps, Rows
  <2>4. Requests(j, u)
    BY DEF Keeps, Requests
  <2>2. \A a \in job'[j].todo : a \in job[j].todo
    BY DEF Proceeds
  <2>3. p \in WithAction => Handles(j, job'[j].act)
    BY DEF Proceeds, Handles, WithAction
  <2>. QED
    BY <2>1, <2>2, <2>3, <2>4 DEF Does, Proceeds, Keeps, T
<1>3. Holds(j)'
  <2>1. job[j].todo # {} => p \in {"created", "dispatch"}
    BY <1>1 DEF Holds
  <2>2. p \in {"recorded", "result", "count", "decide"} =>
           action'[job[j].act].status \in Recorded
    BY <1>1 DEF Holds, RowsAdvance, HandlerOK, WithAction
  <2>3. p \in PlanningAt => job[j].cycle
    BY <1>1 DEF Holds, Planning, PlanningAt
  <2>. QED
    BY <2>1, <2>2, <2>3 DEF Holds, Proceeds, At, T, Planning, PlanningAt
<1>4. OwnRequest(j)' /\ ~At(j, "request_send")'
  BY DEF OwnRequest, Proceeds, At
<1>5. Unstarted(j)'
  BY <1>1 DEF Unstarted, Proceeds, Keeps, Moved, At, T
<1>6. \/ LeavesIt(j, u)
      \/ \A i \in Jobs \ {j} : T(i) = u => job[i].pc \notin {"create", "start"}
  BY <1>1, NoneStarts DEF LeavesIt, Keeps, Proceeds, Spares
<1>7. \A a \in ActionIds :
         /\ a \in executing \/ MovesRow(j, a) \/ action[a].status # "SENT"
         /\ action'[a].status = "SENT"
         => a \in executing'
  BY DEF Keeps, MovesRow
<1>8. u \in active' /\ status'[u] \in Moving =>
         \/ Planning(j, u)'
         \/ u \in active /\ status[u] \in Moving /\ ~Planning(j, u)
  BY DEF Keeps, Proceeds, Planning, PlanningAt, T
<1>. QED
  BY <1>2, <1>3, <1>4, <1>5, <1>6, <1>7, <1>8, TidyFrom DEF At

\* Who goes on carrying its task on, or gives it up.
LEMMA AwakeOn ==
    ASSUME IInv, RowsAdvance, Tidy, Awake, NEW j \in Jobs, NEW u \in Tasks,
           T(j) = u, Does(j, u), Keeps(j),
           \/ Carries(job'[j]) /\ job'[j].task = u
           \/ status'[u] \notin Moving
           \/ ~Carries(job[j]) /\ status' = status
    PROVE  Awake'
<1>1. CASE Carries(job'[j]) /\ job'[j].task = u
  <2>1. Carried(u)'
    BY <1>1 DEF Carried, T
  <2>. QED
    BY <2>1, AwakeFrom
<1>2. CASE status'[u] \notin Moving
  BY <1>2, AwakeFrom
<1>3. CASE ~Carries(job[j]) /\ status' = status
  <2>1. Carried(u) => Carried(u)'
    <3>1. ASSUME NEW i \in Jobs, T(i) = u, Carries(job[i]) PROVE Carried(u)'
      BY <1>3, <3>1 DEF Does, Moved, Carried, T
    <3>2. ASSUME NEW r \in RequestIds, captures[r] = u PROVE Carried(u)'
      BY <3>2 DEF Keeps, Carried
    <3>3. ASSUME NEW a \in ActionIds, action[a].task = u, Due(a) PROVE Carried(u)'
      BY <3>3 DEF Keeps, Carried, Due
    <3>. QED
      BY <3>1, <3>2, <3>3 DEF Carried
  <2>. QED
    BY <1>3, <2>1, AwakeFrom
<1>. QED
  BY <1>1, <1>2, <1>3

------------------------------------------------------------------------------
\* Steps that end a handler.

\* A handler ends that has talked to nobody.
LEMMA EndsTidy ==
    ASSUME IInv, RowsAdvance, [Next]_vars, Tidy, NEW j \in Jobs,
           NEW u \in Tasks, T(j) = u, Return(j) \/ ReturnCleared(j),
           job[j].pc \notin {"idle", "send", "record", "request_send"},
           status' = status, action' = action, UNCHANGED <<device, budget>>
    PROVE  Does(j, u) /\ Keeps(j) /\ Tidy'
<1>1. Moved(j, Idle) /\ job'[j] = Idle
  BY ReturnMoves DEF Moved, IInv
<1>2. /\ Idle.pc = "idle" /\ Idle.task = None /\ Idle.todo = {}
      /\ None # u
  BY TaskEngineAssumption DEF Idle
<1>3. Holds(j) /\ status[u] # "NONE"
  BY DEF Tidy, Born
<1>4. Keeps(j)
  BY <1>3 DEF Keeps, Return, ReturnCleared, device
<1>5. Does(j, u)
  <2>1. Rows(j, u)
    BY DEF Rows
  <2>2. Requests(j, u)
    BY DEF Requests, device
  <2>. QED
    BY <1>1, <1>2, <1>4, <2>1, <2>2 DEF Does, Keeps, WithAction
<1>6. Holds(j)' /\ OwnRequest(j)' /\ Unstarted(j)' /\ ~At(j, "request_send")'
  BY <1>1, <1>2 DEF Holds, OwnRequest, Unstarted, At, Planning, T
<1>7. u \in active' /\ status'[u] \in Moving =>
         u \in active /\ status[u] \in Moving /\ ~Planning(j, u)
  BY <1>3 DEF Return, ReturnCleared, Holds, IInv, TypeOK
<1>8. LeavesIt(j, u)
  BY <1>1, <1>2, <1>4 DEF LeavesIt, Keeps
<1>9. \A a \in ActionIds :
         /\ a \in executing \/ MovesRow(j, a) \/ action[a].status # "SENT"
         /\ action'[a].status = "SENT"
         => a \in executing'
  BY DEF MovesRow, device
<1>. QED
  BY <1>4, <1>5, <1>6, <1>7, <1>8, <1>9, TidyFrom

\* A handler that found its task over, or an action unanswered, or nothing to do.
LEMMA RestsAwake ==
    ASSUME IInv, RowsAdvance, [Next]_vars, Tidy, Awake, NEW j \in Jobs,
           \/ RequestTerminal(j) \/ Close(j) \/ ScreenTerminal(j)
           \/ IterateTerminal(j) \/ LeaveCycle(j) \/ ResultTerminal(j)
           \/ BatchUnfinished(j)
           \/ StartTask(j) /\ job[j].seen = "CANCELLED"
           \/ CancelTask(j) /\ job[j].seen \in Terminal
           \/ MessageIgnored(j) /\ Return(j) /\ UNCHANGED status
    PROVE  Tidy' /\ Awake'
<1>1. /\ Return(j) \/ ReturnCleared(j)
      /\ job[j].pc \notin {"idle", "send", "record", "request_send"}
      /\ status' = status /\ action' = action /\ UNCHANGED <<device, budget>>
  BY DEF RequestTerminal, Close, ScreenTerminal, IterateTerminal, LeaveCycle,
         ResultTerminal, BatchUnfinished, StartTask, CancelTask, MessageIgnored,
         At, rows
<1>2. ~Carries(job[j])
  BY DEF RequestTerminal, Close, ScreenTerminal, IterateTerminal, LeaveCycle,
         ResultTerminal, BatchUnfinished, StartTask, CancelTask, MessageIgnored,
         At, Carries
<1>3. T(j) \in Tasks
  BY <1>1 DEF IInv, WellFormed, HandlerOK, T
<1>4. Does(j, T(j)) /\ Keeps(j) /\ Tidy'
  <2>1. PICK u \in Tasks : T(j) = u
    BY <1>3
  <2>. QED
    BY <1>1, <2>1, EndsTidy
<1>5. Awake'
  <2>1. PICK u \in Tasks : T(j) = u
    BY <1>3
  <2>. QED
    BY <1>1, <1>2, <1>4, <2>1, AwakeOn
<1>. QED
  BY <1>4, <1>5

\* A handler that found the guard taken: the task has a handler that plans it.
LEMMA SkippedAwake ==
    ASSUME IInv, RowsAdvance, [Next]_vars, Tidy, Awake, NEW j \in Jobs,
           RequestSkipped(j) \/ IterateSkipped(j)
    PROVE  Tidy' /\ Awake'
<1>1. /\ Return(j) /\ job[j].pc \in {"request_check", "iterate"}
      /\ status' = status /\ action' = action /\ UNCHANGED <<device, budget>>
  BY DEF RequestSkipped, IterateSkipped, At, rows
<1>2. PICK u \in Tasks : T(j) = u
  BY <1>1 DEF IInv, WellFormed, HandlerOK, T
<1>3. Does(j, u) /\ Keeps(j) /\ Tidy'
  BY <1>1, <1>2, EndsTidy
<1>4. ASSUME status'[u] \in Moving PROVE Carried(u)'
  <2>1. u \in active /\ status[u] \in Moving
    BY <1>1, <1>2, <1>4 DEF RequestSkipped, IterateSkipped
  <2>2. PICK i \in Jobs : Planning(i, u)
    BY <2>1 DEF Tidy, Guarded
  <2>3. i # j /\ Carries(job[i]) /\ T(i) = u
    BY <1>1, <2>2 DEF Planning, Carries
  <2>4. job'[i] = job[i]
    BY <1>3, <2>3 DEF Does, Moved
  <2>. QED
    BY <2>3, <2>4 DEF Carried, T
<1>. QED
  BY <1>3, <1>4, AwakeFrom

------------------------------------------------------------------------------
\* Steps that go on to the next await.

LEMMA AwaitProceeds ==
    ASSUME IInv, NEW j \in Jobs, NEW p \in PC, T(j) \in Tasks,
           Await(j, p) \/ AwaitTask(j, p)
    PROVE  /\ Proceeds(j, p)
           /\ Await(j, p) => job'[j].seen = job[j].seen
           /\ AwaitTask(j, p) => job'[j].seen = status[T(j)]
<1>1. job[j] \in Job
  BY DEF IInv, TypeOK
<1>2. ASSUME Await(j, p) PROVE Proceeds(j, p)
  <2>. DEFINE h == [job[j] EXCEPT !.pc = p]
  <2>1. Moved(j, h)
    BY <1>2, AwaitMoves DEF IInv
  <2>2. /\ h.pc = p /\ h.task = job[j].task /\ h.act = job[j].act
        /\ h.cycle = job[j].cycle /\ h.todo = job[j].todo
    BY <1>1 DEF Job
  <2>. HIDE DEF h
  <2>. QED
    BY <2>1, <2>2 DEF Proceeds, Moved, T
<1>3. ASSUME AwaitTask(j, p) PROVE Proceeds(j, p)
  <2>. DEFINE h == Read(j, p)
  <2>1. Moved(j, h)
    BY <1>3, AwaitTaskMoves DEF IInv
  <2>2. /\ h.pc = p /\ h.task = job[j].task /\ h.act = job[j].act
        /\ h.cycle = job[j].cycle /\ h.todo = job[j].todo
    BY <1>1 DEF Job, Read
  <2>. HIDE DEF h
  <2>. QED
    BY <2>1, <2>2 DEF Proceeds, Moved, T
<1>. QED
  <2>1. Await(j, p) => job'[j].seen = job[j].seen
    BY <1>1 DEF Await, IInv, TypeOK, Job
  <2>2. AwaitTask(j, p) => job'[j].seen = status[T(j)]
    BY <1>1 DEF AwaitTask, IInv, TypeOK, Job
  <2>. QED
    BY <1>2, <1>3, <2>1, <2>2

\* Neither the rows of actions nor the device are touched, nor the status of
\* another task.
Apart(j) ==
    /\ action' = action /\ UNCHANGED <<device, budget>>
    /\ active' \in {active, active \ {T(j)}}
    /\ \/ status' = status
       \/ \E s \in TaskStatus \ {"NONE"} : SetStatus(T(j), s)

LEMMA ApartKeeps ==
    ASSUME IInv, Tidy, NEW j \in Jobs, T(j) \in Tasks, Apart(j)
    PROVE  Keeps(j)
<1>1. \A t \in Tasks \ {T(j)} : status'[t] = status[t]
  BY DEF Apart, SetStatus, IInv, TypeOK
<1>2. status'[T(j)] # "NONE"
  BY DEF Apart, SetStatus, Tidy, Born, IInv, TypeOK
<1>. QED
  BY <1>1, <1>2 DEF Apart, Keeps, device

\* The handler reads its task, or awaits something else, and writes no status.
LEMMA ReadsAwake ==
    ASSUME IInv, RowsAdvance, [Next]_vars, Tidy, Awake, NEW j \in Jobs,
           \/ Start(j) \/ Request(j) \/ ScreenDelivered(j) \/ ResultRecorded(j)
           \/ DecideReplans(j) \/ Waited(j) \/ MessageResumes(j)
           \/ AskAi(j) \/ AiFailed(j) \/ AiAnswers(j)
           \/ \E p \in Plans : PlanReplans(j, p)
    PROVE  Tidy' /\ Awake'
<1>. USE DEF Start, Request, ScreenDelivered, ResultRecorded, DecideReplans,
             Waited, MessageResumes, AskAi, AiFailed, AiAnswers, PlanReplans,
             Planned
<1>1. PICK u \in Tasks : T(j) = u
  BY DEF At, T, IInv, WellFormed, HandlerOK
<1>2. Apart(j) /\ status' = status
  BY DEF Apart, rows, device
<1>3. Keeps(j)
  BY <1>1, <1>2, ApartKeeps
<1>4. PICK p \in PC :
         /\ \/ AwaitTask(j, p)
            \/ Await(j, p) /\ p \in {"ai", "return", "plan"}
         /\ <<job[j].pc, p>> \in
               {<<"create", "start">>, <<"request", "request_check">>,
                <<"screen", "iterate">>, <<"recorded", "result">>,
                <<"decide", "request_check">>, <<"wait", "request_check">>,
                <<"message", "request_check">>, <<"ask_ai", "ai">>,
                <<"ai_failed", "return">>, <<"ai", "plan">>,
                <<"plan", "request_check">>}
         /\ p = "start" => active' = active
         /\ job[j].pc \in {"wait", "plan"} => u \notin active'
         /\ job[j].pc = "message" => job[j].seen = "WAITING_FOR_USER"
  BY <1>1 DEF At, PC
<1>5. Proceeds(j, p) /\ (AwaitTask(j, p) => job'[j].seen = status[u])
  BY <1>1, <1>4, AwaitProceeds
<1>6. Does(j, u) /\ Tidy'
  BY <1>1, <1>2, <1>3, <1>4, <1>5, GoesOn DEF Apart, PlanningAt, At, Spares
<1>7. \/ Carries(job'[j]) /\ job'[j].task = u
      \/ status'[u] \notin Moving
      \/ ~Carries(job[j])
  BY <1>1, <1>2, <1>4, <1>5 DEF Carries, Proceeds, Moving, Terminal
<1>. QED
  BY <1>1, <1>2, <1>3, <1>6, <1>7, AwakeOn

\* The handler writes the status of its task.
LEMMA WritesAwake ==
    ASSUME IInv, RowsAdvance, [Next]_vars, Tidy, Awake, NEW j \in Jobs,
           \/ RequestExhausted(j) \/ AiFails(j) \/ DecideMarked(j) \/ DecideEnds(j)
           \/ CancelTask(j) /\ job[j].seen \notin Terminal
           \/ StartTask(j) /\ job[j].seen # "CANCELLED"
           \/ UserAsked(j) \/ ActionsCreated(j)
           \/ \E p \in Plans : PlanAwaitsUser(j, p) \/ PlanCompletes(j, p)
                                                    \/ PlanFails(j, p)
    PROVE  Tidy' /\ Awake'
<1>. USE DEF RequestExhausted, AiFails, DecideMarked, DecideEnds, CancelTask,
             StartTask, UserAsked, ActionsCreated, PlanAwaitsUser, PlanCompletes,
             PlanFails, Planned, FailTask, CompleteTask
<1>1. PICK u \in Tasks : T(j) = u
  BY DEF At, T, IInv, WellFormed, HandlerOK
<1>2. PICK p \in PC, s \in TaskStatus \ {"NONE"} :
         /\ Await(j, p) /\ SetStatus(u, s)
         /\ \/ s \in Terminal /\ p \in {"close", "ai_failed"}
               /\ job[j].pc \in {"request_check", "ai", "plan", "decide"}
            \/ s = "CANCELLED" /\ p = "close" /\ job[j].pc = "cancel"
            \/ s = "RUNNING" /\ p = "request" /\ job[j].pc = "start"
            \/ s = "WAITING_FOR_USER" /\ p = "return" /\ job[j].pc \in {"asked", "plan"}
            \/ s = "WAITING_FOR_ACTION" /\ p = "dispatch" /\ job[j].pc = "created"
  BY <1>1 DEF At, PC, TaskStatus, Terminal
<1>3. Apart(j)
  BY <1>1, <1>2 DEF Apart, device, pending
<1>4. Keeps(j)
  BY <1>1, <1>3, ApartKeeps
<1>5. Proceeds(j, p)
  BY <1>1, <1>2, AwaitProceeds
<1>6. status'[u] = s
  BY <1>2 DEF SetStatus, IInv, TypeOK
<1>7. job[j].pc = "start" => u \notin active
  BY <1>1 DEF Tidy, Unstarted
<1>8. Does(j, u) /\ Tidy'
  BY <1>1, <1>2, <1>3, <1>4, <1>5, <1>6, <1>7, GoesOn
  DEF Apart, PlanningAt, At, Spares, Moving, Terminal
<1>9. \/ Carries(job'[j]) /\ job'[j].task = u
      \/ status'[u] \notin Moving
  BY <1>1, <1>2, <1>5, <1>6 DEF Carries, Proceeds, Moving, Terminal
<1>. QED
  BY <1>1, <1>4, <1>8, <1>9, AwakeOn

\* The handler counts the unanswered actions of the batch: where there is one, it
\* is no question the batch has to itself, so it is at the device or on its way.
LEMMA CountsAwake ==
    ASSUME IInv, RowsAdvance, [Next]_vars, Tidy, Awake, NEW j \in Jobs,
           CountUnanswered(j) \/ BatchFinished(j)
    PROVE  Tidy' /\ Awake'
<1>1. PICK u \in Tasks : T(j) = u
  BY DEF CountUnanswered, BatchFinished, At, T, IInv, WellFormed, HandlerOK
<1>2. Apart(j) /\ status' = status
  BY DEF CountUnanswered, BatchFinished, Apart, rows, device
<1>3. Keeps(j)
  BY <1>1, <1>2, ApartKeeps
<1>4. PICK p \in {"count", "decide"} :
         /\ Proceeds(j, p) /\ job[j].pc \in {"result", "count"}
         /\ CountUnanswered(j) => p = "count"
         /\ BatchFinished(j) => p = "decide"
  <2>1. job[j] \in Job /\ job \in [Jobs -> Job] /\ job' \in [Jobs -> Job]
    BY NextInv DEF IInv, TypeOK
  <2>2. CASE CountUnanswered(j)
    BY <2>1, <2>2 DEF CountUnanswered, BatchFinished, Proceeds, Moved, At, T, Job
  <2>3. CASE BatchFinished(j)
    BY <2>1, <2>3 DEF CountUnanswered, BatchFinished, Proceeds, Moved, At, T, Job
  <2>. QED
    BY <2>2, <2>3
<1>5. Does(j, u) /\ Tidy'
  BY <1>1, <1>2, <1>3, <1>4, GoesOn DEF Apart, PlanningAt, Spares
<1>6. CASE BatchFinished(j)
  BY <1>1, <1>3, <1>4, <1>5, <1>6, AwakeOn DEF Carries, Proceeds
<1>7. CASE CountUnanswered(j)
  <2>. DEFINE a == job[j].act
  <2>1. /\ a \in ActionIds /\ action[a].status \in Recorded /\ action[a].task = u
        /\ At(j, "result")
    BY <1>1, <1>7 DEF CountUnanswered, At, Tidy, Holds, IInv, WellFormed,
                      HandlerOK, WithAction, T
  <2>2. CASE \A b \in Batch(a) : action[b].status \notin Unanswered
    <3>1. job'[j].ok
      BY <1>7, <2>2 DEF CountUnanswered, IInv, TypeOK, Job
    <3>. QED
      BY <1>1, <1>3, <1>4, <1>5, <1>7, <3>1, AwakeOn DEF Carries, Proceeds
  <2>3. ASSUME NEW b \in Batch(a), action[b].status \in Unanswered,
               QuestionsApart(u)
        PROVE  Carried(u)'
    <3>1. b \in ActionIds /\ action[b].task = u /\ a # b
      BY <2>1, <2>3 DEF Batch, Recorded, Unanswered
    <3>2. a \in Batch(b)
      BY <2>1, <2>3 DEF Batch, Recorded
    <3>3. CASE action[b].status = "PENDING"
      <4>1. ~Undispatched(b)
        BY <2>3, <3>1, <3>2 DEF QuestionsApart
      <4>2. PICK i \in Jobs : b \in job[i].todo
        BY <3>3, <4>1 DEF Undispatched
      <4>3. T(i) = u /\ Carries(job[i])
        BY <3>1, <4>2 DEF IInv, WellFormed, HandlerOK, T, Tidy, Holds, Carries
      <4>4. job'[i] = job[i]
        BY <1>4, <2>1, <4>2 DEF Proceeds, Moved, Tidy, Holds, At
      <4>. QED
        BY <4>3, <4>4 DEF Carried, T
    <3>4. CASE action[b].status = "SENT" /\ b \in executing
      <4>1. Due(b)' /\ action'[b].task = u
        BY <1>3, <3>1, <3>4 DEF Keeps, Due
      <4>. QED
        BY <3>1, <4>1 DEF Carried
    <3>5. CASE action[b].status = "SENT" /\ b \notin executing
      <4>1. PICK i \in Jobs : MovesRow(i, b)
        BY <3>1, <3>5 DEF Tidy, SentRows
      <4>2. T(i) = u /\ Carries(job[i]) /\ i # j
        BY <2>1, <3>1, <4>1 DEF MovesRow, IInv, WellFormed, HandlerOK, T, Carries,
                                WithAction, At
      <4>3. job'[i] = job[i]
        BY <1>4, <4>2 DEF Proceeds, Moved
      <4>. QED
        BY <4>2, <4>3 DEF Carried, T
    <3>. QED
      BY <2>3, <3>3, <3>4, <3>5 DEF Unanswered
  <2>. QED
    BY <1>5, <2>2, <2>3, AwakeFrom
<1>. QED
  BY <1>5, <1>6, <1>7

\* The handler stores a question or a WAIT.
LEMMA StoresAwake ==
    ASSUME IInv, RowsAdvance, [Next]_vars, Tidy, Awake, NEW j \in Jobs,
           \E p \in Plans : PlanAsksUser(j, p) \/ PlanWaits(j, p)
    PROVE  Tidy' /\ Awake'
<1>1. PICK p \in {"asked", "wait"} : Await(j, p) /\ At(j, "plan")
  BY DEF PlanAsksUser, PlanWaits, Planned
<1>2. PICK u \in Tasks : T(j) = u
  BY <1>1 DEF At, T, IInv, WellFormed, HandlerOK
<1>3. /\ status' = status /\ active' = active /\ UNCHANGED <<device, budget>>
      /\ \E new \in FreshRows(1) : CreateActions(new, u, job[j].iter)
  BY <1>2 DEF PlanAsksUser, PlanWaits
<1>4. Keeps(j)
  <2>1. status[u] # "NONE"
    BY <1>2 DEF Tidy, Born
  <2>2. \A a \in ActionIds : action'[a] # action[a] =>
           /\ action[a].status = "NONE" /\ action'[a].status = "PENDING"
           /\ action'[a].task = u
    BY <1>3 DEF FreshRows, Unused, CreateActions
  <2>. QED
    BY <1>2, <1>3, <2>1, <2>2 DEF Keeps, device
<1>5. Proceeds(j, p)
  BY <1>1, <1>2, AwaitProceeds DEF PC
<1>6. Does(j, u) /\ Tidy'
  BY <1>1, <1>2, <1>3, <1>4, <1>5, GoesOn DEF PlanningAt, At, Spares
<1>. QED
  BY <1>1, <1>2, <1>4, <1>5, <1>6, AwakeOn DEF Carries, Proceeds

------------------------------------------------------------------------------
\* The other steps of the task loop.

\* An outcome is recorded.
LEMMA RecordAwake ==
    ASSUME IInv, RowsAdvance, [Next]_vars, Tidy, Awake, NEW j \in Jobs, Record(j)
    PROVE  Tidy' /\ Awake'
<1>1. PICK u \in Tasks : T(j) = u
  BY DEF Record, At, T, IInv, WellFormed, HandlerOK
<1>2. PICK a \in ActionIds : job[j].act = a
  BY DEF Record, At, IInv, WellFormed, HandlerOK, WithAction
<1>3. /\ action[a].task = u /\ action[a].status \in {"SENT"} \cup Recorded
      /\ job[j].pc = "record" /\ Await(j, "recorded")
      /\ status' = status /\ active' = active /\ UNCHANGED <<device, budget>>
  BY <1>1, <1>2 DEF Record, At, T, IInv, WellFormed, HandlerOK, WithAction
<1>4. /\ action' = [action EXCEPT ![a].status = IF job[j].ok THEN "SUCCEEDED"
                                                             ELSE "FAILED"]
      /\ action \in [ActionIds -> ActionRow]
  BY <1>2 DEF Record, IInv, TypeOK
<1>5. /\ action'[a].status \in Recorded /\ action'[a].task = u
      /\ \A b \in ActionIds \ {a} : action'[b] = action[b]
  BY <1>3, <1>4 DEF ActionRow, Recorded
<1>6. Proceeds(j, "recorded")
  BY <1>1, <1>3, AwaitProceeds DEF PC
<1>7. Does(j, u)
  <2>1. Rows(j, u)
    BY <1>2, <1>3, <1>5 DEF Rows, At, Recorded
  <2>2. Requests(j, u)
    BY <1>3 DEF Requests, device
  <2>3. status[u] # "NONE"
    BY <1>1 DEF Tidy, Born
  <2>4. job'[j].pc \in WithAction => Handles(j, job'[j].act)
    BY <1>3, <1>6 DEF Proceeds, Handles, WithAction
  <2>. QED
    BY <1>1, <1>3, <1>6, <2>1, <2>2, <2>3, <2>4 DEF Does, Proceeds, device
<1>8. Holds(j)' /\ OwnRequest(j)' /\ Unstarted(j)' /\ ~At(j, "request_send")'
  <2>1. job[j].todo = {}
    BY <1>3 DEF Tidy, Holds
  <2>. QED
    BY <1>2, <1>5, <1>6, <2>1
    DEF Holds, OwnRequest, Unstarted, At, Planning, T, Proceeds
<1>9. \A i \in Jobs \ {j} : T(i) = u => job[i].pc \notin {"create", "start"}
  BY <1>1, <1>3, NoneStarts DEF Spares
<1>10. \A b \in ActionIds :
          /\ b \in executing \/ MovesRow(j, b) \/ action[b].status # "SENT"
          /\ action'[b].status = "SENT"
          => b \in executing'
  BY <1>2, <1>3, <1>5 DEF MovesRow, device, Recorded
<1>11. u \in active' /\ status'[u] \in Moving =>
          u \in active /\ status[u] \in Moving /\ ~Planning(j, u)
  BY <1>3 DEF Planning
<1>12. Tidy'
  BY <1>7, <1>8, <1>9, <1>10, <1>11, TidyFrom
<1>13. Carried(u)'
  BY <1>1, <1>6 DEF Carried, Carries, Proceeds, T
<1>. QED
  BY <1>7, <1>12, <1>13, AwakeFrom

\* A request is made, under an id that occurs nowhere.
LEMMA RequestScreenAwake ==
    ASSUME IInv, RowsAdvance, [Next]_vars, Tidy, Awake, NEW j \in Jobs,
           RequestScreen(j)
    PROVE  Tidy' /\ Awake'
<1>1. PICK u \in Tasks : T(j) = u
  BY DEF RequestScreen, At, T, IInv, WellFormed, HandlerOK
<1>2. PICK r \in FreshRequests :
         job' = [job EXCEPT ![j].pc = "request_send", ![j].req = r]
  BY DEF RequestScreen
<1>3. /\ At(j, "request_check") /\ u \notin active /\ SetStatus(u, "WAITING_FOR_SCREEN")
      /\ action' = action /\ active' = active /\ UNCHANGED <<device, budget>>
      /\ captures[r] = None /\ \A i \in Jobs : job[i].req # r
  BY <1>1, <1>2 DEF RequestScreen, FreshRequests
<1>4. /\ Moved(j, job'[j]) /\ job'[j].pc = "request_send" /\ job'[j].req = r
      /\ job'[j].task = u /\ job'[j].todo = job[j].todo
  <2>1. Moved(j, job'[j])
    BY OthersMove
  <2>2. job \in [Jobs -> Job] /\ job[j] \in Job
    BY DEF IInv, TypeOK
  <2>. QED
    BY <1>1, <1>2, <2>1, <2>2 DEF Job, T
<1>5. /\ \A t \in Tasks \ {u} : status'[t] = status[t]
      /\ status'[u] = "WAITING_FOR_SCREEN"
  BY <1>3 DEF SetStatus, IInv, TypeOK
<1>6. Does(j, u)
  <2>1. Rows(j, u)
    BY <1>3 DEF Rows
  <2>2. Requests(j, u)
    BY <1>3 DEF Requests, device
  <2>. QED
    BY <1>1, <1>3, <1>4, <1>5, <2>1, <2>2 DEF Does, device, WithAction
<1>7. Holds(j)' /\ Unstarted(j)' /\ OwnRequest(j)'
  <2>1. job[j].todo = {}
    BY <1>3 DEF Tidy, Holds, At
  <2>2. \A i \in Jobs \ {j} : job'[i] = job[i]
    BY <1>4 DEF Moved
  <2>. QED
    BY <1>3, <1>4, <2>1, <2>2
    DEF Holds, OwnRequest, Unstarted, At, Planning, T, device
<1>8. \A i \in Jobs \ {j} : T(i) = u => job[i].pc \notin {"create", "start"}
  BY <1>1, <1>3, NoneStarts DEF Spares, At
<1>9. Tidy'
  BY <1>3, <1>4, <1>6, <1>7, <1>8, TidyFrom DEF At, MovesRow, device
<1>10. Carried(u)'
  BY <1>4 DEF Carried, Carries, T
<1>. QED
  BY <1>6, <1>9, <1>10, AwakeFrom

\* The request is at the device.
LEMMA RequestSentAwake ==
    ASSUME IInv, RowsAdvance, [Next]_vars, Tidy, Awake, NEW j \in Jobs,
           RequestSent(j)
    PROVE  Tidy' /\ Awake'
<1>1. PICK u \in Tasks, r \in RequestIds : T(j) = u /\ job[j].req = r
  BY DEF RequestSent, At, T, IInv, WellFormed, HandlerOK
<1>2. /\ At(j, "request_send") /\ captures' = [captures EXCEPT ![r] = u] /\ Return(j)
      /\ status' = status /\ action' = action /\ executing' = executing
      /\ online' = online /\ budget' = budget
      /\ captures \in [RequestIds -> Tasks \cup {None}]
  BY <1>1 DEF RequestSent, rows, IInv, TypeOK
<1>3. Moved(j, Idle) /\ job'[j] = Idle
  BY <1>2, ReturnMoves DEF Moved, IInv
<1>4. /\ Idle.pc = "idle" /\ Idle.task = None /\ Idle.todo = {}
      /\ None # u
  BY TaskEngineAssumption DEF Idle
<1>5. active' \subseteq active /\ status[u] # "NONE"
  BY <1>1, <1>2 DEF Return, Tidy, Born
<1>6. Does(j, u)
  <2>1. Rows(j, u)
    BY <1>2 DEF Rows
  <2>2. Requests(j, u)
    BY <1>1, <1>2 DEF Requests
  <2>. QED
    BY <1>1, <1>2, <1>3, <1>4, <1>5, <2>1, <2>2 DEF Does, WithAction
<1>7. Holds(j)' /\ OwnRequest(j)' /\ Unstarted(j)' /\ ~At(j, "request_send")'
  BY <1>3, <1>4 DEF Holds, OwnRequest, Unstarted, At, Planning, T
<1>8. \A i \in Jobs \ {j} : T(i) = u => job[i].pc \notin {"create", "start"}
  BY <1>1, <1>2, NoneStarts DEF Spares, At
<1>9. Tidy'
  BY <1>2, <1>5, <1>6, <1>7, <1>8, TidyFrom DEF At, MovesRow, Planning
<1>10. Carried(u)'
  BY <1>2 DEF Carried
<1>. QED
  BY <1>6, <1>9, <1>10, AwakeFrom

\* A plan cycle begins.
LEMMA IterateAwake ==
    ASSUME IInv, RowsAdvance, [Next]_vars, Tidy, Awake, NEW j \in Jobs, Iterate(j)
    PROVE  Tidy' /\ Awake'
<1>1. PICK u \in Tasks : T(j) = u
  BY DEF Iterate, At, T, IInv, WellFormed, HandlerOK
<1>2. /\ At(j, "iterate") /\ SetStatus(u, "RUNNING") /\ active' = active \cup {u}
      /\ action' = action /\ UNCHANGED <<device, budget>>
  BY <1>1 DEF Iterate
<1>3. /\ Moved(j, job'[j]) /\ job'[j].pc = "ask_ai" /\ job'[j].cycle
      /\ job'[j].task = u /\ job'[j].todo = job[j].todo
  <2>1. Moved(j, job'[j])
    BY OthersMove
  <2>2. job \in [Jobs -> Job] /\ job[j] \in Job
    BY DEF IInv, TypeOK
  <2>. QED
    BY <1>1, <2>1, <2>2 DEF Job, T, Iterate
<1>4. /\ \A t \in Tasks \ {u} : status'[t] = status[t]
      /\ status'[u] = "RUNNING"
  BY <1>2 DEF SetStatus, IInv, TypeOK
<1>5. Does(j, u)
  <2>1. Rows(j, u)
    BY <1>2 DEF Rows
  <2>2. Requests(j, u)
    BY <1>2 DEF Requests, device
  <2>. QED
    BY <1>1, <1>2, <1>3, <1>4, <2>1, <2>2 DEF Does, device, WithAction
<1>6. Holds(j)' /\ Unstarted(j)' /\ OwnRequest(j)'
  <2>1. job[j].todo = {}
    BY <1>2 DEF Tidy, Holds, At
  <2>. QED
    BY <1>3, <2>1 DEF Holds, OwnRequest, Unstarted, At, Planning, T
<1>7. \A i \in Jobs \ {j} : T(i) = u => job[i].pc \notin {"create", "start"}
  BY <1>1, <1>2, NoneStarts DEF Spares, At
<1>8. Planning(j, u)'
  BY <1>3 DEF Planning, T
<1>9. Tidy'
  BY <1>2, <1>3, <1>5, <1>6, <1>7, <1>8, TidyFrom DEF At, MovesRow, device
<1>10. Carried(u)'
  BY <1>3 DEF Carried, Carries, T
<1>. QED
  BY <1>5, <1>9, <1>10, AwakeFrom

\* A plan is stored whose actions are to be executed.
LEMMA PlanExecutesAwake ==
    ASSUME IInv, RowsAdvance, [Next]_vars, Tidy, Awake, NEW j \in Jobs,
           NEW p \in Plans, PlanExecutes(j, p)
    PROVE  Tidy' /\ Awake'
<1>1. PICK u \in Tasks : T(j) = u
  BY DEF PlanExecutes, Planned, At, T, IInv, WellFormed, HandlerOK
<1>2. PICK new \in FreshRows(p.work) :
         /\ CreateActions(new, u, job[j].iter)
         /\ job' = [job EXCEPT ![j].pc = "created", ![j].todo = new,
                               ![j].ok = SaysDone(p)]
  BY <1>1 DEF PlanExecutes
<1>3. /\ At(j, "plan") /\ status' = status /\ active' = active
      /\ UNCHANGED <<device, budget>> /\ status[u] # "NONE"
  BY <1>1 DEF PlanExecutes, Planned, Tidy, Born
<1>4. /\ Moved(j, job'[j]) /\ job'[j].pc = "created" /\ job'[j].todo = new
      /\ job'[j].task = u /\ job'[j].cycle = job[j].cycle
  <2>1. Moved(j, job'[j])
    BY OthersMove
  <2>2. job \in [Jobs -> Job] /\ job[j] \in Job
    BY DEF IInv, TypeOK
  <2>. QED
    BY <1>1, <1>2, <2>1, <2>2 DEF Job, T
<1>5. /\ \A a \in new : action[a].status = "NONE"
      /\ \A a \in ActionIds : action'[a] # action[a] =>
            action[a].status = "NONE" /\ action'[a].status = "PENDING"
                                      /\ action'[a].task = u
  BY <1>2 DEF FreshRows, Unused, CreateActions
<1>6. Does(j, u)
  <2>1. Rows(j, u)
    BY <1>5 DEF Rows
  <2>2. Requests(j, u)
    BY <1>3 DEF Requests, device
  <2>. QED
    BY <1>1, <1>3, <1>4, <1>5, <2>1, <2>2 DEF Does, device, WithAction
<1>7. Holds(j)' /\ Unstarted(j)' /\ OwnRequest(j)'
  <2>1. job[j].cycle
    BY <1>1, <1>3 DEF Tidy, Holds, Planning, At
  <2>. QED
    BY <1>4, <2>1 DEF Holds, OwnRequest, Unstarted, At, Planning, T
<1>8. \A i \in Jobs \ {j} : T(i) = u => job[i].pc \notin {"create", "start"}
  BY <1>1, <1>3, NoneStarts DEF Spares, At
<1>9. Planning(j, u)'
  BY <1>4 DEF Planning, T
<1>10. \A b \in ActionIds :
          /\ b \in executing \/ MovesRow(j, b) \/ action[b].status # "SENT"
          /\ action'[b].status = "SENT"
          => b \in executing'
  BY <1>3, <1>5 DEF MovesRow, At, device
<1>11. Tidy'
  BY <1>4, <1>6, <1>7, <1>8, <1>9, <1>10, TidyFrom DEF At
<1>12. Carried(u)'
  BY <1>4 DEF Carried, Carries, T
<1>. QED
  BY <1>6, <1>11, <1>12, AwakeFrom

\* A handler that has just marked action a, and sends it next.
LEMMA MarkedTidy ==
    ASSUME IInv, RowsAdvance, [Next]_vars, Tidy, NEW j \in Jobs,
           NEW u \in Tasks, T(j) = u, job[j].pc \in {"dispatch", "send"},
           NEW a, MarkSent(j, a),
           \/ executing' = executing
           \/ At(j, "send") /\ executing' = executing \cup {job[j].act},
           At(j, "send") => job[j].act \in executing',
           active' = active, status' = status, captures' = captures,
           online' = online, budget' = budget
    PROVE  /\ Does(j, u) /\ Tidy' /\ Carries(job'[j]) /\ job'[j].task = u
           /\ \A b \in ActionIds \ {a} : action'[b] = action[b]
<1>1. /\ a \in ActionIds /\ action[a].status = "PENDING" /\ a \in job[j].todo
      /\ Moved(j, job'[j]) /\ job'[j].pc = "send" /\ job'[j].act = a
      /\ job'[j].todo = job[j].todo \ {a}
      /\ job'[j].task = u /\ job'[j].cycle = job[j].cycle
  <2>. DEFINE h == [job[j] EXCEPT !.pc = "send", !.act = a,
                                  !.todo = job[j].todo \ {a}]
  <2>1. /\ a \in ActionIds /\ action[a].status = "PENDING"
        /\ \A i \in Jobs \ {j} : a \notin job[i].todo
        /\ Moved(j, h)
        /\ h.pc = "send" /\ h.act = a /\ h.todo = job[j].todo \ {a}
        /\ h.task = T(j) /\ h.cycle = job[j].cycle
    BY MarkSentFacts
  <2>. HIDE DEF h
  <2>2. job'[j] = h
    BY <2>1 DEF Moved
  <2>. QED
    BY <2>1, <2>2 DEF MarkSent
<1>2. /\ action'[a].status = "SENT" /\ action'[a].task = u
      /\ \A b \in ActionIds \ {a} : action'[b] = action[b]
  <2>1. action[a].task = u /\ action \in [ActionIds -> ActionRow]
    BY <1>1 DEF IInv, TypeOK, WellFormed, HandlerOK, T
  <2>. QED
    BY <1>1, <2>1 DEF MarkSent, ActionRow
<1>3. /\ job[j].cycle /\ HandlerOK(job[j])
      /\ At(j, "send") => job[j].act \in ActionIds /\ job[j].act # a
                          /\ action[job[j].act].task = u
  <2>1. HandlerOK(job[j]) /\ Holds(j)
    BY DEF IInv, WellFormed, Tidy
  <2>. QED
    BY <1>1, <2>1 DEF Holds, Planning, At, HandlerOK, WithAction, T
<1>4. \A i \in Jobs \ {j} : ~Handles(i, a)
  BY <1>1 DEF Handles, IInv, WellFormed, HandlerOK, Recorded
<1>5. a \notin executing'
  BY <1>1, <1>3 DEF IInv, SentBeforeExecuted, Recorded
<1>6. Does(j, u)
  <2>1. Rows(j, u)
    BY <1>1, <1>2 DEF Rows
  <2>2. Requests(j, u)
    BY DEF Requests
  <2>3. status[u] # "NONE"
    BY DEF Tidy, Born
  <2>. QED
    BY <1>1, <2>1, <2>2, <2>3 DEF Does
<1>7. Holds(j)' /\ Unstarted(j)' /\ OwnRequest(j)' /\ ~At(j, "request_send")'
  <2>1. \A i \in Jobs \ {j} : ~Handles(i, a)'
    BY <1>1, <1>4 DEF Moved, Handles
  <2>. QED
    BY <1>1, <1>2, <1>3, <1>5, <2>1
    DEF Holds, OwnRequest, Unstarted, At, Planning, T
<1>8. \A i \in Jobs \ {j} : T(i) = u => job[i].pc \notin {"create", "start"}
  BY NoneStarts DEF Spares
<1>9. Planning(j, u)'
  BY <1>1 DEF Planning, T
<1>10. \A b \in ActionIds :
          /\ b \in executing \/ MovesRow(j, b) \/ action[b].status # "SENT"
          /\ action'[b].status = "SENT"
          => b \in executing' \/ MovesRow(j, b)'
  BY <1>1, <1>2 DEF MovesRow, At
<1>11. Tidy'
  BY <1>6, <1>7, <1>8, <1>9, <1>10, TidyFrom
<1>. QED
  BY <1>1, <1>2, <1>6, <1>11 DEF Carries

\* The first action of a plan is marked.
LEMMA DispatchAwake ==
    ASSUME IInv, RowsAdvance, [Next]_vars, Tidy, Awake, NEW j \in Jobs, Dispatch(j)
    PROVE  Tidy' /\ Awake'
<1>1. PICK u \in Tasks : T(j) = u
  BY DEF Dispatch, At, T, IInv, WellFormed, HandlerOK
<1>2. PICK a \in job[j].todo : MarkSent(j, a)
  BY DEF Dispatch
<1>3. Does(j, u) /\ Tidy' /\ Carries(job'[j]) /\ job'[j].task = u
  BY <1>1, <1>2, MarkedTidy DEF Dispatch, At, device
<1>. QED
  BY <1>3, AwakeFrom DEF Carried, T

\* An action goes out: its outcome is due.
LEMMA SendAwake ==
    ASSUME IInv, RowsAdvance, [Next]_vars, Tidy, Awake, NEW j \in Jobs, Send(j)
    PROVE  Tidy' /\ Awake'
<1>1. PICK u \in Tasks : T(j) = u
  BY DEF Send, At, T, IInv, WellFormed, HandlerOK
<1>2. /\ At(j, "send") /\ executing' = executing \cup {job[j].act}
      /\ status' = status /\ captures' = captures /\ online' = online
      /\ budget' = budget
  BY DEF Send
<1>3. CASE (\E a \in job[j].todo : MarkSent(j, a)) /\ UNCHANGED active
  <2>1. PICK a \in job[j].todo : MarkSent(j, a)
    BY <1>3
  <2>2. Does(j, u) /\ Tidy' /\ Carries(job'[j]) /\ job'[j].task = u
    BY <1>1, <1>2, <1>3, <2>1, MarkedTidy DEF At
  <2>. QED
    BY <2>2, AwakeFrom DEF Carried, T
<1>4. CASE job[j].todo = {} /\ Return(j) /\ UNCHANGED action
  <2>1. PICK a \in ActionIds : job[j].act = a
    BY <1>2 DEF At, IInv, WellFormed, HandlerOK, WithAction
  <2>2. action[a].status = "SENT" /\ action[a].task = u /\ job[j].cycle
    BY <1>1, <1>2, <2>1 DEF Tidy, Holds, Planning, At, T, IInv, WellFormed,
                            HandlerOK, WithAction
  <2>3. Moved(j, Idle) /\ job'[j] = Idle
    BY <1>4, ReturnMoves DEF Moved, IInv
  <2>4. /\ Idle.pc = "idle" /\ Idle.task = None /\ Idle.todo = {}
        /\ None # u
    BY TaskEngineAssumption DEF Idle
  <2>5. active' = active \ {u} /\ status[u] # "NONE"
    BY <1>1, <1>4, <2>2 DEF Return, Tidy, Born
  <2>6. Does(j, u)
    <3>1. Rows(j, u)
      BY <1>4 DEF Rows
    <3>2. Requests(j, u)
      BY <1>2 DEF Requests
    <3>. QED
      BY <1>1, <1>2, <2>3, <2>4, <2>5, <3>1, <3>2 DEF Does, WithAction
  <2>7. Holds(j)' /\ OwnRequest(j)' /\ Unstarted(j)' /\ ~At(j, "request_send")'
    BY <2>3, <2>4 DEF Holds, OwnRequest, Unstarted, At, Planning, T
  <2>8. \A i \in Jobs \ {j} : T(i) = u => job[i].pc \notin {"create", "start"}
    BY <1>1, <1>2, NoneStarts DEF Spares, At
  <2>9. Tidy'
    BY <1>2, <1>4, <2>1, <2>5, <2>6, <2>7, <2>8, TidyFrom DEF MovesRow
  <2>10. Carried(u)'
    BY <1>2, <1>4, <2>1, <2>2 DEF Carried, Due
  <2>. QED
    BY <2>6, <2>9, <2>10, AwakeFrom
<1>. QED
  BY <1>3, <1>4 DEF Send

------------------------------------------------------------------------------
\* Steps that begin a handler.

\* A task is created: nothing is about it yet.
LEMMA NewTaskAwake ==
    ASSUME IInv, RowsAdvance, [Next]_vars, Tidy, Awake, NEW j \in Jobs,
           NEW u \in Tasks, NewTask(j, u), job[j].pc \in {"idle", "message"},
           action' = action, active' = active, UNCHANGED <<device, budget>>
    PROVE  Tidy' /\ Awake'
<1>. DEFINE h == [Idle EXCEPT !.pc = "create", !.task = u]
<1>1. h \in Job /\ h.pc = "create" /\ h.task = u /\ h.todo = {}
  BY DEF Job, Idle, PC, TaskStatus
<1>. HIDE DEF h
<1>2. Moved(j, h) /\ job'[j] = h
  BY <1>1, MoveTo DEF NewTask, IInv, Moved, h
<1>3. /\ status[u] = "NONE" /\ status'[u] = "CREATED"
      /\ \A t \in Tasks \ {u} : status'[t] = status[t]
  BY DEF NewTask, SetStatus, IInv, TypeOK
<1>4. Does(j, u)
  <2>1. Rows(j, u)
    BY DEF Rows
  <2>2. Requests(j, u)
    BY DEF Requests, device
  <2>. QED
    BY <1>1, <1>2, <1>3, <2>1, <2>2 DEF Does, device, WithAction
<1>5. \A i \in Jobs : T(i) # u
  BY <1>3 DEF Tidy, Born
<1>6. Unstarted(j)'
  <2>1. u \notin active /\ \A r \in RequestIds : captures[r] # u
    BY <1>3 DEF Tidy, Born
  <2>2. \A a \in ActionIds : action[a].status # "NONE" => action[a].task # u
    BY <1>3 DEF Tidy, Born
  <2>3. \A i \in Jobs \ {j} : job'[i].task # u
    BY <1>2, <1>5 DEF Moved, T
  <2>. QED
    BY <1>1, <1>2, <1>3, <2>1, <2>2, <2>3 DEF Unstarted, T, device
<1>7. Holds(j)' /\ OwnRequest(j)' /\ ~At(j, "request_send")'
  BY <1>1, <1>2 DEF Holds, OwnRequest, At, Planning, T
<1>8. u \notin active'
  BY <1>3 DEF Tidy, Born
<1>9. Tidy'
  BY <1>4, <1>5, <1>6, <1>7, <1>8, TidyFrom DEF MovesRow, device
<1>10. Carried(u)'
  BY <1>1, <1>2 DEF Carried, Carries, T
<1>. QED
  BY <1>4, <1>9, <1>10, AwakeFrom

\* A cancellation or a message begins: it disturbs nobody.
LEMMA BeginsAwake ==
    ASSUME IInv, RowsAdvance, [Next]_vars, Tidy, Awake, NEW j \in Jobs,
           NEW u \in Tasks, Cancel(j, u) \/ Message(j, u)
    PROVE  Tidy' /\ Awake'
<1>1. PICK p \in {"cancel", "message"} : Begin(j, p, u)
  BY DEF Cancel, Message
<1>2. /\ status' = status /\ action' = action /\ active' = active
      /\ UNCHANGED device /\ status[u] # "NONE"
      /\ \A k \in {"disconnect", "reject", "restart"} : budget'[k] = budget[k]
  BY DEF Cancel, Message, Spend, rows, IInv, TypeOK, Trouble
<1>3. /\ Moved(j, Begun(p, u)) /\ job'[j] = Begun(p, u) /\ At(j, "idle")
  <2>1. Moved(j, Begun(p, u))
    BY <1>1, BeginMoves DEF IInv, PC
  <2>. QED
    BY <1>1, <2>1 DEF Begin, Moved
<1>4. /\ Begun(p, u).pc = p /\ Begun(p, u).task = u /\ Begun(p, u).todo = {}
      /\ Begun(p, u).seen = status[u]
  BY DEF Begun, Idle
<1>5. Does(j, u)
  <2>1. Rows(j, u)
    BY <1>2 DEF Rows
  <2>2. Requests(j, u)
    BY <1>2 DEF Requests, device
  <2>. QED
    BY <1>2, <1>3, <1>4, <2>1, <2>2 DEF Does, device, WithAction, At
<1>6. \/ LeavesIt(j, u)
      \/ \A i \in Jobs \ {j} : T(i) = u => job[i].pc \notin {"create", "start"}
  <2>1. CASE Spares(Begun(p, u))
    BY <1>2, <1>3, <2>1 DEF LeavesIt, device
  <2>2. CASE ~Spares(Begun(p, u))
    BY <1>4, <2>2 DEF Spares, Tidy, Unstarted
  <2>. QED
    BY <2>1, <2>2
<1>7. Holds(j)' /\ OwnRequest(j)' /\ Unstarted(j)' /\ ~At(j, "request_send")'
  BY <1>3, <1>4 DEF Holds, OwnRequest, Unstarted, At, Planning, T
<1>8. T(j) # u
  BY <1>3, TaskEngineAssumption DEF At, T, Idle, IInv, WellFormed, HandlerOK
<1>9. Tidy'
  BY <1>2, <1>3, <1>5, <1>6, <1>7, <1>8, TidyFrom DEF MovesRow, device, At, Planning
<1>10. Carried(u) => Carried(u)'
  <2>1. ASSUME NEW i \in Jobs, T(i) = u, Carries(job[i]) PROVE Carried(u)'
    BY <1>3, <1>8, <2>1 DEF Moved, Carried, T
  <2>2. ASSUME NEW r \in RequestIds, captures[r] = u PROVE Carried(u)'
    BY <1>2, <2>2 DEF device, Carried
  <2>3. ASSUME NEW a \in ActionIds, action[a].task = u, Due(a) PROVE Carried(u)'
    BY <1>2, <2>3 DEF device, Carried, Due
  <2>. QED
    BY <2>1, <2>2, <2>3 DEF Carried
<1>. QED
  BY <1>2, <1>5, <1>9, <1>10, AwakeFrom

\* An answer of the device is taken by a handler, which becomes h.
LEMMA TakenTidy ==
    ASSUME IInv, RowsAdvance, [Next]_vars, Tidy, NEW j \in Jobs,
           NEW u \in Tasks, At(j, "idle"), NEW h, Moved(j, h), h.task = u,
           h.todo = {}, h.pc \in {"close", "screen", "return", "record"},
           h.pc = "record" => h.act \in executing,
           \/ executing' = executing
           \/ h.pc \in {"return", "record"} /\ action[h.act].task = u
                                           /\ executing' = executing \ {h.act},
           \/ \E r \in RequestIds : captures[r] = u
           \/ \E a \in executing : action[a].task = u,
           \A r \in RequestIds : captures'[r] # captures[r] =>
              captures[r] = u /\ captures'[r] = None,
           \A a \in executing \ executing' :
              action[a].status = "SENT" => h.pc = "record",
           action' = action, active' = active, online' = online,
           \A k \in {"disconnect", "reject", "restart"} : budget'[k] = budget[k],
           \/ status' = status
           \/ SetStatus(u, "FAILED")
    PROVE  Does(j, u) /\ Tidy'
<1>1. job'[j] = h /\ T(j) # u
  BY TaskEngineAssumption DEF Moved, At, T, Idle, IInv, WellFormed, HandlerOK
<1>2. \A i \in Jobs : T(i) = u => job[i].pc \notin {"create", "start"}
  BY DEF Tidy, Unstarted, IInv, TypeOK, SentBeforeExecuted, Recorded
<1>3. /\ \A t \in Tasks \ {u} : status'[t] = status[t]
      /\ status'[u] # "NONE"
      /\ status'[u] \in Moving => status'[u] = status[u]
  <2>1. status[u] # "NONE"
    BY DEF Tidy, Born, IInv, TypeOK, SentBeforeExecuted, Recorded
  <2>. QED
    BY <2>1 DEF SetStatus, Moving, IInv, TypeOK
<1>4. Does(j, u)
  <2>1. Rows(j, u)
    BY DEF Rows
  <2>2. Requests(j, u)
    BY DEF Requests
  <2>. QED
    BY <1>1, <1>3, <2>1, <2>2 DEF Does, WithAction, At
<1>5. Holds(j)' /\ OwnRequest(j)' /\ Unstarted(j)' /\ ~At(j, "request_send")'
  BY <1>1 DEF Holds, OwnRequest, Unstarted, At, Planning, T
<1>6. \A a \in ActionIds :
         /\ a \in executing \/ MovesRow(j, a) \/ action[a].status # "SENT"
         /\ action'[a].status = "SENT"
         => a \in executing' \/ MovesRow(j, a)'
  BY <1>1 DEF MovesRow, At
<1>7. u \in active' /\ status'[u] \in Moving =>
         u \in active /\ status[u] \in Moving /\ ~Planning(j, u)
  BY <1>1, <1>3 DEF Planning
<1>. QED
  BY <1>2, <1>4, <1>5, <1>6, <1>7, TidyFrom

\* SCREEN_RESULT: the answer names the task the screenshot was asked for.
LEMMA ScreenAwake ==
    ASSUME Lossless, IInv, RowsAdvance, [Next]_vars, Tidy, Awake, NEW j \in Jobs,
           NEW r \in RequestIds, NEW echo \in EchoTaskId,
           ScreenFailed(j, r, echo) \/ ScreenArrived(j, r, echo)
    PROVE  Tidy' /\ Awake'
<1>1. PICK u \in Tasks : u = captures[r] /\ u = ResultTask(r, echo)
  BY DEF Lossless, ScreenFailed, ScreenArrived, ResultTask, IInv, TypeOK
<1>2. /\ \A q \in RequestIds : captures'[q] # captures[q] =>
            captures[q] = u /\ captures'[q] = None
      /\ \A k \in {"disconnect", "reject", "restart"} : budget'[k] = budget[k]
  BY <1>1 DEF ScreenFailed, ScreenArrived, Answered, Spend, IInv, TypeOK, Trouble
<1>3. /\ action' = action /\ active' = active /\ executing' = executing
      /\ online' = online /\ At(j, "idle")
  BY DEF ScreenFailed, ScreenArrived, Begin, rows
<1>4. CASE ScreenFailed(j, r, echo)
  <2>. DEFINE h == [Idle EXCEPT !.pc = "close", !.task = u]
  <2>1. h \in Job /\ h.pc = "close" /\ h.task = u /\ h.todo = {}
    BY DEF Job, Idle, PC, TaskStatus
  <2>2. Moved(j, h)
    BY <1>1, <1>4, <2>1, MoveTo DEF ScreenFailed, IInv
  <2>3. SetStatus(u, "FAILED")
    BY <1>1, <1>4 DEF ScreenFailed
  <2>4. status'[u] \notin Moving
    BY <2>3 DEF SetStatus, Moving, IInv, TypeOK
  <2>. HIDE DEF h
  <2>5. Does(j, u) /\ Tidy'
    BY <1>1, <1>2, <1>3, <2>1, <2>2, <2>3, TakenTidy
  <2>. QED
    BY <2>4, <2>5, AwakeFrom
<1>5. CASE ScreenArrived(j, r, echo)
  <2>. DEFINE h == Begun("screen", u)
  <2>1. h.pc = "screen" /\ h.task = u /\ h.todo = {} /\ h.seen = status[u]
    BY DEF Begun, Idle
  <2>2. Moved(j, h)
    BY <1>1, <1>5, BeginMoves DEF ScreenArrived, IInv, PC
  <2>3. status' = status
    BY <1>5 DEF ScreenArrived, rows
  <2>. HIDE DEF h
  <2>4. Does(j, u) /\ Tidy'
    BY <1>1, <1>2, <1>3, <2>1, <2>2, <2>3, TakenTidy
  <2>5. status[u] \in Moving => Carried(u)'
    BY <2>1, <2>2 DEF Carried, Carries, Moved, T, Moving, Terminal
  <2>. QED
    BY <2>3, <2>4, <2>5, AwakeFrom
<1>. QED
  BY <1>4, <1>5

\* ACTION_RESULT: a first answer is recorded, and a repeated one was not due.
LEMMA ResultAwake ==
    ASSUME IInv, RowsAdvance, [Next]_vars, Tidy, Awake, NEW j \in Jobs,
           NEW a \in ActionIds, NEW ok \in BOOLEAN, ResultArrived(j, a, ok)
    PROVE  Tidy' /\ Awake'
<1>1. PICK u \in Tasks : u = action[a].task
  BY DEF ResultArrived, IInv, SentBeforeExecuted, WellFormed, Recorded
<1>2. /\ action' = action /\ status' = status /\ active' = active
      /\ captures' = captures /\ online' = online /\ At(j, "idle")
      /\ a \in executing /\ executing' \in {executing, executing \ {a}}
      /\ \A k \in {"disconnect", "reject", "restart"} : budget'[k] = budget[k]
  BY DEF ResultArrived, Spend, rows, IInv, TypeOK, Trouble
<1>3. action[a].status \in {"SENT"} \cup Recorded
  BY <1>2 DEF IInv, SentBeforeExecuted
<1>. DEFINE p == IF action[a].status \in Recorded THEN "return" ELSE "record"
            h == [Idle EXCEPT !.pc = p, !.task = u, !.act = a, !.ok = ok]
<1>4. h \in Job
  BY DEF Job, Idle, PC, TaskStatus
<1>5. Moved(j, h)
  BY <1>1, <1>4, MoveTo DEF ResultArrived, IInv
<1>6. /\ h.pc \in {"return", "record"} /\ h.task = u /\ h.todo = {} /\ h.act = a
      /\ action[a].status = "SENT" => h.pc = "record"
  BY <1>3 DEF Idle, Recorded
<1>. HIDE DEF h
<1>7. Does(j, u) /\ Tidy'
  BY <1>1, <1>2, <1>5, <1>6, TakenTidy
<1>8. Carried(u) => Carried(u)'
  <2>1. ASSUME NEW i \in Jobs, T(i) = u, Carries(job[i]) PROVE Carried(u)'
    BY <1>2, <1>5, <2>1 DEF Moved, Carried, Carries, T, At
  <2>2. ASSUME NEW r \in RequestIds, captures[r] = u PROVE Carried(u)'
    BY <1>2, <2>2 DEF Carried
  <2>3. ASSUME NEW b \in ActionIds, action[b].task = u, Due(b) PROVE Carried(u)'
    <3>1. CASE b \in executing'
      BY <1>2, <2>3, <3>1 DEF Carried, Due
    <3>2. CASE b \notin executing'
      BY <1>2, <1>5, <1>6, <2>3, <3>2 DEF Carried, Carries, Due, Moved, T
    <3>. QED
      BY <3>1, <3>2
  <2>. QED
    BY <2>1, <2>2, <2>3 DEF Carried
<1>. QED
  BY <1>2, <1>7, <1>8, AwakeFrom

------------------------------------------------------------------------------
\* Every step, and the theorem.

\* The steps of nobody, of which a lossless run has only the end of a key's time.
LEMMA EnvironmentAwake ==
    ASSUME Lossless, IInv, Tidy, Awake,
           \/ \E j \in Jobs : Reject(j) \/ RequestUnsent(j) \/ SendFails(j)
           \/ \E r \in RequestIds, echo \in EchoTaskId : ScreenOrphan(r, echo)
           \/ Disconnect \/ Reconnect \/ Expire \/ Restart
           \/ UNCHANGED vars
    PROVE  Tidy' /\ Awake'
<1>1. online /\ \A k \in {"disconnect", "reject", "restart"} : budget[k] = 0
  BY DEF Tidy, NoLoss
<1>2. \A r \in RequestIds, echo \in EchoTaskId : ~ScreenOrphan(r, echo)
  BY DEF Lossless, ScreenOrphan, ResultTask
<1>3. Expire \/ UNCHANGED vars
  BY <1>1, <1>2 DEF Reject, RequestUnsent, SendFails, Disconnect, Reconnect,
                    Restart, Spend
<1>4. /\ status' = status /\ action' = action /\ active' = active /\ job' = job
      /\ UNCHANGED device
      /\ \A k \in {"disconnect", "reject", "restart"} : budget'[k] = budget[k]
  BY <1>3 DEF Expire, Spend, vars, rows, device, IInv, TypeOK, Trouble
<1>5. NoLoss' /\ SentRows' /\ Guarded' /\ Born'
  BY <1>4 DEF Tidy, NoLoss, SentRows, Guarded, Born, MovesRow, Planning, T, device
<1>6. ASSUME NEW j \in Jobs PROVE Holds(j)' /\ OwnRequest(j)' /\ Unstarted(j)'
  <2>1. Holds(j) /\ OwnRequest(j) /\ Unstarted(j)
    BY DEF Tidy
  <2>2. Holds(j)'
    BY <1>4, <2>1 DEF Holds, At, Handles, Planning, T, device
  <2>3. OwnRequest(j)'
    BY <1>4, <2>1 DEF OwnRequest, At, device
  <2>4. Unstarted(j)'
    BY <1>4, <2>1 DEF Unstarted, T, device
  <2>. QED
    BY <2>2, <2>3, <2>4
<1>7. Awake'
  <2>1. \A t \in Tasks : QuestionsApart(t)' => QuestionsApart(t)
    BY <1>4 DEF QuestionsApart, Undispatched, Batch
  <2>2. \A t \in Tasks : Carried(t) => Carried(t)'
    BY <1>4 DEF Carried, Due, T, device
  <2>. QED
    BY <1>4, <2>1, <2>2 DEF Awake
<1>. QED
  BY <1>5, <1>6, <1>7 DEF Tidy

LEMMA NextAwake ==
    ASSUME Lossless, IInv, [Next]_vars, Tidy, Awake
    PROVE  Tidy' /\ Awake'
<1>0. RowsAdvance
  BY NextAdvances
<1>1. ASSUME NEW j \in Jobs, Resume(j) PROVE Tidy' /\ Awake'
  <2>1. CASE Plan(j)
    BY <1>0, <2>1, ReadsAwake, WritesAwake, StoresAwake, PlanExecutesAwake DEF Plan
  <2>2. CASE StartTask(j) \/ CancelTask(j) \/ MessageIgnored(j)
    <3>1. CASE StartTask(j) \/ CancelTask(j)
      BY <1>0, <3>1, RestsAwake, WritesAwake
    <3>2. CASE MessageIgnored(j)
      <4>1. CASE Return(j) /\ UNCHANGED status
        BY <1>0, <3>2, <4>1, RestsAwake
      <4>2. CASE (\E t \in Tasks : NewTask(j, t)) /\ UNCHANGED active
        BY <1>0, <3>2, <4>2, NewTaskAwake DEF MessageIgnored, At
      <4>. QED
        BY <3>2, <4>1, <4>2 DEF MessageIgnored
    <3>. QED
      BY <2>2, <3>1, <3>2
  <2>3. CASE RequestUnsent(j) \/ SendFails(j)
    BY <2>3, EnvironmentAwake
  <2>4. CASE \/ RequestTerminal(j) \/ Close(j) \/ ScreenTerminal(j)
             \/ IterateTerminal(j) \/ LeaveCycle(j) \/ ResultTerminal(j)
             \/ BatchUnfinished(j)
    BY <1>0, <2>4, RestsAwake
  <2>5. CASE RequestSkipped(j) \/ IterateSkipped(j)
    BY <1>0, <2>5, SkippedAwake
  <2>6. CASE \/ Start(j) \/ Request(j) \/ ScreenDelivered(j) \/ ResultRecorded(j)
             \/ DecideReplans(j) \/ Waited(j) \/ MessageResumes(j)
             \/ AskAi(j) \/ AiFailed(j) \/ AiAnswers(j)
    BY <1>0, <2>6, ReadsAwake
  <2>7. CASE \/ RequestExhausted(j) \/ AiFails(j) \/ DecideMarked(j) \/ DecideEnds(j)
             \/ UserAsked(j) \/ ActionsCreated(j)
    BY <1>0, <2>7, WritesAwake
  <2>8. CASE \/ CountUnanswered(j) \/ BatchFinished(j) \/ Record(j)
             \/ RequestScreen(j) \/ RequestSent(j) \/ Iterate(j)
             \/ Dispatch(j) \/ Send(j)
    BY <1>0, <2>8, CountsAwake, RecordAwake, RequestScreenAwake, RequestSentAwake,
       IterateAwake, DispatchAwake, SendAwake
  <2>. QED
    BY <1>1, <2>1, <2>2, <2>3, <2>4, <2>5, <2>6, <2>7, <2>8 DEF Resume
<1>2. ASSUME NEW j \in Jobs, NEW t \in Tasks, Create(j, t) \/ Cancel(j, t) \/ Message(j, t)
      PROVE  Tidy' /\ Awake'
  <2>1. CASE Create(j, t)
    BY <1>0, <2>1, NewTaskAwake DEF Create, At
  <2>2. CASE Cancel(j, t) \/ Message(j, t)
    BY <1>0, <2>2, BeginsAwake
  <2>. QED
    BY <1>2, <2>1, <2>2
<1>3. CASE AnswerScreen
  BY <1>0, <1>3, ScreenAwake, EnvironmentAwake DEF AnswerScreen
<1>4. CASE AnswerAction
  BY <1>0, <1>4, ResultAwake DEF AnswerAction
<1>5. CASE \/ \E j \in Jobs : Reject(j)
           \/ Disconnect \/ Reconnect \/ Expire \/ Restart \/ UNCHANGED vars
  BY <1>5, EnvironmentAwake
<1>. QED
  BY <1>1, <1>2, <1>3, <1>4, <1>5 DEF Next

LEMMA InitAwake == ASSUME Lossless, Init PROVE Tidy /\ Awake
<1>1. /\ \A j \in Jobs : job[j] = Idle
      /\ Idle.pc = "idle" /\ Idle.task = None /\ Idle.todo = {} /\ None \notin Tasks
  BY TaskEngineAssumption DEF Init, Idle
<1>2. \A a \in ActionIds : action[a].status = "NONE"
  BY DEF Init, NoRow
<1>3. NoLoss
  BY DEF Init, Lossless, NoLoss
<1>4. SentRows /\ Guarded /\ Born
  BY <1>1, <1>2, TaskEngineAssumption DEF Init, SentRows, Guarded, Born, T
<1>5. \A j \in Jobs : Holds(j) /\ OwnRequest(j) /\ Unstarted(j)
  BY <1>1 DEF Holds, OwnRequest, Unstarted, At, Planning, T
<1>6. Awake
  BY DEF Init, Awake, Moving
<1>. QED
  BY <1>3, <1>4, <1>5, <1>6 DEF Tidy

\* Where nothing is lost, everything is tidy and no task is left to itself.
LEMMA AwakeIsKept == ASSUME Lossless PROVE Spec => [](IInv /\ Tidy /\ Awake)
<1>1. Init => IInv /\ Tidy /\ Awake
  BY InitInv, InitAwake
<1>2. IInv /\ Tidy /\ Awake /\ [Next]_vars => (IInv /\ Tidy /\ Awake)'
  BY NextInv, NextAwake
<1>. QED
  BY <1>1, <1>2, PTL DEF Spec

\* What carries a task on is in motion.
LEMMA CarriedMoves ==
    ASSUME IInv, NEW t \in Tasks, Carried(t)
    PROVE  InMotion(t)
BY DEF Carried, InMotion, Carries, Due, At

\* Where the agent repeats the taskId and stays connected, no await is rejected
\* and the server is not restarted, the only task left to itself is one with a
\* question among other actions: whatever handlers of it interleave, whatever is
\* cancelled, answered by the user or answered twice by the device.
THEOREM OnlyQuestionsDo == ASSUME Lossless PROVE Spec => []OnlyQuestionsStrand
<1>1. IInv /\ Tidy /\ Awake => OnlyQuestionsStrand
  BY CarriedMoves DEF Awake, OnlyQuestionsStrand
<1>. QED
  BY <1>1, AwakeIsKept, PTL

------------------------------------------------------------------------------
\* Plans that store no question.

\* No plan holds an action that is stored and not sent.
Unquestioning == \A p \in Plans : p.control \cap {"WAIT", "ASK_USER"} = {}

\* Every stored action is one that a dispatch loop is going to send.
NoQuestion == \A a \in ActionIds : ~Undispatched(a)

\* A step of handler j that drops no row it has still to send.
LEMMA NoQuestionFrom ==
    ASSUME IInv, NoQuestion, NEW j \in Jobs, Moved(j, job'[j]),
           \A a \in ActionIds : action'[a].status = "PENDING" =>
              \/ action[a].status = "PENDING" /\ a \notin job[j].todo
              \/ a \in job'[j].todo
    PROVE  NoQuestion'
<1>. SUFFICES ASSUME NEW a \in ActionIds, action'[a].status = "PENDING"
              PROVE  \E i \in Jobs : a \in job'[i].todo
  BY DEF NoQuestion, Undispatched
<1>1. CASE a \in job'[j].todo
  BY <1>1
<1>2. CASE action[a].status = "PENDING" /\ a \notin job[j].todo
  <2>1. PICK i \in Jobs : a \in job[i].todo
    BY <1>2 DEF NoQuestion, Undispatched
  <2>. QED
    BY <1>2, <2>1 DEF Moved
<1>. QED
  BY <1>1, <1>2

\* What carries a plan out: its actions are stored, and marked one by one.
LEMMA DispatchNoQuestion ==
    ASSUME IInv, Tidy, NoQuestion, [Next]_vars, NEW j \in Jobs,
           \/ ActionsCreated(j) \/ Dispatch(j) \/ Send(j)
           \/ \E p \in Plans : PlanExecutes(j, p)
    PROVE  NoQuestion'
<1>1. ASSUME NEW a, MarkSent(j, a) PROVE NoQuestion'
  <2>. DEFINE h == [job[j] EXCEPT !.pc = "send", !.act = a,
                                  !.todo = job[j].todo \ {a}]
  <2>1. /\ a \in ActionIds /\ action[a].status = "PENDING"
        /\ \A i \in Jobs \ {j} : a \notin job[i].todo
        /\ Moved(j, h)
        /\ h.pc = "send" /\ h.act = a /\ h.todo = job[j].todo \ {a}
        /\ h.task = T(j) /\ h.cycle = job[j].cycle
    BY <1>1, MarkSentFacts
  <2>. HIDE DEF h
  <2>2. job'[j] = h
    BY <2>1 DEF Moved
  <2>3. /\ action'[a].status = "SENT"
        /\ \A b \in ActionIds \ {a} : action'[b] = action[b]
    BY <1>1, <2>1 DEF MarkSent, IInv, TypeOK, ActionRow
  <2>. QED
    BY <2>1, <2>2, <2>3, NoQuestionFrom
<1>2. CASE ActionsCreated(j)
  <2>1. action' = action /\ Await(j, "dispatch") /\ T(j) \in Tasks
    BY <1>2 DEF ActionsCreated, At, T, IInv, WellFormed, HandlerOK
  <2>2. Proceeds(j, "dispatch")
    BY <2>1, AwaitProceeds DEF PC
  <2>. QED
    BY <2>1, <2>2, NoQuestionFrom DEF Proceeds
<1>3. CASE Dispatch(j)
  BY <1>1, <1>3 DEF Dispatch
<1>4. CASE Send(j)
  <2>1. CASE job[j].todo = {} /\ Return(j) /\ UNCHANGED action
    BY <1>4, <2>1, OthersMove, NoQuestionFrom
  <2>. QED
    BY <1>1, <1>4, <2>1 DEF Send
<1>5. ASSUME NEW p \in Plans, PlanExecutes(j, p) PROVE NoQuestion'
  <2>1. PICK new \in FreshRows(p.work) :
           /\ CreateActions(new, T(j), job[j].iter)
           /\ job' = [job EXCEPT ![j].pc = "created", ![j].todo = new,
                                 ![j].ok = SaysDone(p)]
    BY <1>5 DEF PlanExecutes
  <2>2. Moved(j, job'[j])
    BY <1>5, OthersMove
  <2>3. job'[j].todo = new
    BY <2>1 DEF IInv, TypeOK, Job
  <2>4. \A a \in ActionIds \ new : action'[a] = action[a]
    BY <2>1 DEF CreateActions
  <2>5. job[j].todo = {}
    BY <1>5 DEF PlanExecutes, Planned, At, Tidy, Holds
  <2>. QED
    BY <2>2, <2>3, <2>4, <2>5, NoQuestionFrom
<1>. QED
  BY <1>2, <1>3, <1>4, <1>5

\* The other steps of handlers create no row, and have none to send.
LEMMA OthersNoQuestion ==
    ASSUME IInv, Tidy, NoQuestion, [Next]_vars, NEW j \in Jobs,
           \/ Plain(j) \/ RequestScreen(j) \/ RequestSent(j) \/ Iterate(j)
           \/ MessageIgnored(j) \/ \E t \in Tasks : Create(j, t) \/ Message(j, t)
           \/ \E r \in RequestIds, echo \in EchoTaskId :
                 ScreenFailed(j, r, echo) \/ ScreenArrived(j, r, echo)
           \/ \E a \in ActionIds, ok \in BOOLEAN : ResultArrived(j, a, ok),
           ~(job[j].pc \in {"created", "dispatch", "send"}),
           action' = action \/ Record(j)
    PROVE  NoQuestion'
<1>1. Moved(j, job'[j])
  BY OthersMove DEF Plain
<1>2. job[j].todo = {}
  BY DEF Tidy, Holds
<1>3. \A a \in ActionIds : action'[a].status = "PENDING" => action[a].status = "PENDING"
  <2>1. CASE Record(j)
    BY <2>1 DEF Record, IInv, TypeOK, ActionRow
  <2>. QED
    BY <2>1
<1>. QED
  BY <1>1, <1>2, <1>3, NoQuestionFrom

LEMMA NextNoQuestion ==
    ASSUME Lossless, Unquestioning, IInv, Tidy, NoQuestion, [Next]_vars
    PROVE  NoQuestion'
<1>1. /\ online /\ \A k \in {"disconnect", "reject", "restart"} : budget[k] = 0
  BY DEF Tidy, NoLoss
<1>2. ASSUME NEW j \in Jobs, Resume(j) PROVE NoQuestion'
  <2>1. CASE \/ ActionsCreated(j) \/ Dispatch(j) \/ Send(j)
             \/ \E p \in Plans : PlanExecutes(j, p)
    BY <2>1, DispatchNoQuestion
  <2>2. CASE Plan(j) /\ \A p \in Plans : ~PlanExecutes(j, p)
    <3>1. Plain(j)
      BY <1>2, <2>2, OthersArePlain
      DEF Plan, PlanAwaitsUser, PlanCompletes, PlanFails, PlanAsksUser,
          PlanReplans, PlanWaits, Planned, RequestScreen, RequestSent, Iterate,
          Dispatch, Send, MessageIgnored, At
    <3>2. action' = action /\ job[j].pc = "plan"
      BY <2>2 DEF Plan, PlanAwaitsUser, PlanCompletes, PlanFails, PlanAsksUser,
                  PlanReplans, PlanWaits, Planned, At, rows, Unquestioning,
                  PlanVerdict
    <3>. QED
      BY <3>1, <3>2, OthersNoQuestion
  <2>3. CASE Start(j) \/ StartTask(j) \/ Request(j) \/ RequestTerminal(j)
             \/ RequestSkipped(j) \/ RequestExhausted(j) \/ Close(j)
             \/ ScreenTerminal(j) \/ ScreenDelivered(j) \/ IterateTerminal(j)
             \/ IterateSkipped(j) \/ AskAi(j) \/ AiFails(j) \/ AiFailed(j)
             \/ AiAnswers(j) \/ UserAsked(j) \/ Waited(j) \/ LeaveCycle(j)
    <3>1. Plain(j)
      BY <2>3, ReturnsArePlain, ReadsArePlain, AwaitsArePlain, EndsArePlain,
         WritesArePlain, GivesUpPlain
    <3>2. action' = action /\ job[j].pc \notin {"created", "dispatch", "send"}
      BY <2>3 DEF Start, StartTask, Request, RequestTerminal, RequestSkipped,
                  RequestExhausted, Close, ScreenTerminal, ScreenDelivered,
                  IterateTerminal, IterateSkipped, AskAi, AiFails, AiFailed,
                  AiAnswers, UserAsked, Waited, LeaveCycle, At, rows
    <3>. QED
      BY <3>1, <3>2, OthersNoQuestion
  <2>4. CASE Record(j) \/ ResultRecorded(j) \/ ResultTerminal(j)
             \/ CountUnanswered(j) \/ BatchUnfinished(j) \/ BatchFinished(j)
             \/ DecideMarked(j) \/ DecideEnds(j) \/ DecideReplans(j)
             \/ CancelTask(j) \/ MessageResumes(j)
    <3>1. Plain(j)
      BY <2>4, ReturnsArePlain, ReadsArePlain, EndsArePlain, GivesUpPlain,
         CountsArePlain, RowsArePlain
    <3>2. /\ action' = action \/ Record(j)
          /\ job[j].pc \notin {"created", "dispatch", "send"}
      BY <2>4 DEF Record, ResultRecorded, ResultTerminal, CountUnanswered,
                  BatchUnfinished, BatchFinished, DecideMarked, DecideEnds,
                  DecideReplans, CancelTask, MessageResumes, At, rows
    <3>. QED
      BY <3>1, <3>2, OthersNoQuestion
  <2>5. CASE RequestScreen(j) \/ RequestSent(j) \/ Iterate(j) \/ MessageIgnored(j)
    <3>1. action' = action /\ job[j].pc \notin {"created", "dispatch", "send"}
      BY <2>5 DEF RequestScreen, RequestSent, Iterate, MessageIgnored, At, rows
    <3>. QED
      BY <2>5, <3>1, OthersNoQuestion
  <2>6. CASE RequestUnsent(j) \/ SendFails(j)
    BY <1>1, <2>6 DEF RequestUnsent, SendFails
  <2>. QED
    BY <1>2, <2>1, <2>2, <2>3, <2>4, <2>5, <2>6 DEF Resume
<1>3. ASSUME NEW j \in Jobs, NEW t \in Tasks, Create(j, t) \/ Cancel(j, t) \/ Message(j, t)
      PROVE  NoQuestion'
  <2>1. action' = action /\ job[j].pc = "idle"
    BY <1>3 DEF Create, Cancel, Message, Begin, At, rows
  <2>. QED
    BY <1>3, <2>1, OthersNoQuestion, CancelIsPlain
<1>4. ASSUME NEW j \in Jobs,
             \/ \E r \in RequestIds, echo \in EchoTaskId :
                   ScreenFailed(j, r, echo) \/ ScreenArrived(j, r, echo)
             \/ \E a \in ActionIds, ok \in BOOLEAN : ResultArrived(j, a, ok)
      PROVE  NoQuestion'
  <2>1. action' = action /\ job[j].pc = "idle"
    BY <1>4 DEF ScreenFailed, ScreenArrived, ResultArrived, Begin, At, rows
  <2>. QED
    BY <1>4, <2>1, OthersNoQuestion
<1>5. CASE action' = action /\ job' = job
  BY <1>5 DEF NoQuestion, Undispatched
<1>6. CASE \/ \E j \in Jobs : Reject(j)
           \/ Disconnect \/ Restart
  BY <1>1, <1>6 DEF Reject, Disconnect, Restart, Spend
<1>. QED
  BY <1>2, <1>3, <1>4, <1>5, <1>6
  DEF Next, AnswerScreen, AnswerAction, ScreenOrphan, Reconnect, Expire, vars, rows

\* A task is never left without a handler or a request at the device where
\* nothing is lost and no plan asks the user or waits, however many actions the
\* plans have and however the handlers of a task interleave.
THEOREM NoTaskWaitsForNothing ==
    ASSUME Lossless, Unquestioning PROVE Spec => []NeverStranded
<1>1. Init => NoQuestion
  BY DEF Init, NoQuestion, Undispatched, NoRow
<1>2. IInv /\ Tidy /\ NoQuestion /\ [Next]_vars => NoQuestion'
  BY NextNoQuestion
<1>3. IInv /\ Tidy /\ Awake /\ NoQuestion => NeverStranded
  BY CarriedMoves DEF Awake, NoQuestion, QuestionsApart, NeverStranded
<1>. QED
  BY <1>1, <1>2, <1>3, AwakeIsKept, PTL DEF Spec

------------------------------------------------------------------------------
\* Answers that come one at a time.

\* The rows there are of task t.
RowsOf(t) ==
    {a \in ActionIds : action[a].status # "NONE" /\ action[a].task = t}

\* Handler h is planning a round of task t.
Opens(h, t) == h.task = t /\ h.pc \in {"ask_ai", "ai", "plan"}

\* A round of a task has one row at most, none is of a round to come, and the
\* round being planned has none yet.
Rounds ==
    /\ \A t \in Tasks : \A a \in RowsOf(t) :
          /\ action[a].iter <= iteration[t]
          /\ \A b \in RowsOf(t) : action[b].iter = action[a].iter => a = b
    /\ \A j \in Jobs, t \in Tasks : Opens(job[j], t) =>
          /\ job[j].iter = iteration[t]
          /\ \A a \in RowsOf(t) : action[a].iter < iteration[t]

\* Handler j stores no row, and begins no round.
LEMMA RoundsStay ==
    ASSUME IInv, RowsAdvance, Rounds, NEW j \in Jobs, Moved(j, job'[j]),
           \A a \in ActionIds : action'[a].status # "NONE" => action[a].status # "NONE",
           iteration' = iteration,
           \A t \in Tasks : Opens(job'[j], t) =>
              Opens(job[j], t) /\ job'[j].iter = job[j].iter
    PROVE  Rounds'
<1>1. ASSUME NEW t, NEW a \in RowsOf(t)'
      PROVE  a \in RowsOf(t) /\ action'[a].iter = action[a].iter
  BY <1>1 DEF RowsOf, RowsAdvance
<1>2. \A t \in Tasks : \A a \in RowsOf(t)' :
         /\ action'[a].iter <= iteration'[t]
         /\ \A b \in RowsOf(t)' : action'[b].iter = action'[a].iter => a = b
  BY <1>1 DEF Rounds
<1>3. ASSUME NEW i \in Jobs, NEW t \in Tasks, Opens(job'[i], t)
      PROVE  /\ job'[i].iter = iteration'[t]
             /\ \A a \in RowsOf(t)' : action'[a].iter < iteration'[t]
  <2>1. Opens(job[i], t) /\ job'[i].iter = job[i].iter
    BY <1>3 DEF Moved
  <2>. QED
    BY <1>1, <2>1 DEF Rounds
<1>. QED
  BY <1>2, <1>3 DEF Rounds, Opens

\* A round begins: its task has no other handler.
LEMMA IterateRounds ==
    ASSUME Pace, Rounds, [Next]_vars, NEW j \in Jobs, Iterate(j)
    PROVE  Rounds'
<1>1. PICK u \in Tasks : T(j) = u /\ Drives(job[j], u)
  BY DEF Iterate, At, T, Pace, Order, IInv, WellFormed, HandlerOK, Drives, Early
<1>2. /\ Moved(j, job'[j]) /\ job'[j].task = u /\ job'[j].iter = iteration[u] + 1
  <2>1. Moved(j, job'[j])
    BY OtherMoves DEF Pace
  <2>2. job \in [Jobs -> Job] /\ job[j] \in Job /\ job[j].iter = iteration[u]
    BY <1>1 DEF Pace, Order, IInv, TypeOK, Numbers, Iterate, At
  <2>. QED
    BY <1>1, <2>1, <2>2 DEF Iterate, Job, T
<1>3. /\ iteration'[u] = iteration[u] + 1 /\ iteration[u] \in Nat
      /\ \A t \in Tasks \ {u} : iteration'[t] = iteration[t]
      /\ action' = action
  BY <1>1 DEF Iterate, Pace, Numbers, Order, IInv, TypeOK, At
<1>4. \A a \in ActionIds : action[a].iter \in Nat
  BY DEF Pace, Order, IInv, TypeOK, ActionRow
<1>5. ASSUME NEW t \in Tasks, NEW a \in RowsOf(t)'
      PROVE  /\ a \in RowsOf(t) /\ action'[a].iter = action[a].iter
             /\ action[a].iter <= iteration[t] /\ action[a].iter <= iteration'[t]
             /\ t = u => action[a].iter < iteration'[t]
  <2>1. a \in RowsOf(t) /\ a \in ActionIds /\ action'[a] = action[a]
    BY <1>3, <1>5 DEF RowsOf
  <2>2. action[a].iter <= iteration[t]
    BY <2>1 DEF Rounds
  <2>. QED
    BY <1>3, <1>4, <2>1, <2>2
<1>6. \A t \in Tasks : \A a \in RowsOf(t)' :
         /\ action'[a].iter <= iteration'[t]
         /\ \A b \in RowsOf(t)' : action'[b].iter = action'[a].iter => a = b
  BY <1>5 DEF Rounds
<1>7. ASSUME NEW i \in Jobs, NEW t \in Tasks, Opens(job'[i], t)
      PROVE  /\ job'[i].iter = iteration'[t]
             /\ \A a \in RowsOf(t)' : action'[a].iter < iteration'[t]
  <2>1. CASE i = j
    BY <1>2, <1>3, <1>5, <1>7, <2>1 DEF Opens
  <2>2. CASE i # j
    <3>1. job'[i] = job[i]
      BY <1>2, <2>2 DEF Moved
    <3>2. Opens(job[i], t) /\ Drives(job[i], t)
      BY <1>7, <3>1 DEF Opens, Drives, Early
    <3>3. t # u
      BY <1>1, <2>2, <3>2 DEF Pace, Order, OneCarrier, OnlyBy
    <3>4. iteration'[t] = iteration[t]
      BY <1>3, <3>3
    <3>5. /\ job[i].iter = iteration[t]
          /\ \A a \in RowsOf(t) : action[a].iter < iteration[t]
      BY <3>2 DEF Rounds
    <3>6. \A a \in RowsOf(t)' : action'[a].iter < iteration'[t]
      BY <1>5, <3>4, <3>5
    <3>. QED
      BY <3>1, <3>4, <3>5, <3>6
  <2>. QED
    BY <2>1, <2>2
<1>. QED
  BY <1>6, <1>7 DEF Rounds, Opens

\* A set of at most one fresh row.
LEMMA OneFresh ==
    ASSUME NEW n \in {0, 1}, NEW new \in FreshRows(n)
    PROVE  new \in SUBSET Unused /\ \A a, b \in new : a = b
<1>1. new \in SUBSET Unused /\ new \subseteq ActionIds /\ Cardinality(new) = n
  BY DEF FreshRows, Unused
<1>2. IsFiniteSet(new)
  BY <1>1, FS_Subset, TaskEngineAssumption
<1>3. new = {} \/ \E a : new = {a}
  BY <1>1, <1>2, FS_EmptySet, FS_Singleton
<1>. QED
  BY <1>1, <1>3

\* The row of a plan is the first of its round, which nobody plans besides.
LEMMA RoundGrows ==
    ASSUME Pace, Rounds, NEW j \in Jobs, Moved(j, job'[j]), At(j, "plan"),
           job'[j].pc \notin {"ask_ai", "ai", "plan"},
           NEW n \in {0, 1}, NEW new \in FreshRows(n),
           CreateActions(new, T(j), job[j].iter), iteration' = iteration
    PROVE  Rounds'
<1>1. PICK u \in Tasks : T(j) = u /\ Drives(job[j], u)
  BY DEF At, T, Pace, Order, IInv, WellFormed, HandlerOK, Drives, Early
<1>2. new \in SUBSET Unused /\ \A a, b \in new : a = b
  BY OneFresh
<1>3. /\ \A a \in ActionIds \ new : action'[a] = action[a]
      /\ \A a \in new : action'[a].task = u /\ action'[a].iter = iteration[u]
      /\ \A a \in RowsOf(u) : action[a].iter < iteration[u]
      /\ iteration[u] \in Nat
  <2>1. job[j].iter = iteration[u]
    BY <1>1 DEF Rounds, Opens, At, T
  <2>. QED
    BY <1>1, <1>2, <2>1
    DEF CreateActions, Rounds, Opens, At, T, Pace, Order, IInv, TypeOK, Unused
<1>4. \A t \in Tasks : \A a \in RowsOf(t)' :
         \/ a \in RowsOf(t) /\ a \notin new
         \/ a \in new /\ t = u
  BY <1>3 DEF RowsOf
<1>5. \A a \in ActionIds : action[a].iter \in Nat
  BY DEF Pace, Order, IInv, TypeOK, ActionRow
<1>6. \A t \in Tasks : RowsOf(t) \subseteq ActionIds
  BY DEF RowsOf
<1>7. ASSUME NEW t \in Tasks, NEW a \in RowsOf(t)'
      PROVE  action'[a].iter <= iteration'[t]
  <2>1. CASE a \in RowsOf(t) /\ a \notin new
    BY <1>3, <1>6, <2>1 DEF Rounds
  <2>2. CASE a \in new /\ t = u
    BY <1>3, <2>2
  <2>. QED
    BY <1>4, <1>7, <2>1, <2>2
<1>8. ASSUME NEW t \in Tasks, NEW a \in RowsOf(t)', NEW b \in RowsOf(t)',
             action'[b].iter = action'[a].iter
      PROVE  a = b
  <2>1. CASE a \in RowsOf(t) /\ b \in RowsOf(t) /\ a \notin new /\ b \notin new
    BY <1>3, <1>6, <1>8, <2>1 DEF Rounds
  <2>2. CASE t = u /\ (a \in new \/ b \in new)
    BY <1>2, <1>3, <1>4, <1>5, <1>6, <1>8, <2>2
  <2>. QED
    BY <1>4, <1>8, <2>1, <2>2
<1>9. ASSUME NEW i \in Jobs, NEW t \in Tasks, Opens(job'[i], t)
      PROVE  /\ job'[i].iter = iteration'[t]
             /\ \A a \in RowsOf(t)' : action'[a].iter < iteration'[t]
  <2>1. i # j /\ job'[i] = job[i]
    BY <1>9 DEF Moved, Opens
  <2>2. Opens(job[i], t) /\ Drives(job[i], t)
    BY <1>9, <2>1 DEF Opens, Drives, Early
  <2>3. t # u
    BY <1>1, <2>1, <2>2 DEF Pace, Order, OneCarrier, OnlyBy
  <2>4. /\ job[i].iter = iteration[t]
        /\ \A a \in RowsOf(t) : action[a].iter < iteration[t]
    BY <2>2 DEF Rounds
  <2>5. \A a \in RowsOf(t)' : a \in RowsOf(t) /\ action'[a] = action[a]
    BY <1>3, <1>4, <1>6, <2>3
  <2>. QED
    BY <2>1, <2>4, <2>5
<1>. QED
  BY <1>7, <1>8, <1>9 DEF Rounds, Opens

\* The other steps of handlers store no row.
LEMMA StoresNothing ==
    ASSUME IInv, NEW j \in Jobs, Resume(j),
           \A p \in Plans : ~PlanExecutes(j, p) /\ ~PlanAsksUser(j, p)
                                                /\ ~PlanWaits(j, p)
    PROVE  \A a \in ActionIds : action'[a].status # "NONE" => action[a].status # "NONE"
<1>1. ASSUME NEW a, MarkSent(j, a)
      PROVE  \A b \in ActionIds : action'[b].status # "NONE" => action[b].status # "NONE"
  BY <1>1 DEF MarkSent, IInv, TypeOK, SentBeforeExecuted
<1>2. CASE Dispatch(j) \/ Send(j)
  BY <1>1, <1>2 DEF Dispatch, Send
<1>3. CASE Record(j)
  BY <1>3 DEF Record, At, IInv, TypeOK, WellFormed, HandlerOK, WithAction, Recorded
<1>4. CASE Plan(j)
  BY <1>4 DEF Plan, PlanAwaitsUser, PlanCompletes, PlanFails, PlanReplans, rows
<1>5. CASE ~Plan(j) /\ ~Dispatch(j) /\ ~Send(j) /\ ~Record(j)
  <2>1. action' = action
    BY <1>5
    DEF Resume, rows, Start, StartTask, Request, RequestTerminal,
        RequestSkipped, RequestExhausted, RequestScreen, RequestSent,
        RequestUnsent, Close, ScreenTerminal, ScreenDelivered,
        IterateTerminal, IterateSkipped, Iterate, AskAi, AiFails, AiFailed,
        AiAnswers, UserAsked, Waited, ActionsCreated, SendFails, LeaveCycle,
        ResultRecorded, ResultTerminal, CountUnanswered, BatchUnfinished,
        BatchFinished, DecideMarked, DecideEnds, DecideReplans, CancelTask,
        MessageResumes, MessageIgnored
  <2>. QED
    BY <2>1
<1>. QED
  BY <1>2, <1>3, <1>4, <1>5

\* Nor do they begin to plan a round.
LEMMA OpensNothing ==
    ASSUME IInv, NEW j \in Jobs, Resume(j), ~Iterate(j),
           NEW t \in Tasks, Opens(job'[j], t)
    PROVE  Opens(job[j], t) /\ job'[j].iter = job[j].iter
<1>1. ASSUME NEW p, AwaitTask(j, p) \/ Await(j, p), p \notin {"ask_ai", "ai", "plan"}
      PROVE  FALSE
  BY <1>1, AwaitKeeps DEF Opens
<1>2. ASSUME Return(j) \/ ReturnCleared(j) PROVE FALSE
  BY <1>2, ReturnKeeps, TaskEngineAssumption DEF Opens
<1>3. job \in [Jobs -> Job] /\ job[j] \in Job
  BY DEF IInv, TypeOK
<1>4. CASE AskAi(j) \/ AiAnswers(j)
  BY <1>3, <1>4 DEF AskAi, AiAnswers, Await, At, Opens, Job
<1>5. CASE Plan(j)
  <2>1. PICK p \in Plans :
          \/ PlanAwaitsUser(j, p) \/ PlanCompletes(j, p) \/ PlanFails(j, p)
          \/ PlanAsksUser(j, p)   \/ PlanReplans(j, p)   \/ PlanWaits(j, p)
          \/ PlanExecutes(j, p)
    BY <1>5 DEF Plan
  <2>2. CASE PlanExecutes(j, p)
    BY <1>3, <2>2 DEF PlanExecutes, Opens, Job
  <2>3. CASE ~PlanExecutes(j, p)
    BY <1>1, <2>1, <2>3 DEF PlanAwaitsUser, PlanCompletes, PlanFails,
                            PlanAsksUser, PlanReplans, PlanWaits, CompleteTask,
                            FailTask
  <2>. QED
    BY <2>2, <2>3
<1>6. CASE Dispatch(j) \/ Send(j)
  <2>1. ASSUME NEW a, MarkSent(j, a) PROVE FALSE
    BY <1>3, <2>1 DEF MarkSent, Opens, Job
  <2>. QED
    BY <1>2, <1>6, <2>1 DEF Dispatch, Send
<1>7. CASE RequestScreen(j) \/ CountUnanswered(j) \/ BatchFinished(j)
  BY <1>3, <1>7 DEF RequestScreen, CountUnanswered, BatchFinished, Opens, Job
<1>8. CASE MessageIgnored(j)
  <2>1. ASSUME NEW u \in Tasks, NewTask(j, u) PROVE FALSE
    <3>1. job'[j].pc = "create"
      BY <1>3, <2>1 DEF NewTask, Idle
    <3>. QED
      BY <3>1 DEF Opens
  <2>. QED
    BY <1>2, <1>8, <2>1 DEF MessageIgnored
<1>9. CASE Start(j) \/ StartTask(j) \/ Request(j) \/ RequestTerminal(j)
             \/ RequestSkipped(j) \/ RequestExhausted(j) \/ RequestSent(j)
             \/ RequestUnsent(j) \/ Close(j) \/ ScreenTerminal(j)
             \/ ScreenDelivered(j) \/ IterateTerminal(j) \/ IterateSkipped(j)
  BY <1>1, <1>2, <1>9
  DEF Start, StartTask, Request, RequestTerminal, RequestSkipped,
      RequestExhausted, RequestSent, RequestUnsent, Close, ScreenTerminal,
      ScreenDelivered, IterateTerminal, IterateSkipped, FailTask
<1>10. CASE AiFails(j) \/ AiFailed(j) \/ UserAsked(j) \/ Waited(j)
             \/ ActionsCreated(j) \/ SendFails(j) \/ LeaveCycle(j) \/ Record(j)
             \/ ResultRecorded(j) \/ ResultTerminal(j) \/ BatchUnfinished(j)
             \/ DecideMarked(j) \/ DecideEnds(j) \/ DecideReplans(j)
             \/ CancelTask(j) \/ MessageResumes(j)
  BY <1>1, <1>2, <1>10
  DEF AiFails, AiFailed, UserAsked, Waited, ActionsCreated, SendFails,
      LeaveCycle, Record, ResultRecorded, ResultTerminal, BatchUnfinished,
      DecideMarked, DecideEnds, DecideReplans, CancelTask, MessageResumes,
      FailTask, CompleteTask
<1>. QED
  BY <1>4, <1>5, <1>6, <1>7, <1>8, <1>9, <1>10 DEF Resume

\* The rounds are kept apart.
LEMMA NextRounds ==
    ASSUME Orderly, Pace, Rounds, [Next]_vars
    PROVE  Rounds'
<1>0. IInv /\ RowsAdvance
  BY NextAdvances DEF Pace, Order
<1>1. ASSUME NEW j \in Jobs, Resume(j) PROVE Rounds'
  <2>1. Moved(j, job'[j])
    <3>1. Plain(j) => Moved(j, job'[j])
      BY DEF Plain
    <3>. QED
      BY <1>0, <1>1, <3>1, OthersArePlain, OthersMove
  <2>2. CASE Iterate(j)
    BY <2>2, IterateRounds
  <2>3. ASSUME NEW p \in Plans, PlanExecutes(j, p) PROVE Rounds'
    <3>1. p.work \in {0, 1}
      BY TaskEngineAssumption DEF Orderly, PlanSpace
    <3>2. job'[j].pc = "created"
      BY <1>0, <2>3 DEF PlanExecutes, IInv, TypeOK, Job
    <3>3. PICK new \in FreshRows(p.work) : CreateActions(new, T(j), job[j].iter)
      BY <2>3 DEF PlanExecutes
    <3>4. At(j, "plan") /\ iteration' = iteration
      BY <2>3 DEF PlanExecutes, Planned
    <3>. QED
      BY <2>1, <3>1, <3>2, <3>3, <3>4, RoundGrows
  <2>4. ASSUME NEW p \in Plans, PlanAsksUser(j, p) \/ PlanWaits(j, p) PROVE Rounds'
    <3>1. job'[j].pc \in {"asked", "wait"}
      BY <1>0, <2>4, AwaitKeeps DEF PlanAsksUser, PlanWaits
    <3>2. PICK new \in FreshRows(1) : CreateActions(new, T(j), job[j].iter)
      BY <2>4 DEF PlanAsksUser, PlanWaits
    <3>3. At(j, "plan") /\ iteration' = iteration
      BY <2>4 DEF PlanAsksUser, PlanWaits, Planned
    <3>. QED
      BY <2>1, <3>1, <3>2, <3>3, RoundGrows
  <2>5. CASE ~Iterate(j) /\ \A p \in Plans : ~PlanExecutes(j, p)
                              /\ ~PlanAsksUser(j, p) /\ ~PlanWaits(j, p)
    <3>1. iteration' = iteration
      BY <1>1, <2>5
      DEF Resume, rows, Start, StartTask, Request, RequestTerminal,
          RequestSkipped, RequestExhausted, RequestScreen, RequestSent,
          RequestUnsent, Close, ScreenTerminal, ScreenDelivered,
          IterateTerminal, IterateSkipped, AskAi, AiFails, AiFailed, AiAnswers,
          Plan, PlanAwaitsUser, PlanCompletes, PlanFails, PlanReplans,
          UserAsked, Waited, ActionsCreated, Dispatch, Send, SendFails,
          LeaveCycle, Record, ResultRecorded, ResultTerminal, CountUnanswered,
          BatchUnfinished, BatchFinished, DecideMarked, DecideEnds,
          DecideReplans, CancelTask, MessageResumes, MessageIgnored
    <3>. QED
      BY <1>0, <1>1, <2>1, <2>5, <3>1, StoresNothing, OpensNothing, RoundsStay
  <2>. QED
    BY <2>2, <2>3, <2>4, <2>5
<1>2. ASSUME NEW j \in Jobs,
             \/ \E t \in Tasks : Create(j, t) \/ Cancel(j, t) \/ Message(j, t)
             \/ Reject(j)
             \/ \E r \in RequestIds, echo \in EchoTaskId :
                   ScreenFailed(j, r, echo) \/ ScreenArrived(j, r, echo)
             \/ \E a \in ActionIds, ok \in BOOLEAN : ResultArrived(j, a, ok)
      PROVE  Rounds'
  <2>1. Moved(j, job'[j])
    <3>1. Plain(j) => Moved(j, job'[j])
      BY DEF Plain
    <3>. QED
      BY <1>0, <1>2, <3>1, OthersArePlain, OthersMove
  <2>2. action' = action /\ iteration' = iteration
    BY <1>2 DEF Create, Cancel, Message, Reject, ScreenFailed, ScreenArrived,
                ResultArrived, rows
  <2>3. job'[j].pc \notin {"ask_ai", "ai", "plan"}
    <3>0. job \in [Jobs -> Job]
      BY <1>0 DEF IInv, TypeOK
    <3>1. ASSUME NEW p \in {"cancel", "message", "screen"}, NEW t, Begin(j, p, t)
          PROVE  job'[j].pc = p
      BY <3>0, <3>1 DEF Begin, Idle
    <3>2. CASE \E t \in Tasks : Create(j, t)
      BY <3>0, <3>2 DEF Create, NewTask, Idle
    <3>3. CASE \E t \in Tasks : Cancel(j, t) \/ Message(j, t)
      BY <3>1, <3>3 DEF Cancel, Message
    <3>4. CASE Reject(j)
      BY <3>0, <3>4 DEF Reject, Return, Idle
    <3>5. CASE \E r \in RequestIds, echo \in EchoTaskId : ScreenFailed(j, r, echo)
      BY <3>0, <3>5 DEF ScreenFailed, Idle
    <3>6. CASE \E r \in RequestIds, echo \in EchoTaskId : ScreenArrived(j, r, echo)
      BY <3>1, <3>6 DEF ScreenArrived
    <3>7. CASE \E a \in ActionIds, ok \in BOOLEAN : ResultArrived(j, a, ok)
      BY <3>0, <3>7 DEF ResultArrived, Idle
    <3>. QED
      BY <1>2, <3>2, <3>3, <3>4, <3>5, <3>6, <3>7
  <2>. QED
    BY <1>0, <2>1, <2>2, <2>3, RoundsStay DEF Opens
<1>3. CASE action' = action /\ iteration' = iteration /\ job' = job
  BY <1>3 DEF Rounds, RowsOf
<1>4. CASE Restart
  BY <1>4 DEF Restart, rows, Rounds, RowsOf, Opens, Idle
<1>. QED
  BY <1>1, <1>2, <1>3, <1>4
  DEF Next, AnswerScreen, AnswerAction, ScreenOrphan, Disconnect, Reconnect,
      Expire, vars, rows

\* A batch of one row has no question among other actions.
LEMMA RoundsApart ==
    ASSUME Rounds, NEW t \in Tasks
    PROVE  QuestionsApart(t)
<1>. SUFFICES ASSUME NEW a \in ActionIds, action[a].status = "PENDING",
                     action[a].task = t
              PROVE  Batch(a) = {a}
  BY DEF QuestionsApart, Undispatched
<1>1. a \in RowsOf(t) /\ Batch(a) \subseteq RowsOf(t) /\ a \in Batch(a)
  BY DEF RowsOf, Batch
<1>2. \A b \in Batch(a) : b = a
  BY <1>1 DEF Rounds, Batch
<1>. QED
  BY <1>1, <1>2

\* A task is never left without a handler or a request at the device where
\* answers come one at a time and nothing is lost, whatever the plans store: the
\* questions of a task then have rounds of their own.
THEOREM NoTaskIsStranded ==
    ASSUME Orderly, Lossless PROVE Spec => []NeverStranded
<1>1. Init => Pace /\ Rounds
  <2>1. Init => Rounds
    BY DEF Init, Rounds, RowsOf, Opens, NoRow, Idle
  <2>. QED
    BY <2>1, InitPace
<1>2. Pace /\ Rounds /\ [Next]_vars => (Pace /\ Rounds)'
  BY NextPace, NextRounds
<1>3. IInv /\ Tidy /\ Awake /\ Rounds => NeverStranded
  BY CarriedMoves, RoundsApart DEF Awake, NeverStranded
<1>. QED
  BY <1>1, <1>2, <1>3, AwakeIsKept, PTL DEF Spec

=============================================================================
