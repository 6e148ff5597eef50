----------------------------- MODULE RequestRelay -----------------------------
(***************************************************************************)
(* The commands a dashboard sends over its socket: the web-client handlers *)
(* of AppWebsocketGateway with the beginRequest gate, the TasksService     *)
(* methods that pass a command on to the device, and the handlers that     *)
(* relay the device's answer to the user who asked.                        *)
(*                                                                         *)
(* A dashboard command reaches two listeners, Nest's and the native one of *)
(* bindWebClientHandlers.  Both run to the gate before anything that waits *)
(* for the database or the network continues (rateLimit awaits no I/O);    *)
(* only the clock may advance between them.  As elsewhere a handler is a   *)
(* job suspended at an await.                                              *)
(*                                                                         *)
(* The dashboards choose the request ids: one id is one command, and a     *)
(* retry repeats the command.  So a pending key `<kind>-user:<id>` stands  *)
(* for its command, and the user stored under it for the command's user.   *)
(***************************************************************************)
EXTENDS FiniteSets, Naturals

CONSTANTS
    Commands,    \* the commands dashboards may send
    Users,
    Jobs,        \* BOUND: handlers in flight at the same time
    None,        \* no command, no user, no job
    MaxTime,     \* BOUND: readings of Date.now()
    Budget       \* BOUND: how often each of Trouble may happen

\* "chat" is USER_MESSAGE for the planner, "say" one with useAi: false.
Kinds == {"capture", "camera", "notify", "list_processes", "list_apps",
          "app_action", "lock_action", "say", "chat"}

\* "emit" is a dashboard sending one of Commands, for the first time or again.
Trouble == {"emit", "duplicate", "expire", "link", "watch", "restart"}

\* Only a chat message may come without a request id here.
ASSUME RequestRelayAssumption ==
    /\ Commands \subseteq [kind : Kinds, user : Users, id : Nat \cup {None}]
    /\ \A c \in Commands : c.id = None => c.kind = "chat"
    /\ \A c \in Commands, d \in Commands :
          c.id = d.id /\ c.id # None => c = d
    /\ None \notin Nat \cup Commands \cup Users \cup Jobs
    /\ Commands \cap Users = {}
    /\ MaxTime \in Nat
    /\ Budget \in [Trouble -> Nat]

VARIABLES
    inFlight,    \* memory: inFlightRequests
    pending,     \* memory: the commands whose `<kind>-user:<id>` is set
    job,         \* memory: the suspended handlers
    now,         \* Date.now()
    online,      \* the user's device has a live agent socket
    watching,    \* the users with a live dashboard socket
    atDevice,    \* device: the commands it has not answered
    emitted,     \* history: how often a dashboard sent the command
    taken,       \* history: how often it went to the device, or to the planner
    relayed,     \* history: how often an answer went to the dashboard
    budget       \* what is left of Budget

memory  == <<inFlight, pending>>
world   == <<now, online, watching, atDevice>>
history == <<emitted, taken, relayed>>
vars    == <<memory, job, world, history, budget>>

\* The awaits a handler is suspended at; the comment names what it awaits.
PC == {"gate",    \* a web-client handler: rateLimit
       "lookup",  \* getActiveDeviceForUser
       "chat",    \* handleUserMessage
       "touch"}   \* onScreenResult, onCameraResult: devices.touch

\* beginRequest's keys: of a command, or of a user's socket and a time.
Key == [of : Commands \cup Users, at : Nat]

Running == [pc : PC, cmd : Commands, key : Key \cup {None}]

Idle == [pc |-> "idle"]

TypeOK ==
    /\ inFlight \subseteq Key
    /\ pending \subseteq Commands
    /\ job \in [Jobs -> Running \cup {Idle}]
    /\ now \in Nat
    /\ online \in BOOLEAN
    /\ watching \subseteq Users
    /\ atDevice \subseteq Commands
    /\ emitted \in [Commands -> Nat]
    /\ taken \in [Commands -> Nat]
    /\ relayed \in [Commands -> Nat]
    /\ budget \in [Trouble -> Nat]

Init ==
    /\ inFlight = {}
    /\ pending = {}
    /\ job = [j \in Jobs |-> Idle]
    /\ now = 0
    /\ online = TRUE
    /\ watching = Users
    /\ atDevice = {}
    /\ emitted = [c \in Commands |-> 0]
    /\ taken = [c \in Commands |-> 0]
    /\ relayed = [c \in Commands |-> 0]
    /\ budget = Budget

------------------------------------------------------------------------------
At(j, p) == job[j].pc = p

\* Inside the try block of a web-client handler.
Inside(j) == At(j, "lookup") \/ At(j, "chat")

\* No listener is still on its way to the gate.
Settled == \A j \in Jobs : ~At(j, "gate")

\* Mutant: what the handler knew outlives it.
ReturnOnly(j) == job' = [job EXCEPT ![j].pc = "idle"]

Return(j) == job' = [job EXCEPT ![j] = Idle]

Spend(k) ==
    /\ budget[k] > 0
    /\ budget' = [budget EXCEPT ![k] = @ - 1]

Count(n, c) == [n EXCEPT ![c] = @ + 1]

\* Mutant: no finally block.
ReleaseNothing(j) == UNCHANGED inFlight

Release(j) == inFlight' = inFlight \ {job[j].key}

\* A message without a request id is keyed by its socket and the time.
GateKey(c) == IF c.id = None THEN [of |-> c.user, at |-> now]
                             ELSE [of |-> c, at |-> 0]

\* Mutant: the gate lets everything in.
NeverDuplicate(j) == FALSE

\* beginRequest: the key of the command is in flight.
Duplicate(j) == GateKey(job[j].cmd) \in inFlight

------------------------------------------------------------------------------
\* The dashboard's command.

\* Each listener that the rate limiter does not refuse starts on a job of its own.
Emit(c, listeners) ==
    /\ Settled
    /\ c.user \in watching
    /\ Spend("emit")
    /\ Cardinality(listeners) \in 1..2
    /\ \A j \in listeners : At(j, "idle")
    /\ job' = [j \in Jobs |->
                 IF j \in listeners THEN [pc |-> "gate", cmd |-> c, key |-> None]
                                   ELSE job[j]]
    /\ emitted' = Count(emitted, c)
    /\ UNCHANGED <<memory, world, taken, relayed>>

\* A duplicate is answered { ok: true, deduped: true }.
Deduped(j) ==
    /\ At(j, "gate")
    /\ Duplicate(j)
    /\ Return(j)
    /\ UNCHANGED <<memory, world, emitted, taken, relayed, budget>>

\* Others take the key and run the TasksService method up to its first await.
Begin(j) ==
    LET c == job[j].cmd
        k == GateKey(c)
    IN  /\ At(j, "gate")
        /\ ~Duplicate(j)
        /\ inFlight' = inFlight \cup {k}
        /\ \/ /\ c.kind = "chat"
              /\ job' = [job EXCEPT ![j].pc = "chat", ![j].key = k]
              /\ taken' = Count(taken, c)
           \/ /\ c.kind # "chat"
              /\ job' = [job EXCEPT ![j].pc = "lookup", ![j].key = k]
              /\ UNCHANGED taken
        /\ UNCHANGED <<pending, world, emitted, relayed, budget>>

\* The device was found and is online: the pending key is set and the command
\* sent in one go, so that sendToDevice cannot miss here.
Forward(j) ==
    LET c == job[j].cmd
    IN  /\ Settled
        /\ At(j, "lookup")
        /\ online
        /\ pending' = pending \cup {c}
        /\ atDevice' = atDevice \cup {c}
        /\ taken' = Count(taken, c)
        /\ Release(j)
        /\ Return(j)
        /\ UNCHANGED <<now, online, watching, emitted, relayed, budget>>

\* handleUserMessage has created a task or resumed one.
ChatDone(j) ==
    /\ Settled
    /\ At(j, "chat")
    /\ Release(j)
    /\ Return(j)
    /\ UNCHANGED <<pending, world, emitted, taken, relayed, budget>>

\* No online row, no connected device, or a rejected query: the handler answers
\* with an ERROR.
Fail(j) ==
    /\ Settled
    /\ Inside(j)
    /\ Release(j)
    /\ Return(j)
    /\ UNCHANGED <<pending, world, history, budget>>

------------------------------------------------------------------------------
\* The device's answer.

\* Mutant: the pending key is left to expire.
RelayAgain(c) ==
    /\ UNCHANGED pending
    /\ relayed' = IF c \in pending /\ c.user \in watching
                    THEN Count(relayed, c) ELSE relayed

\* The get, sendToUser and del of every result handler.
Relay(c) ==
    /\ pending' = pending \ {c}
    /\ relayed' = IF c \in pending /\ c.user \in watching
                    THEN Count(relayed, c) ELSE relayed

\* The device answers; it may answer again.
Answered(c) ==
    /\ Settled
    /\ online
    /\ c \in atDevice
    /\ \/ atDevice' = atDevice \ {c} /\ UNCHANGED budget
       \/ Spend("duplicate") /\ UNCHANGED atDevice

\* NOTIFY_RESULT, PROCESSES_RESULT, APPS_RESULT, APP_ACTION_RESULT, LOCK_RESULT.
Result(c) ==
    /\ Answered(c)
    /\ c.kind \notin {"capture", "camera"}
    /\ Relay(c)
    /\ UNCHANGED <<inFlight, job, now, online, watching, emitted, taken>>

\* SCREEN_RESULT, CAMERA_RESULT: the handler first awaits devices.touch ...
ImageResult(j, c) ==
    /\ Answered(c)
    /\ c.kind \in {"capture", "camera"}
    /\ At(j, "idle")
    /\ job' = [job EXCEPT ![j] = [pc |-> "touch", cmd |-> c, key |-> None]]
    /\ UNCHANGED <<memory, now, online, watching, history>>

\* ... and then relays the image ...
Touched(j) ==
    /\ Settled
    /\ At(j, "touch")
    /\ Relay(job[j].cmd)
    /\ Return(j)
    /\ UNCHANGED <<inFlight, world, emitted, taken, budget>>

\* ... unless the query is rejected.
TouchFailed(j) ==
    /\ Settled
    /\ At(j, "touch")
    /\ Return(j)
    /\ UNCHANGED <<memory, world, history, budget>>

------------------------------------------------------------------------------
\* What happens around them.

Tick ==
    /\ now < MaxTime
    /\ now' = now + 1
    /\ UNCHANGED <<memory, job, online, watching, atDevice, history, budget>>

\* The agent goes, with any of the commands it has, or comes back.
Link ==
    /\ Settled
    /\ Spend("link")
    /\ online' = ~online
    /\ atDevice' \in SUBSET atDevice
    /\ online' => atDevice' = atDevice
    /\ UNCHANGED <<memory, job, now, watching, history>>

\* A dashboard is closed or opened.
Watch(u) ==
    /\ Settled
    /\ Spend("watch")
    /\ watching' = IF u \in watching THEN watching \ {u} ELSE watching \cup {u}
    /\ UNCHANGED <<memory, job, now, online, atDevice, history>>

\* 120 seconds have passed since the key was set.
Expire(c) ==
    /\ Settled
    /\ c \in pending
    /\ Spend("expire")
    /\ pending' = pending \ {c}
    /\ UNCHANGED <<inFlight, job, world, history>>

Restart ==
    /\ Settled
    /\ Spend("restart")
    /\ inFlight' = {}
    /\ pending' = {}
    /\ job' = [j \in Jobs |-> Idle]
    /\ UNCHANGED <<world, history>>

Resume(j) ==
    \/ Deduped(j) \/ Begin(j) \/ Forward(j) \/ ChatDone(j) \/ Fail(j)
    \/ Touched(j) \/ TouchFailed(j)

Next ==
    \/ \E c \in Commands : \/ Result(c) \/ Expire(c)
                           \/ \E j \in Jobs : ImageResult(j, c)
                           \/ \E listeners \in SUBSET Jobs : Emit(c, listeners)
    \/ \E j \in Jobs : Resume(j)
    \/ \E u \in Users : Watch(u)
    \/ Tick \/ Link \/ Restart

Spec == Init /\ [][Next]_vars

\* Handlers run on.
FairSpec == Spec /\ \A j \in Jobs : WF_vars(Resume(j))

------------------------------------------------------------------------------
\* Properties.

\* A key is in flight exactly while one handler is between beginRequest and the
\* release of its finally block.
GateHeld ==
    /\ inFlight = {job[j].key : j \in {i \in Jobs : Inside(i)}}
    /\ \A i, j \in Jobs :
          Inside(i) /\ Inside(j) /\ job[i].key = job[j].key => i = j

\* bindWebClientHandlers, "beginRequest() dedupes double delivery": a command with
\* a request id goes to the device, or to the planner, at most as often as the
\* dashboard sent it.  (One without is keyed by the time its listener looked at
\* the clock, and two listeners may look at it in different milliseconds.)
ForwardedOnce == \A c \in Commands : c.id # None => taken[c] <= emitted[c]

\* However often the device answers, a dashboard gets at most one answer for each
\* time its command was forwarded.
AnsweredOnce == \A c \in Commands : relayed[c] <= taken[c]

\* Every gate is opened again, whatever becomes of the request.
GateOpens == \A c \in Commands :
    [of |-> c, at |-> 0] \in inFlight ~> [of |-> c, at |-> 0] \notin inFlight

==============================================================================
