# A TLA+ verification of computer-agent-backend

The backend stands between a dashboard (web client), an AI planning service and
desktop agents. A user gives an instruction; the backend asks the agent for a
screenshot, sends it to the AI service, has the agent execute the planned
actions and goes around again until the task is over. This directory holds TLA+
modules of the parts of it that carry state across awaits, TLC runs that check
them on small instances, and proofs of their main invariants for all instances.

1. [The system](#1-the-system)
2. [The modules](#2-the-modules)
3. [How code becomes actions](#3-how-code-becomes-actions)
4. [Runs](#4-runs)
5. [What the code does not keep](#5-what-the-code-does-not-keep)
6. [Proofs](#6-proofs)
7. [What is not modelled](#7-what-is-not-modelled)
8. [Plan](#8-plan)

Check a run with `tlc -config EngineRaces.cfg MCTaskEngine.tla` (the prefix of a
configuration names its module: `Engine`, `Cancel`, `Cap`, `Cycles` and
`Question` go with `MCTaskEngine`, `Link` with `MCDeviceLink`, `Relay` with
`MCRequestRelay`, `Store` with `MCPendingStore`, `Agent` with `MCHeartbeat`) and
the proofs with `tlapm TaskEngineProofs.tla`.

## 1. The system

Source paths are relative to `src/` of the repository checkout, so that
`tasks/tasks.service.ts` is `src/tasks/tasks.service.ts` of the repository.

| Component | State it keeps | Operations | Talks to |
|---|---|---|---|
| Task engine: `tasks/tasks.service.ts`, `actions/actions.service.ts` | `task` and `task_action` rows; in memory `activePlanCycles` (the planning guard), `executionModes`, pending keys `screen-pending`, `complete-after-actions`, `user-reply` | `create`, `startTask`, `requestScreenAndPlan`, `handleScreenResult`, `runAiIteration`, `handleActionResult`, `cancel`, `handleUserMessage` | registry (send to the device), AI service, PendingStore, Redis (`discard`) |
| Lifecycle decisions: `tasks/task-lifecycle.ts`, `tasks/execution-mode.ts` | none | `decideAfterActionBatch`, `shouldReplanOnNonExecutablePlan`, `looksLikeFakeUserApproval`, `inferExecutionMode` | called by the task engine |
| Device link: agent part of `websocket/websocket.gateway.ts`, `websocket/connection.registry.ts`, `devices/devices.service.ts`, `sessions/sessions.service.ts` | `device` rows (status, revocation, token hash), `device_session` rows; in memory the four maps of the registry with each client's `lastPongAt`, `socket.data`, the timers of a connection and of the sweep | `handleConnection`, `onRegisterDevice`, `onPing`, `onPong`, `enforceTimeouts`, `handleDisconnect`, `revoke`, `regenerateToken`, `authenticateByToken`, `markOnline`, `markOffline` | dashboards (`DEVICE_STATUS`), PendingStore (nonces), database |
| Request relay: dashboard part of `websocket/websocket.gateway.ts`, per-user commands of `tasks/tasks.service.ts` | in memory `inFlightRequests`, pending keys `capture-user`, `notify-user`, ... | ten dashboard commands, seven result handlers | registry, task engine (`USER_MESSAGE`) |
| PendingStore: `common/pending/pending.store.ts` | keys with an expiry time | `set`, `get`, `del`, `checkRateLimit`, `claimNonce` | used by the task engine, the request relay and the heartbeat |
| AI service client: `ai/ai.service.ts` | none | `planNextActions` with timeout and schema | HTTP |
| Screenshots, Redis | cached images | `storeEphemeral`, `discard` | Redis |
| Auth, users, chat, health, HTTP controllers, validation, guards, config | user rows | register, login, reads | database |

What is hard in it:

* **Every `await` is a switch point.** Node runs one handler at a time, but a
  handler that awaits a query, the AI service or a timer lets any other run. The
  engine reads a task, awaits, and writes on what it read.
* **In-memory state is shared by handlers of one task**: the guard is a set, not a
  lock; whoever deletes the entry deletes it for everybody.
* **Messages repeat.** `sendToDevice` emits a command as an event and as an
  envelope, to the socket and to the room (`connection.registry.ts:109-133`); a
  dashboard command is received by two listeners.
* **Agents, dashboards and the process go away** and come back; pending keys
  expire; any query may be rejected.
* **Times meet at boundaries**: lifetimes in seconds, windows in milliseconds, a
  sweep that runs every third of a timeout, a timer nobody clears.

What makes each part correct:

* *Task engine* - a guard is held by a live cycle only, cycles of a task do not
  overlap, no wake-up is lost, the iteration cap holds, an action that was
  answered never becomes unanswered again, a decision is made on a finished
  batch, a task that is over stays over, and every task gets there (or waits for
  its user).
* *Device link* - the maps of the registry agree; a device without an agent is
  not left `ONLINE`, neither in its row nor on the dashboard; sessions belong to
  live sockets; a revoked device stays out; a silent agent is dropped in bounded
  time and one that speaks is not, and a replayed PING counts for nothing.
* *Request relay* - a command is forwarded once, answered at most once to the
  user who asked, and never blocks its retry.
* *PendingStore* - no window, wherever it begins, lets more messages through than
  its limit; a bucket never goes before the stamps in it; a nonce is taken once
  in its lifetime; a request awaits its answer for its own time.

`PROJECT.json` lists the hazards at their lines with the properties that cover
them.

## 2. The modules

| Module | What it is |
|---|---|
| `TaskLifecycle` | statuses, plans, the verdict on a plan and on a finished batch: pure operators |
| `TaskEngine` | the task engine, one action per segment of a handler |
| `TaskProtocol` | the abstract specification: what the outside sees of a task |
| `TaskRefinement` | the refinement mapping of `TaskEngine` to `TaskProtocol` |
| `TaskEngineProofs`, `TaskQuiesceProofs` | invariants and action properties of `TaskEngine`, proved for every environment |
| `TaskOrderProofs` | what `TaskEngine` keeps where answers come one at a time, and its refinement; last, `SingleShot`, which needs no such order: proved |
| `TaskWakeProofs` | that no wake-up is lost when nothing else is, but by a stored question: proved |
| `DeviceLink` | registration, disconnection, the registry, connection status, the dashboard |
| `LinkProtocol`, `LinkRefinement` | the abstract specification of the device link and the refinement mapping |
| `DeviceLinkProofs` | the registry and revocation, then status, sessions and dashboard, then the refinement: proved |
| `PendingStore`, `PendingStoreProofs` | the store on a clock, and its proofs |
| `Heartbeat`, `HeartbeatProofs` | PING, the sweep and the registration timer on that clock, and their proofs |
| `RequestRelay` | the request relay |
| `RelayProtocol`, `RelayRefinement` | its abstract specification and the refinement mapping |
| `RequestRelayProofs` | its invariants and its refinement, proved |
| `MCTaskEngine`, `MCDeviceLink`, `MCRequestRelay`, `MCPendingStore`, `MCHeartbeat` | values of the constants for TLC |

`TaskLifecycle` is extended by `TaskEngine` and `TaskProtocol`. `Heartbeat` is
composed with `PendingStore`: its PING with a nonce *is* the store's `ClaimNonce`
on the same map and the same clock (`Store == INSTANCE PendingStore`), and what it
says of replays follows from the store's theorem. The other components are
checked separately and meet in abstractions that each contains of the other:

* `online` of `TaskEngine` and of `RequestRelay` stands for "the device has a live
  registered socket" of `DeviceLink` (and a row that says so);
* the `chat` command of `RequestRelay` ends where `Message` and `Create` of
  `TaskEngine` begin;
* `Disconnect` of `DeviceLink` may happen at any time, `Heartbeat` says when the
  server is the one who does it;
* pending keys of `TaskEngine` and `RequestRelay` may expire at any time,
  `AwaitedInTime` of `PendingStore` says when they do.

Operators named `...Anyway`, `...Again`, `...Holding` and the like, marked
*Mutant* in a comment, are plausible mistakes in the definition that follows
them. No specification uses them: `PROJECT.json` names for each checked property
one that breaks it, which shows that the property depends on the code as it is.

## 3. How code becomes actions

**Handlers are jobs.** `job[j]` is a suspended handler: `pc` names the await it
is suspended at, the other fields are its local variables, among them what a
query returned (`seen`, `iter`), which may be stale when the job resumes. An
action resumes one job, runs the code to the next await and performs the
operation awaited there. `Jobs` bounds how many handlers are in flight; nothing
else limits their interleaving.

**A query takes effect in the step that issues it.** Its position in the order of
all queries is what matters to the others; that the handler hears of it later is
the await. `Reject` lets any await end in an exception after the query took
effect; that the query had no effect is the rejection of the await before it, as
the segments in between change no shared state that survives the exception except
a pending key or a cached mode that nobody reads again.

**Awaits that nobody can tell apart are one step.** `devices.touch`, the chat
message rows, `toPreviousActions`, the rows of one `createActions`, the device
name update and the gateway's own read of the task write nothing the models
contain, and the segments on both sides of them touch no shared state.

| Code | Actions of `TaskEngine` |
|---|---|
| `create`, `startTask` | `Create`, `Start`, `StartTask` |
| `requestScreenAndPlan` | `Request`, `RequestTerminal`, `RequestSkipped`, `RequestExhausted`, `RequestScreen`, `RequestSent`, `RequestUnsent` |
| `handleScreenResult` | `ScreenOrphan`, `ScreenFailed`, `ScreenArrived`, `ScreenTerminal`, `ScreenDelivered` |
| `runAiIteration` to the AI's answer | `IterateTerminal`, `IterateSkipped`, `Iterate`, `AskAi`, `AiFails`, `AiFailed`, `AiAnswers` |
| `runAiIteration` on a plan | `PlanAwaitsUser`, `PlanCompletes`, `PlanFails`, `PlanAsksUser`/`UserAsked`, `PlanReplans`, `PlanWaits`/`Waited`, `PlanExecutes`/`ActionsCreated`/`Dispatch`/`Send`/`SendFails` |
| its `finally` block | part of every action that ends a cycle (`Return`), `LeaveCycle` |
| `handleActionResult`, `recordResult` | `ResultArrived`, `Record`, `ResultRecorded`, `ResultTerminal`, `CountUnanswered`, `BatchUnfinished`, `BatchFinished`, `DecideMarked`, `DecideEnds`, `DecideReplans` |
| `failTask`, `completeTask`, `cancel` | their write in the calling action, `Close`; `Cancel`, `CancelTask` |
| `handleUserMessage` | `Message`, `MessageResumes`, `MessageIgnored` |
| agent, expiry, rejection, restart | `Answered`, `Disconnect`, `Reconnect`, `Expire`, `Reject`, `Restart` |

A task's `status` and `iteration` and the `action` rows are the database,
`active`, `mode`, `screenPending`, `completeAfter` and `userReply` the memory
that a restart loses, `captures` and `executing` what the agent was asked and has
not answered. A plan is a record of what `runAiIteration` tells apart (wire
status, the control actions in it, the number of executable actions, whether it
looks like a faked approval, its mode). `STORE_SCREENSHOTS` has its default,
false. A screen result has an image or an error (`screenResultSchema`), so the
first lines of `runAiIteration` are never taken. The agent sends `taskId` back or
not, as `EchoTaskId` allows.

| Code | Actions of `DeviceLink` |
|---|---|
| `handleConnection` | `Connect`; its timer is one of the reasons of `Disconnect` |
| `onRegisterDevice` | `RegisterDevice` (reads the device), `AuthFailed`, `MarkOnline`, `CloseSessions`, `CreateSession`, `Register`, `ShowOnline` |
| `handleDisconnect` | `Disconnect` (with `unregister` and `endBySocketId`), `StillOnline`, `NotOnline`, `MarkOffline`, `ShowOffline` |
| `enforceTimeouts` | one of the reasons of `Disconnect` |
| `sendToUser` of `DEVICE_STATUS` | `Show`, part of `ShowOnline` and `ShowOffline` |
| `revoke`, `regenerateToken` | `Revoke`, `RegenerateToken` |

A socket is used by the agent of one device, once. A token is abstracted to
whether anybody holds the one whose hash the row has: `revoke` replaces the hash
by that of a secret nobody keeps. Two history variables name the devices the code
makes no promise about: `harmed`, those with a handler that was cut short (a
rejected query, a restart) or whose socket went down while it was registering,
and `misled`, those whose socket went down before the dashboard was told of it.

| Code | Definitions of `PendingStore` |
|---|---|
| `set`, `get`, `del` | `Set`, `Found`, `Del`; deleting what has expired is not told apart from not finding it |
| `checkRateLimit` | `CheckRateLimit`, with `Recent`, `Allowed` and `BucketTtl` |
| `claimNonce` | `ClaimNonce` |
| the pending keys of the handlers | `Ask`, `Take` |

| Code | Actions of `Heartbeat` |
|---|---|
| `handleConnection` and its timer | `Connect`, `AuthTimeout` |
| `onRegisterDevice` | `BeginRegister`, `EndRegister`, `FailRegister` |
| `onPing`, `onPong`, `touchPong` | `PingPlain`, `PingNonce`, with `Accept` and `TouchPong` |
| `getStaleSockets`, `enforceTimeouts` | `Stale`, `EnforceTimeouts`; `Interval` is the one of `afterInit` |
| `handleDisconnect` | `Close`, part of `Leave`, `AuthTimeout` and `EnforceTimeouts` |

Both modules run on one clock, which counts in units of its own: `Second` says how
many of them `Math.ceil(windowMs / 1000)` rounds up to. It is taken not to be set
back, and a timer that is due fires before it moves on.

| Code | Actions of `RequestRelay` |
|---|---|
| `bindWebClientHandlers`, `@SubscribeMessage`, `rateLimit` | `Emit`: the command reaches the listeners the limiter lets through |
| `beginRequest` | `Deduped`, `Begin` |
| `captureScreenForUser`, `captureCameraForUser`, `notifyDevice`, `requestDeviceList`, `requestAppAction`, `requestLockAction` | `Forward`, `Fail` |
| `handleUserMessage` | `ChatDone`, `Fail` |
| `onNotifyResult` ... `onLockResult` | `Result` |
| `onScreenResult`, `onCameraResult` | `ImageResult`, `Touched`, `TouchFailed` |

Both listeners reach the gate before any handler that waits for I/O continues
(`Settled`), because `rateLimit` is async but awaits nothing; which of them is
first is left open, and the clock may advance in between. Between
`isDeviceOnline` and `sendToDevice` there is no await, so the branches for
`!sent` of the per-user commands are never taken and there is no action for
them. Request ids are the dashboards': one id stands for one command, sent again
for a retry. Only a chat message may come without one (every other schema
requires it, apart from `useAi: false`, which is given one here).

## 4. Runs

All passing runs finish without error; each property also has a mutant of the
code that the same run refutes (see `PROJECT.json`). `CHECK_DEADLOCK FALSE`
everywhere: once the budgets are spent and every task is over, nothing has to
happen any more.

| Run | Instance | Distinct states | Checks |
|---|---|---|---|
| `EngineRaces` | 1 task, 2 handlers, 3 actions, 2 requests, cap 2, batches of two and stored questions; a cancellation and a duplicate | 1 029 098 | `TypeOK`, `WellFormed`, `GuardOwned`, `SentBeforeExecuted`, `SingleShot`, `OnlyQuestionsStrand`, `RecordedStays`, `QuiescedStays` |
| `EngineFaults` | 1 task, 3 actions, one at a time, cap 3; a message, a disconnection, an expiry, a rejection and a restart | 311 660 | `NoOverlap`, `IterationCap`, `MarkIsCurrent`, `DecisionsAreFresh`, `ImplementsProtocol` |
| `EngineLive` | 1 task, 3 actions, batches of two, no stored question; a message | 274 824 | `NeverStranded`, `Resolves`, `GuardReleased` |
| `LinkFaults` | 1 device, 2 sockets, 2 handlers; every fault once, sockets going down at any time | 509 846 | `TypeOK`, `RegistryAgrees`, `GoneIsOffline`, `SessionsLive`, `GoneIsShown`, `RevokedIsFinal`, `GoneGoesOffline`, `ImplementsLink` |
| `RelayFaults` | 4 commands of 2 users, 2 emits, 3 handlers, 2 readings of the clock; every fault once | 80 556 | `TypeOK`, `GateHeld`, `ForwardedOnce`, `AnsweredOnce`, `GateOpens`, `ImplementsRelay` |
| `StoreClock` | 2 clients, a nonce and a request; 5 operations in 7 units of time, a limit of 2 in a window of 3, seconds of 2 units | 735 860 | `TypeOK`, `WindowComplete`, `RateHeld`, `RefusedOnlyFull`, `NonceOnce`, `AwaitedInTime` |
| `AgentClock` | 2 sockets, a nonce used twice, a timeout of 3 units and a sweep every 2, 7 units of time | 973 518 | `TypeOK`, `SilenceBounded`, `ReplayKeepsNobody`, `DroppedWasSilent` |

**Bounds.** `Jobs`, `ActionIds`, `RequestIds`, `Sockets`, `MaxTime`, `MaxOps` and
the `Budget` of troubles are bounds; `MaxIterations`, `Tasks`, `Devices`,
`Commands`, `Users`, `Clients`, `Nonces` and the limits and times of the store and
the heartbeat are parameters of the code, kept small. Two handlers are enough for
every race of two, and all of the faults in section 5 need no more; three action
rows are a batch of two, which can be half answered, and a question stored beside
it; two requests and a cap of two let a task go around twice and meet its cap. An
action needs as many unused rows as its plan has actions, so behaviours end where
rows run out, which is why the liveness run has no plan that stores rows without
end: in it every plan is either followed by the cap or by a decision. A fault in
the budget may happen at any moment, once. In `StoreClock` the window is no whole
number of seconds and the clock runs past two windows and the bucket's lifetime; in `AgentClock` the sweep's
period does not divide the timeout and the clock runs past two sweeps that find
something. No run of the engine has two tasks or two chat messages, which the
proofs have: they need none of these bounds.

**Which environment goes with which property.** `EngineFaults` leaves out
cancellations, duplicated answers and batches of two, and says where the engine
keeps its protocol: as long as answers come one at a time. With a duplicate, or
with two results finishing a batch together, it does not (section 5), and the
invariants of `EngineRaces` are what remains. `NeverStranded` and `Resolves` are
claimed without disconnections, rejections and restarts: the code has no timer
that takes up a task whose agent went silent, and claims none. They also need
plans that store no question (`EngineLive`), or answers that come one at a time;
`OnlyQuestionsStrand` says that a question which shares the iteration number of
other actions is the only other way to lose a task, and `QuestionStrands` shows it
(section 5). `SingleShot` allows a single action one round, one more for each chat
message and one more for each duplicated answer; it holds in every environment
where no plan asks for `multi_step`.
`GoneIsOffline`, `SessionsLive` and `GoneIsShown` are claimed of devices that were
not harmed or misled (section 3): nothing in the code corrects the rows or the
dashboard after that. A revoked device is exempt from `GoneIsOffline` and
`GoneIsShown`, as `markOnline` may still come after `revoke`.

**Symmetry.** Handlers, action rows, request ids, clients and sockets are
interchangeable; runs without liveness properties declare it, the others do not.

**Fairness.** `WF_vars(Resume(j))` for every handler: Node runs what can run, a
query answers or rejects, and the AI call ends within `AI_SERVICE_TIMEOUT_MS`.
`FairSpec` of `DeviceLink` and of `RequestRelay` assumes the same of their
handlers. `EngineLive` also assumes that the agent answers (`AnswerScreen`,
`AnswerAction`), which is the agent's promise and not this code's: without it
`Resolves` would be false. With it a task could still be lost by the backend;
where no question is stored it is not. No fairness is assumed of users, clocks or
faults.

**The refinements.** `TaskProtocol` has three variables: the status and iteration
of a task and what it is owed (`nothing`, a `screen`, a `delivered` screenshot,
the `outcome` of an action). It allows a task one request at a time, one planning
round per delivered screenshot, no more rounds than the cap, and no step once it
is over. `TaskRefinement` reads `owed` off the requests at the device and the
handlers that carry a screenshot; `EngineFaults` checks `Protocol!Spec`, initial
state and every step.

`RelayProtocol` is what a dashboard sees of its commands: sent, taken, open,
answered. A command is taken at most as often as it was sent, an open one is
answered at most once, and answers may get lost. `RelayRefinement` reads `open`
off the pending keys; the gate and the two listeners are not seen. `RelayFaults`
checks it with every fault.

`LinkProtocol` is what the outside sees of a device's connection: its row (status,
revocation, whether somebody holds its token), what the dashboard was told, and
who is there. An agent is `coming` once it was let in, then one of the `agents`;
when it leaves the device is `leaving`, and, if nobody is there at some moment
after that, `absent`; only what is coming makes it `ONLINE` and only what was
absent `OFFLINE`, and each of these is `news` for the dashboard. What is still to
be done may be dropped. `LinkRefinement` reads all of it off the registry and the
awaits at which the handlers stand; `LinkFaults` checks it with every fault, the
race of section 5 included, which the protocol allows as the code does.

`Heartbeat` implements `PendingStore` with its nonces, by construction of its
actions; the proofs use it.

## 5. What the code does not keep

Each of these runs states what a comment or document of the repository says and
ends in a counterexample of the code's own steps. `PROJECT.json` quotes the
lines.

| Run | Says | What happens |
|---|---|---|
| `CancelRevived` | `TerminalFinal` | `cancel` during the AI call is overwritten by the status write after it, and the task goes on |
| `CapExceeded` | `IterationCap` | the last two results of a batch are both recorded before either is counted; both replan, both pass the cap, both screenshots are planned. No fault is needed |
| `QuestionStrands` | `NeverStranded` | two results that finish a batch both replan and the two cycles read the same iteration number; one stores its `ASK_USER` row, which nobody sends, under the number of the other's actions. The count of unanswered rows never reaches zero, and the task waits for an answer that has long come. No fault is needed |
| `CyclesOverlap` | `NoOverlap` | a cycle that replans gives the guard back (line 630); a duplicated screenshot takes it; the first cycle's `finally` (line 673) takes it away again; the next screenshot starts a second cycle |
| `LinkRace` | `OfflineWhenGone` | the old socket's handler asks for live sockets, the new socket registers, the handler writes `OFFLINE` |

Some more are visible in the models and have no run of their own. The two
listeners key a chat message without id by the clock, so that two readings of it
take the message twice (`Known` of `RelayRefinement` leaves such messages out).
`recordResult`
reads the row and writes it in two queries (`Record`, `ResultRecorded`), so that
two copies of an `ACTION_RESULT` may both count as the first. `createDeviceSession`
closes the old sessions and creates the new one in two queries (`CloseSessions`,
`CreateSession`), so that two registrations may leave two active sessions. The
native listener acknowledges a command as `forwarded` also when it was
deduplicated (`Deduped`), and the other listener may then fail to forward it; the
acknowledgements are not part of the model.

## 6. Proofs

`tlapm` checks every leaf; there is no assumption besides those on the constants
(`TaskEngineAssumption`, `DeviceLinkAssumption`, `RequestRelayAssumption`,
`PendingStoreAssumption`, `NoneAssumption`, `HeartbeatAssumption`), which TLC
evaluates in the runs, and those that the theorems of `TaskOrderProofs` and
`TaskWakeProofs` state themselves. The theorems hold for any number of tasks,
handlers, rows, sockets, commands and clients, any plans, limits and times, and,
but for most of those two modules, any budgets, that is, with every fault the
models know.

**`TaskEngineProofs`.** The inductive invariant `IInv` joins `TypeOK`,
`WellFormed`, `GuardOwned` and `SentBeforeExecuted`. None is inductive alone:
that an executed action was marked needs that a handler at `send` has a marked
action in hand (`WellFormed`); that two dispatch loops share no row needs that a
row to be sent is `PENDING` and a new row was not there before; that a guard is
owned needs that a handler with `cycle` is at one of the awaits inside the `try`
block and that no other handler's step changes it. There is one lemma per kind of
step (a handler that returns, one that only moves, ...) and one per action, and
`Invariance` puts them together. `TypeCorrect`, `HandlersWellFormed`,
`GuardsAreOwned` and `SendsAreMarked` are its parts.

**`TaskQuiesceProofs`.** From `IInv`, two action properties. `OutcomesAreKept`
(`RecordedStays`): the rows a step writes are new, `PENDING` in its own dispatch
list, or get an outcome. `OverStaysOver` (`QuiescedStays`): a handler is *armed*
when it may still move its task on without reading the status again; the proof
shows for each action that a task that is over, with no armed handler, gets
neither a new armed handler (every way to become armed passes a read of the
status) nor a step of one.

**`TaskOrderProofs`.** The properties of `EngineFaults`, from assumptions about
the environment alone. `Orderly`: no duplicated answer, batches of at most one
action, at most one chat message; handlers may still be cancelled, rejected,
restarted and cut off. `TasksInOrder` is the core: a task is carried on by one
thing at a time - a handler (`Drives`), a request for a screenshot or an action at
the device - which only hands it on (`OneCarrier`), and a task that is new or
waits for its user by none (`Rests`). Not the planning guard keeps two cycles
apart, but this: `CyclesKeepApart` follows without a word about `active`. As
nobody else works on the task, what a handler read of it is still so when it uses
it (`Pace`): its iteration is the row's (`Numbers`: `CapIsKept`), the mark of a
finished plan is on a task nobody is planning (`Marks`: `MarkStaysCurrent`), and
the rows a batch is decided from are as they were read (`DecidesOnFreshRows`).
`EngineImplements` also assumes that nothing is cancelled: `Phases` says which
status the task of a handler at each await has, and every step is a step of
`TaskProtocol` or changes nothing it sees. `OverIsFinal` (`TerminalFinal`) is then
a property of the protocol, whose steps all begin with a task that is not over.
None of the assumptions can be dropped: `CancelRevived`, `CapExceeded` and
`CyclesOverlap` are the counterexamples.

`SingleShotIsKept` stands apart: it assumes that no plan asks for `multi_step`
(`NoOverride`) and nothing else, so cycles overlap, answers come twice and results
finish a batch together. A bound on the rounds of one cycle says nothing then; the
invariant counts. What may still lead a single action to a round, the handlers on
their way to one (`Leaders`) and the screenshots the device was asked for (`Shown`),
together with the rounds it had, never exceeds what it is allowed: one, and one
for every message and duplicate that was spent (`Shots`). Every step either hands
one lead on, drops it, turns it into a round, or pays for a new one from the
budget. Results that finish a batch lead to no round, as every handler of such a
task plans and decides in its own mode (`PlansOnce`), which never replans.

**`TaskWakeProofs`.** Nothing watches a task, so whatever ends must have handed it
on: this is the safety property that liveness rests on. `OnlyQuestionsDo` assumes
`Lossless`: the agent repeats the `taskId` and stays, no await is rejected, the
server is not restarted. Answers may be duplicated, batches may have any size,
tasks are cancelled, messages come and requests expire, so cycles may overlap. The
invariant `Awake` says that a task that moves, and whose questions are
`QuestionsApart`, has a carrier (`Carries`): a handler that goes on with it, a
request at the device or an action that is executed there. A handler ends without
handing on only at an early return, and each of these loses nothing: the task it
saw over is over; the planning guard is held by a handler that plans (`Guarded`);
a counted batch has a row that is not answered, which then is at the device, in a
dispatch loop, or in the hands of a handler that sends or records it (`SentRows`),
unless it is a question. The id of a request is its handler's alone (`OwnRequest`),
so no request overwrites another's, and nobody disturbs a task that is about to
start (`Unstarted`). Of the planning guard it matters only that its owner goes on,
not that it keeps others out.

`NoTaskWaitsForNothing` adds that no plan stores a question or a `WAIT`
(`Unquestioning`), which keeps every `PENDING` row in a dispatch loop; this is the
environment of `EngineLive`. `NoTaskIsStranded` adds `Orderly` instead: one carrier
at a time gives each round rows of its own (`Rounds`), so a question is always
apart. `QuestionStrands` is the counterexample without either.

**`DeviceLinkProofs`.** The invariant is `TypeOK` with `RegistryAgrees`; from it
`RegistryConsistent` and, as an action property, `RevokedStaysOut`. Above it,
`StatusCorrect` follows a device whose handlers are
spared. Its row is `ONLINE` only while its agent is there or a handler is at work
that has not yet registered the socket, or not yet written the row of one that
went (`OnlineHasReason`); the dashboard shows it `ONLINE` only while its agent is
there or a disconnection has not been shown yet (`ShownHasReason`); a session's
socket is registered or about to be (`SessionsHeld`). A registration keeps its
socket to the end (`SocketHeld`), which is what "not harmed" means. When the
device is `Quiet` no handler is left to be the reason: `GoneStaysOffline`,
`SessionsHaveSockets`, `DashboardIsTold`. `LinkImplements` takes each action of the
gateway to one of `LinkProtocol`, harmed or not, by what the step does to the sets
`LinkRefinement` collects from the handlers: a handler adds its own contribution
and removes it, and what another one contributed as well stays (`Done`).

**`PendingStoreProofs`.** The invariant relates the entries to the histories of
calls, claims and requests; the lemma it rests on is that
`(WindowMs + Second - 1) \div Second + 1` seconds are longer than the window, so a
bucket outlives its stamps (`WindowIsComplete`). `RateIsHeld` is part of the
invariant: a call that is let through has counted all the others of any window it
is the last of.

**`HeartbeatProofs`.** `BeatCorrect` bounds the clock by the next sweep and the
next sweep by `Interval`, and the last sign of life by what the sweep compares;
`SilenceIsBounded` and `OnlySilentDropped` follow. `BeatUsesStore` shows that every
step of `Heartbeat` is one of the `PendingStore` it instantiates, so
`NonceIsOnce` is cited, not proved again, for `ReplayIsRefused`.

**`RequestRelayProofs`.** `RelayInv` strengthens `TypeOK`, `GateHeld`,
`ForwardedOnce` and `AnsweredOnce` by three facts: a handler inside the `try`
block of a command with an id holds that command's key (`KeyOfCommand`), so that
two handlers of one command cannot both be inside; a handler that is looking up
the device, or stands before an open gate, has an emission left that was not
forwarded (`EmissionLeft`); a pending key has an answer left (`AnswerLeft`). The
hard step is `Begin`: it closes the gate, so that the second listener of the same
emission, still on its way, no longer stands before an open one; the hard step
back is `Forward`, which opens it and counts, and which waits until no listener
is on its way (`Settled`). From the invariant come `GatesAreHeld`,
`CommandsForwardedOnce` and `CommandsAnsweredOnce`.

`RelayImplements` takes the protocol's steps from the same invariant: `Forward` is
`Take` because an emission is left, an answer is `Answer` because one is left.

Every invariant was checked with TLC before it was proved.

**Model-checked only.** Liveness (`Resolves`, `GuardReleased`, `GoneGoesOffline`,
`GateOpens`): fairness and `ENABLED` are beyond the prover. Every other property of
a passing run is stated by a theorem.

## 7. What is not modelled

* Regular expressions: `inferExecutionMode` and `looksLikeFakeUserApproval` are
  free choices (the mode of a task in `Init`, the flag `fake` of a plan).
* That a refused message was refused by `checkRateLimit`: in `RequestRelay` a
  listener may be refused at any time. Entries of the store that nobody asks for
  again are never evicted; no bound on them is claimed.
* `lastSeenAt`, and with it which of several online devices a command goes to;
  device names; `create`; `AGENT_EVENT` rows; the backfill of the plain token.
  Acknowledgements to dashboards, and the `TASK_UPDATE` fan-out.
* A system clock that is set back, and an event loop that is blocked for longer
  than a unit of the models' clock.
* Two registrations of one email at once (`auth/auth.service.ts:19`): the unique
  index decides, and the second ends in an error.
* A device that is chosen for a command: `RequestRelay` has one device per
  command, and the lookup may fail at any time.
* A screenshot that answers a dashboard's capture and carries a task id at once
  (the second half of `handleScreenResult` after line 192) is a `ScreenArrived`
  of `TaskEngine`; the two modules are not composed.
* The Redis cache, authentication, HTTP controllers, schemas, guards, filters and
  configuration: no state across awaits, or state of a library.

## 8. Plan

Written in this order, most important behaviour first: `TaskLifecycle`,
`TaskEngine`, its runs, `TaskProtocol` with the refinement, the proofs;
`DeviceLink`; `RequestRelay`; `PendingStore` and `Heartbeat` on a clock;
`RelayProtocol`; the dashboard's view in `DeviceLink`; the proofs of
`DeviceLinkProofs`, `TaskOrderProofs` and `TaskWakeProofs`; `LinkProtocol` with its
refinement. What would come next:

1. `DeviceLink` composed with the parts of `TaskEngine` and `RequestRelay` that
   send, so that `online` is the registry's and a command can meet a socket that
   is being replaced; several devices of one user and the choice among them.
2. The capture of a dashboard that carries a task id, which would compose
   `RequestRelay` with `TaskEngine`.

`NoOverlap`, `IterationCap`, `DecisionsAreFresh` and `MarkIsCurrent` do not hold
where cycles overlap, and are not to be proved there; what `IterationCap` becomes
then is open, since an overlapping cycle writes back the number it read and so may
set a task's iteration back.
