------------------------------ MODULE DeviceLink ------------------------------
(***************************************************************************)
(* The link between a device and its agent's sockets: registration and     *)
(* disconnection in AppWebsocketGateway (websocket.gateway.ts), the        *)
(* ConnectionRegistry, the connection status DevicesService writes and the *)
(* session rows of SessionsService.                                        *)
(*                                                                         *)
(* As in TaskEngine a handler is a job suspended at an await, and a query  *)
(* takes effect in the step that issues it.  A socket is used once, by the *)
(* agent of one device.  A device token is abstracted to whether somebody  *)
(* holds it: an agent presents the token the row hashes, or another one.   *)
(***************************************************************************)
EXTENDS Naturals

CONSTANTS
    Devices,   \* provisioned devices
    Sockets,   \* BOUND: agent sockets opened
    Jobs,      \* BOUND: handlers in flight at the same time
    None,      \* no device, no socket
    Agent,     \* Agent[s]: the device whose agent opens socket s
    Budget     \* BOUND: how often each of Trouble may happen

Trouble == {"revoke", "regenerate", "reject", "restart"}

ASSUME DeviceLinkAssumption ==
    /\ None \notin Devices \cup Sockets
    /\ Agent \in [Sockets -> Devices]
    /\ Budget \in [Trouble -> Nat]

VARIABLES
    status,         \* database: device.connectionStatus
    revoked,        \* database: device.revokedAt is set
    tokenHeld,      \* database: the hashed token was given to somebody
    sessions,       \* database: the active device sessions
    client,         \* memory: bySocket and socketRefs, as the client's device
    deviceSockets,  \* memory: deviceSockets
    authenticated,  \* memory: the sockets with socket.data.authenticated
    socket,         \* socket.io: the life of a socket
    job,            \* memory: the suspended handlers
    shown,          \* dashboard: the last DEVICE_STATUS it was sent
    harmed,         \* history: devices whose handlers were cut short, or whose
                    \* sockets went down while registering ...
    misled,         \* history: ... or before the dashboard was told of them
    budget          \* what is left of Budget

rows      == <<status, revoked, tokenHeld, sessions>>
registry  == <<client, deviceSockets, authenticated>>
dashboard == <<shown, harmed, misled>>
vars      == <<rows, registry, socket, job, dashboard, budget>>

ConnectionStatus == {"ONLINE", "OFFLINE", "REVOKED"}

\* The awaits a handler is suspended at; the comment names what it awaits.
PC == {"auth",      \* onRegisterDevice: authenticateByToken
       "online",    \* onRegisterDevice: markOnline
       "sessions",  \* createDeviceSession: updateMany
       "created",   \* createDeviceSession: create
       "event",     \* onRegisterDevice: agentEvent.create
       "ended",     \* handleDisconnect: endBySocketId
       "offline",   \* markOffline: findUnique
       "marked"}    \* markOffline: update

Registering == {"auth", "online", "sessions", "created"}

Idle == [pc |-> "idle"]

\* A handler; ok is what it read: the token is valid, the device not revoked.
Running == [pc : PC, socket : Sockets, device : Devices, ok : BOOLEAN]

Session == [socket : Sockets, device : Devices]

TypeOK ==
    /\ status \in [Devices -> ConnectionStatus]
    /\ revoked \in [Devices -> BOOLEAN]
    /\ tokenHeld \in [Devices -> BOOLEAN]
    /\ sessions \subseteq Session
    /\ client \in [Sockets -> Devices \cup {None}]
    /\ deviceSockets \in [Devices -> SUBSET Sockets]
    /\ authenticated \subseteq Sockets
    /\ socket \in [Sockets -> {"new", "open", "closed"}]
    /\ job \in [Jobs -> Running \cup {Idle}]
    /\ shown \in [Devices -> {"ONLINE", "OFFLINE"}]
    /\ harmed \subseteq Devices
    /\ misled \subseteq Devices
    /\ budget \in [Trouble -> Nat]

\* Every device was provisioned by DevicesService.create.
Init ==
    /\ status = [d \in Devices |-> "OFFLINE"]
    /\ revoked = [d \in Devices |-> FALSE]
    /\ tokenHeld = [d \in Devices |-> TRUE]
    /\ sessions = {}
    /\ client = [s \in Sockets |-> None]
    /\ deviceSockets = [d \in Devices |-> {}]
    /\ authenticated = {}
    /\ socket = [s \in Sockets |-> "new"]
    /\ job = [j \in Jobs |-> Idle]
    /\ shown = [d \in Devices |-> "OFFLINE"]
    /\ harmed = {}
    /\ misled = {}
    /\ budget = Budget

------------------------------------------------------------------------------
At(j, p) == job[j].pc = p

D(j) == job[j].device

Await(j, p) == job' = [job EXCEPT ![j].pc = p]

Return(j) == job' = [job EXCEPT ![j] = Idle]

SetStatus(d, s) == status' = [status EXCEPT ![d] = s]

Spend(k) ==
    /\ budget[k] > 0
    /\ budget' = [budget EXCEPT ![k] = @ - 1]

Live(s) == socket[s] = "open"

\* Mutant: a socket that registered counts, connected or not.
EverOnline(d) == \E s \in authenticated : Agent[s] = d

\* isDeviceOnline.
IsDeviceOnline(d) ==
    \E s \in deviceSockets[d] : client[s] # None /\ Live(s)

\* Mutant: the query does not ask for revokedAt: null.
TokenHeld(d) == tokenHeld[d]

\* authenticateByToken of the token an agent of d holds.
AuthenticateByToken(d) == tokenHeld[d] /\ ~revoked[d]

\* A handler of socket s is at one of the awaits of A.
InFlight(s, A) == \E j \in Jobs : job[j].pc \in A /\ job[j].socket = s

\* sendToUser of DEVICE_STATUS.
Show(d, s) == shown' = [shown EXCEPT ![d] = s]

------------------------------------------------------------------------------
\* handleConnection and onRegisterDevice.

Connect(s) ==
    /\ socket[s] = "new"
    /\ socket' = [socket EXCEPT ![s] = "open"]
    /\ UNCHANGED <<rows, registry, job, dashboard, budget>>

\* REGISTER_DEVICE; the agent may present a token that is not its device's.  (A
\* message the rate limiter or the schema refuses changes nothing.)
RegisterDevice(j, s, ok) ==
    /\ Live(s)
    /\ At(j, "idle")
    /\ ok => AuthenticateByToken(Agent[s])
    /\ job' = [job EXCEPT ![j] = [pc |-> "auth", socket |-> s,
                                  device |-> Agent[s], ok |-> ok]]
    /\ UNCHANGED <<rows, registry, socket, dashboard, budget>>

AuthFailed(j) ==
    /\ At(j, "auth")
    /\ ~job[j].ok
    /\ Return(j)
    /\ UNCHANGED <<rows, registry, socket, dashboard, budget>>

MarkOnline(j) ==
    /\ At(j, "auth")
    /\ job[j].ok
    /\ SetStatus(D(j), "ONLINE")
    /\ Await(j, "online")
    /\ UNCHANGED <<revoked, tokenHeld, sessions, registry, socket, dashboard,
                   budget>>

\* createDeviceSession closes the active sessions of the device ...
CloseSessions(j) ==
    /\ At(j, "online")
    /\ sessions' = {x \in sessions : x.device # D(j)}
    /\ Await(j, "sessions")
    /\ UNCHANGED <<status, revoked, tokenHeld, registry, socket, dashboard,
                   budget>>

\* ... and creates one.
CreateSession(j) ==
    /\ At(j, "sessions")
    /\ sessions' = sessions \cup {[socket |-> job[j].socket, device |-> D(j)]}
    /\ Await(j, "created")
    /\ UNCHANGED <<status, revoked, tokenHeld, registry, socket, dashboard,
                   budget>>

\* register, whether or not the socket is still connected.
Register(j) ==
    /\ At(j, "created")
    /\ client' = [client EXCEPT ![job[j].socket] = D(j)]
    /\ deviceSockets' = [deviceSockets EXCEPT ![D(j)] = @ \cup {job[j].socket}]
    /\ authenticated' = authenticated \cup {job[j].socket}
    /\ Await(j, "event")
    /\ UNCHANGED <<rows, socket, dashboard, budget>>

\* The dashboard is told what markOnline returned.
ShowOnline(j) ==
    /\ At(j, "event")
    /\ Show(D(j), "ONLINE")
    /\ Return(j)
    /\ UNCHANGED <<rows, registry, socket, harmed, misled, budget>>

------------------------------------------------------------------------------
\* The end of a socket and handleDisconnect.

\* Mutant: the device's set keeps the socket.
UnregisterClient(s) ==
    /\ client' = [client EXCEPT ![s] = None]
    /\ UNCHANGED deviceSockets

\* unregister.
Unregister(s) ==
    /\ client' = [client EXCEPT ![s] = None]
    /\ deviceSockets' =
         [d \in Devices |-> IF client[s] = d THEN deviceSockets[d] \ {s}
                                             ELSE deviceSockets[d]]

\* Mutant: the rows are left to the next registration.
LeaveSessions(s) == UNCHANGED sessions

EndBySocketId(s) == sessions' = {x \in sessions : x.socket # s}

\* Mutant: a socket that never registered is treated like one that did.
CloseAlways(j, s) ==
    /\ Unregister(s)
    /\ EndBySocketId(s)
    /\ At(j, "idle")
    /\ job' = [job EXCEPT ![j] = [pc |-> "ended", socket |-> s,
                                  device |-> client[s], ok |-> FALSE]]

\* handleDisconnect up to its first await; nothing is left to do for a socket
\* the registry does not know.
Close(j, s) ==
    \/ /\ client[s] = None
       /\ UNCHANGED <<client, deviceSockets, sessions, job>>
    \/ /\ client[s] # None
       /\ Unregister(s)
       /\ EndBySocketId(s)
       /\ At(j, "idle")
       /\ job' = [job EXCEPT ![j] = [pc |-> "ended", socket |-> s,
                                     device |-> client[s], ok |-> FALSE]]

\* The agent or the network ends the connection, the timer of handleConnection
\* finds the socket not authenticated, or enforceTimeouts finds it stale.
Disconnect(j, s) ==
    /\ Live(s)
    /\ socket' = [socket EXCEPT ![s] = "closed"]
    /\ Close(j, s)
    /\ harmed' = harmed \cup {d \in {Agent[s]} : InFlight(s, Registering)}
    /\ misled' = misled \cup
                     {d \in {Agent[s]} : InFlight(s, Registering \cup {"event"})}
    /\ UNCHANGED <<status, revoked, tokenHeld, authenticated, shown, budget>>

StillOnline(j) ==
    /\ At(j, "ended")
    /\ IsDeviceOnline(D(j))
    /\ Return(j)
    /\ UNCHANGED <<rows, registry, socket, dashboard, budget>>

\* Mutant: markOffline is called without asking for other sockets.
NotOnlineUnasked(j) ==
    /\ At(j, "ended")
    /\ job' = [job EXCEPT ![j].pc = "offline", ![j].ok = ~revoked[D(j)]]
    /\ UNCHANGED <<rows, registry, socket, dashboard, budget>>

\* markOffline reads the row ...
NotOnline(j) ==
    /\ At(j, "ended")
    /\ ~IsDeviceOnline(D(j))
    /\ job' = [job EXCEPT ![j].pc = "offline", ![j].ok = ~revoked[D(j)]]
    /\ UNCHANGED <<rows, registry, socket, dashboard, budget>>

\* ... and writes it unless the device is revoked.
MarkOffline(j) ==
    /\ At(j, "offline")
    /\ \/ job[j].ok /\ SetStatus(D(j), "OFFLINE") /\ Await(j, "marked")
       \/ ~job[j].ok /\ UNCHANGED status /\ Return(j)
    /\ UNCHANGED <<revoked, tokenHeld, sessions, registry, socket, dashboard,
                   budget>>

\* Mutant: the dashboard is told of connections only.
ShowNothing(j) ==
    /\ At(j, "marked")
    /\ Return(j)
    /\ UNCHANGED <<rows, registry, socket, dashboard, budget>>

\* The dashboard is told what markOffline returned.
ShowOffline(j) ==
    /\ At(j, "marked")
    /\ Show(D(j), "OFFLINE")
    /\ Return(j)
    /\ UNCHANGED <<rows, registry, socket, harmed, misled, budget>>

------------------------------------------------------------------------------
\* The dashboard, and what may go wrong.

\* revoke: the hash is replaced by that of a secret nobody holds.
Revoke(d) ==
    /\ Spend("revoke")
    /\ SetStatus(d, "REVOKED")
    /\ revoked' = [revoked EXCEPT ![d] = TRUE]
    /\ tokenHeld' = [tokenHeld EXCEPT ![d] = FALSE]
    /\ UNCHANGED <<sessions, registry, socket, job, dashboard>>

\* regenerateToken, of a revoked device too.
RegenerateToken(d) ==
    /\ Spend("regenerate")
    /\ SetStatus(d, "OFFLINE")
    /\ tokenHeld' = [tokenHeld EXCEPT ![d] = TRUE]
    /\ UNCHANGED <<revoked, sessions, registry, socket, job, dashboard>>

\* What the handler awaits is rejected.
Reject(j) ==
    /\ ~At(j, "idle")
    /\ Spend("reject")
    /\ Return(j)
    /\ harmed' = harmed \cup {D(j)}
    /\ misled' = misled \cup {D(j)}
    /\ UNCHANGED <<rows, registry, socket, shown>>

\* The process restarts: nothing corrects the rows.
Restart ==
    /\ Spend("restart")
    /\ client' = [s \in Sockets |-> None]
    /\ deviceSockets' = [d \in Devices |-> {}]
    /\ authenticated' = {}
    /\ socket' = [s \in Sockets |-> IF Live(s) THEN "closed" ELSE socket[s]]
    /\ job' = [j \in Jobs |-> Idle]
    /\ harmed' = Devices
    /\ misled' = Devices
    /\ UNCHANGED <<rows, shown>>

Resume(j) ==
    \/ AuthFailed(j) \/ MarkOnline(j) \/ CloseSessions(j) \/ CreateSession(j)
    \/ Register(j) \/ ShowOnline(j)
    \/ StillOnline(j) \/ NotOnline(j) \/ MarkOffline(j) \/ ShowOffline(j)

Next ==
    \/ \E s \in Sockets : Connect(s)
    \/ \E j \in Jobs : Resume(j) \/ Reject(j)
    \/ \E j \in Jobs, s \in Sockets :
          \/ Disconnect(j, s)
          \/ \E ok \in BOOLEAN : RegisterDevice(j, s, ok)
    \/ \E d \in Devices : Revoke(d) \/ RegenerateToken(d)
    \/ Restart

Spec == Init /\ [][Next]_vars

\* Handlers run on.
FairSpec == Spec /\ \A j \in Jobs : WF_vars(Resume(j))

------------------------------------------------------------------------------
\* Properties.

\* The registry's maps agree: a socket is in the set of the device its client
\* names and in no other, that device is the one whose agent opened it, and a
\* live authenticated agent socket can be reached through them.  The handlers
\* still to run work for that device too.
RegistryAgrees ==
    /\ \A s \in Sockets, d \in Devices : s \in deviceSockets[d] <=> client[s] = d
    /\ \A s \in Sockets : client[s] \in {None, Agent[s]}
    /\ \A s \in authenticated :
          /\ socket[s] # "new"
          /\ Live(s) => client[s] = Agent[s]
    /\ \A j \in Jobs :
          ~At(j, "idle") => /\ D(j) = Agent[job[j].socket]
                            /\ socket[job[j].socket] # "new"

\* An agent of device d is connected and registered.
AgentThere(d) == \E s \in Sockets : Live(s) /\ client[s] = d

\* No handler is at work for device d.
Quiet(d) == \A j \in Jobs : At(j, "idle") \/ D(j) # d

\* handleDisconnect: whatever sockets came and went, a device whose agent is
\* gone is not left ONLINE, unless it was revoked while registering - and trouble
\* with one device leaves this true of the others.
GoneIsOffline ==
    \A d \in Devices \ harmed :
        Quiet(d) /\ ~revoked[d] /\ ~AgentThere(d) => status[d] # "ONLINE"

\* An active session belongs to a socket that is connected and registered.
SessionsLive ==
    \A x \in sessions :
        Quiet(x.device) /\ x.device \notin harmed =>
            Live(x.socket) /\ client[x.socket] = x.device

\* DEVICE_STATUS: the messages of a registration and of a disconnection that
\* overlap may reach the dashboard in either order, but they do not leave it
\* showing a device ONLINE whose agent is gone - if the agent stayed until the
\* dashboard was told of it.
GoneIsShown ==
    \A d \in Devices \ misled :
        Quiet(d) /\ ~revoked[d] /\ ~AgentThere(d) => shown[d] # "ONLINE"

\* Device d is revoked, and no agent that was let in before is still registering.
ShutOut(d) ==
    /\ revoked[d]
    /\ \A j \in Jobs :
          job[j].pc \in Registering /\ D(j) = d => At(j, "auth") /\ ~job[j].ok

\* A revoked device stays shut out: no token, a regenerated one included, gets it
\* ONLINE or a socket into its set again.
RevokedIsFinal ==
    [][\A d \in Devices : ShutOut(d) =>
          /\ ShutOut(d)'
          /\ status'[d] = "ONLINE" => status[d] = "ONLINE"
          /\ deviceSockets'[d] \subseteq deviceSockets[d]]_vars

\* handleDisconnect, "Only mark OFFLINE when no live agent socket remains".
OfflineWhenGone ==
    [][\A j \in Jobs :
          MarkOffline(j) /\ job[j].ok => ~AgentThere(D(j))]_vars

\* A device whose agent went away leaves ONLINE in the end, or has an agent again.
GoneGoesOffline ==
    \A d \in Devices :
        ~AgentThere(d) ~> \/ AgentThere(d)
                              \/ status[d] # "ONLINE"
                              \/ revoked[d]
                              \/ d \in harmed

==============================================================================
