-------------------------- MODULE DeviceLinkProofs --------------------------
(***************************************************************************)
(* TLAPS proofs about DeviceLink, for any number of devices, sockets and   *)
(* handlers and any budget of trouble.                                     *)
(***************************************************************************)
EXTENDS LinkRefinement, TLAPS

\* The inductive invariant.
LinkInv == TypeOK /\ RegistryAgrees

\* A handler at an await is a running one.
LEMMA RunningJob ==
    ASSUME TypeOK, NEW j \in Jobs, ~At(j, "idle") \/ job[j].pc \in PC
    PROVE  job[j] \in Running
<1>1. job[j] \in Running \cup {Idle}
  BY DEF TypeOK
<1>2. Idle.pc = "idle" /\ "idle" \notin PC
  BY DEF Idle, PC
<1>. QED
  BY <1>1, <1>2 DEF At

\* A job is a handler or idle.
LEMMA AwaitTypes ==
    ASSUME LinkInv, NEW j \in Jobs, NEW p \in PC, Await(j, p), ~At(j, "idle")
    PROVE  /\ job' \in [Jobs -> Running \cup {Idle}]
           /\ job'[j].pc = p
           /\ job'[j].device = job[j].device
           /\ job'[j].socket = job[j].socket
           /\ job'[j].ok = job[j].ok
           /\ \A i \in Jobs \ {j} : job'[i] = job[i]
<1>1. job \in [Jobs -> Running \cup {Idle}] /\ job[j] \in Running
  BY RunningJob DEF LinkInv, TypeOK
<1>. DEFINE h == [job[j] EXCEPT !.pc = p]
<1>2. /\ h \in Running /\ h.pc = p /\ h.device = job[j].device
      /\ h.socket = job[j].socket /\ h.ok = job[j].ok
  BY <1>1 DEF Running
<1>3. job' = [job EXCEPT ![j] = h]
  BY <1>1 DEF Await
<1>. HIDE DEF h
<1>. QED
  BY <1>1, <1>2, <1>3

\* A handler that ends is idle.
LEMMA ReturnTypes ==
    ASSUME LinkInv, NEW j \in Jobs, Return(j)
    PROVE  /\ job' \in [Jobs -> Running \cup {Idle}]
           /\ job'[j].pc = "idle"
           /\ \A i \in Jobs \ {j} : job'[i] = job[i]
<1>1. job \in [Jobs -> Running \cup {Idle}]
  BY DEF LinkInv, TypeOK
<1>2. Idle.pc = "idle"
  BY DEF Idle
<1>. QED
  BY <1>1, <1>2 DEF Return

------------------------------------------------------------------------------
\* Steps of a handler.

\* What a step of handler j does that leaves the registry and the sockets alone.
LEMMA QuietLink ==
    ASSUME LinkInv, NEW j \in Jobs,
           UNCHANGED <<registry, socket, harmed, misled, budget>>,
           shown' \in [Devices -> {"ONLINE", "OFFLINE"}],
           status' \in [Devices -> ConnectionStatus],
           revoked' = revoked, tokenHeld' = tokenHeld,
           sessions' \subseteq Session,
           job' \in [Jobs -> Running \cup {Idle}],
           \A i \in Jobs \ {j} : job'[i] = job[i],
           \/ job'[j].pc = "idle"
           \/ /\ job[j].pc # "idle"
              /\ job'[j].device = job[j].device
              /\ job'[j].socket = job[j].socket
    PROVE  LinkInv'
<1>1. TypeOK'
  BY DEF LinkInv, TypeOK, registry
<1>2. RegistryAgrees'
  BY DEF LinkInv, RegistryAgrees, registry, At, D, Live
<1>. QED
  BY <1>1, <1>2 DEF LinkInv

\* The steps of onRegisterDevice before register, and of handleDisconnect after
\* unregister.
LEMMA RowActions ==
    ASSUME LinkInv, NEW j \in Jobs,
           \/ AuthFailed(j) \/ MarkOnline(j) \/ CloseSessions(j)
           \/ CreateSession(j) \/ ShowOnline(j) \/ StillOnline(j)
           \/ NotOnline(j) \/ MarkOffline(j) \/ ShowOffline(j)
    PROVE  LinkInv'
<1>1. /\ status \in [Devices -> ConnectionStatus]
      /\ sessions \subseteq Session
      /\ ~At(j, "idle")
      /\ job[j] \in Running
  BY RunningJob DEF LinkInv, TypeOK, At, AuthFailed, MarkOnline, CloseSessions,
       CreateSession, ShowOnline, StillOnline, NotOnline, MarkOffline,
       ShowOffline
<1>2. D(j) \in Devices /\ job[j].socket \in Sockets
  BY <1>1 DEF Running, D
<1>. USE DEF rows, dashboard
<1>0. shown \in [Devices -> {"ONLINE", "OFFLINE"}]
  BY DEF LinkInv, TypeOK
<1>3. CASE AuthFailed(j)
  BY <1>0, <1>1, <1>3, ReturnTypes, QuietLink DEF AuthFailed, LinkInv, TypeOK
<1>4. CASE MarkOnline(j)
  <2>1. status' \in [Devices -> ConnectionStatus]
    BY <1>1, <1>4 DEF MarkOnline, SetStatus, ConnectionStatus
  <2>. QED
    BY <1>0, <1>1, <1>4, <2>1, AwaitTypes, QuietLink DEF MarkOnline, PC, At
<1>5. CASE CloseSessions(j)
  BY <1>0, <1>1, <1>5, AwaitTypes, QuietLink DEF CloseSessions, PC, At
<1>6. CASE CreateSession(j)
  <2>1. sessions' \subseteq Session
    BY <1>1, <1>2, <1>6 DEF CreateSession, Session
  <2>. QED
    BY <1>0, <1>1, <1>6, <2>1, AwaitTypes, QuietLink DEF CreateSession, PC, At
<1>7. CASE StillOnline(j)
  BY <1>0, <1>1, <1>7, ReturnTypes, QuietLink DEF StillOnline
<1>8. CASE NotOnline(j)
  <2>. DEFINE h == [job[j] EXCEPT !.pc = "offline", !.ok = ~revoked[D(j)]]
  <2>1. h \in Running /\ h.device = job[j].device /\ h.socket = job[j].socket
    BY <1>1, <1>2 DEF Running, PC, LinkInv, TypeOK
  <2>2. job \in [Jobs -> Running \cup {Idle}]
    BY DEF LinkInv, TypeOK
  <2>3. job' = [job EXCEPT ![j] = h]
    BY <1>8, <2>2 DEF NotOnline
  <2>. HIDE DEF h
  <2>4. /\ job' \in [Jobs -> Running \cup {Idle}] /\ job'[j] = h
        /\ \A i \in Jobs \ {j} : job'[i] = job[i]
    BY <2>1, <2>2, <2>3
  <2>. QED
    BY <1>0, <1>1, <1>8, <2>1, <2>4, QuietLink DEF NotOnline, At
<1>9. CASE MarkOffline(j)
  <2>1. status' \in [Devices -> ConnectionStatus]
    BY <1>1, <1>9 DEF MarkOffline, SetStatus, ConnectionStatus
  <2>2. CASE Await(j, "marked")
    BY <1>0, <1>1, <1>9, <2>1, <2>2, AwaitTypes, QuietLink DEF MarkOffline, PC, At
  <2>3. CASE Return(j)
    BY <1>0, <1>1, <1>9, <2>1, <2>3, ReturnTypes, QuietLink DEF MarkOffline
  <2>. QED
    BY <1>9, <2>2, <2>3 DEF MarkOffline
<1>10. CASE ShowOnline(j) \/ ShowOffline(j)
  <2>1. shown' \in [Devices -> {"ONLINE", "OFFLINE"}]
    BY <1>0, <1>2, <1>10 DEF ShowOnline, ShowOffline, Show
  <2>. QED
    BY <1>1, <1>10, <2>1, ReturnTypes, QuietLink DEF ShowOnline, ShowOffline
<1>. QED
  BY <1>3, <1>4, <1>5, <1>6, <1>7, <1>8, <1>9, <1>10

\* register writes all three maps at once.
LEMMA RegisterAction ==
    ASSUME LinkInv, NEW j \in Jobs, Register(j)
    PROVE  LinkInv'
<1>. DEFINE s == job[j].socket
<1>1. job[j] \in Running
  BY RunningJob DEF LinkInv, Register, At, PC
<1>2. s \in Sockets /\ D(j) \in Devices /\ D(j) = Agent[s] /\ socket[s] # "new"
  BY <1>1 DEF Running, D, LinkInv, RegistryAgrees, Register, At
<1>3. /\ client' = [client EXCEPT ![s] = D(j)]
      /\ deviceSockets' = [deviceSockets EXCEPT ![D(j)] = @ \cup {s}]
      /\ authenticated' = authenticated \cup {s}
      /\ UNCHANGED <<status, revoked, tokenHeld, sessions, socket, shown, harmed,
                     misled, budget>>
  BY DEF Register, rows, dashboard
<1>4. /\ job' \in [Jobs -> Running \cup {Idle}]
      /\ job'[j].device = D(j) /\ job'[j].socket = s
      /\ \A i \in Jobs \ {j} : job'[i] = job[i]
  BY AwaitTypes DEF Register, At, D, PC
<1>. HIDE DEF s
<1>5. TypeOK'
  BY <1>2, <1>3, <1>4 DEF LinkInv, TypeOK
<1>6. \A i \in Jobs : ~At(i, "idle")' => /\ D(i)' = Agent[job'[i].socket]
                                         /\ socket'[job'[i].socket] # "new"
  BY <1>2, <1>3, <1>4 DEF LinkInv, RegistryAgrees, At, D
<1>7. /\ client \in [Sockets -> Devices \cup {None}]
      /\ deviceSockets \in [Devices -> SUBSET Sockets]
  BY DEF LinkInv, TypeOK
<1>8. \A r \in Sockets, e \in Devices :
         r \in deviceSockets'[e] <=> client'[r] = e
  BY <1>2, <1>3, <1>7, DeviceLinkAssumption DEF LinkInv, RegistryAgrees
<1>9. \A r \in Sockets : client'[r] \in {None, Agent[r]}
  BY <1>2, <1>3, <1>7 DEF LinkInv, RegistryAgrees
<1>10. \A r \in authenticated' : /\ socket'[r] # "new"
                                 /\ Live(r)' => client'[r] = Agent[r]
  <2>1. authenticated \subseteq Sockets
    BY DEF LinkInv, TypeOK
  <2>. QED
    BY <1>2, <1>3, <1>7, <2>1 DEF LinkInv, RegistryAgrees, Live
<1>11. RegistryAgrees'
  BY <1>6, <1>8, <1>9, <1>10 DEF RegistryAgrees
<1>. QED
  BY <1>5, <1>11 DEF LinkInv

------------------------------------------------------------------------------
\* The other steps.

\* A socket is opened, or an agent asks to be registered on it.
LEMMA AgentActions ==
    ASSUME LinkInv, NEW s \in Sockets,
           \/ Connect(s)
           \/ \E j \in Jobs, ok \in BOOLEAN : RegisterDevice(j, s, ok)
    PROVE  LinkInv'
<1>. USE DEF rows, registry, dashboard
<1>1. CASE Connect(s)
  <2>1. TypeOK'
    BY <1>1 DEF Connect, LinkInv, TypeOK
  <2>2. RegistryAgrees'
    BY <1>1 DEF Connect, LinkInv, TypeOK, RegistryAgrees, At, D, Live
  <2>. QED
    BY <2>1, <2>2 DEF LinkInv
<1>2. ASSUME NEW j \in Jobs, NEW ok \in BOOLEAN, RegisterDevice(j, s, ok)
      PROVE  LinkInv'
  <2>. DEFINE h == [pc |-> "auth", socket |-> s, device |-> Agent[s], ok |-> ok]
  <2>1. h \in Running /\ h.device = Agent[s] /\ h.socket = s
    BY DeviceLinkAssumption DEF Running, PC
  <2>2. job' = [job EXCEPT ![j] = h] /\ socket[s] = "open"
    BY <1>2 DEF RegisterDevice, Live
  <2>. HIDE DEF h
  <2>3. TypeOK'
    BY <1>2, <2>1, <2>2 DEF RegisterDevice, LinkInv, TypeOK
  <2>4. RegistryAgrees'
    BY <1>2, <2>1, <2>2
    DEF RegisterDevice, LinkInv, TypeOK, RegistryAgrees, At, D, Live
  <2>. QED
    BY <2>3, <2>4 DEF LinkInv
<1>. QED
  BY <1>1, <1>2

\* A socket goes down; one the registry knows leaves all of its maps.
LEMMA DisconnectAction ==
    ASSUME LinkInv, NEW j \in Jobs, NEW s \in Sockets, Disconnect(j, s)
    PROVE  LinkInv'
<1>1. /\ socket[s] = "open"
      /\ socket' = [socket EXCEPT ![s] = "closed"]
      /\ UNCHANGED <<status, revoked, tokenHeld, authenticated, shown, budget>>
      /\ harmed' \subseteq Devices /\ misled' \subseteq Devices
  BY DeviceLinkAssumption DEF Disconnect, Live, LinkInv, TypeOK
<1>2. /\ client \in [Sockets -> Devices \cup {None}]
      /\ deviceSockets \in [Devices -> SUBSET Sockets]
      /\ socket \in [Sockets -> {"new", "open", "closed"}]
      /\ job \in [Jobs -> Running \cup {Idle}]
      /\ sessions \subseteq Session
  BY DEF LinkInv, TypeOK
<1>3. CASE client[s] = None
  <2>1. UNCHANGED <<client, deviceSockets, sessions, job>>
    BY <1>3 DEF Disconnect, Close
  <2>2. TypeOK'
    BY <1>1, <1>2, <2>1 DEF LinkInv, TypeOK
  <2>3. RegistryAgrees'
    BY <1>1, <1>2, <2>1 DEF LinkInv, RegistryAgrees, At, D, Live
  <2>. QED
    BY <2>2, <2>3 DEF LinkInv
<1>4. CASE client[s] # None
  <2>. DEFINE h == [pc |-> "ended", socket |-> s, device |-> client[s],
                    ok |-> FALSE]
  <2>1. /\ client' = [client EXCEPT ![s] = None]
        /\ deviceSockets' =
             [d \in Devices |-> IF client[s] = d THEN deviceSockets[d] \ {s}
                                                 ELSE deviceSockets[d]]
        /\ sessions' \subseteq sessions
        /\ job' = [job EXCEPT ![j] = h]
    BY <1>4 DEF Disconnect, Close, Unregister, EndBySocketId
  <2>2. client[s] = Agent[s] /\ client[s] \in Devices
    BY <1>2, <1>4 DEF LinkInv, RegistryAgrees
  <2>3. h \in Running /\ h.device = Agent[s] /\ h.socket = s
    BY <2>2 DEF Running, PC
  <2>. HIDE DEF h
  <2>4. TypeOK'
    BY <1>1, <1>2, <2>1, <2>3 DEF LinkInv, TypeOK
  <2>5. \A r \in Sockets, e \in Devices :
           r \in deviceSockets'[e] <=> client'[r] = e
    BY <1>2, <2>1, <2>2, DeviceLinkAssumption DEF LinkInv, RegistryAgrees
  <2>6. \A r \in Sockets : client'[r] \in {None, Agent[r]}
    BY <1>2, <2>1 DEF LinkInv, RegistryAgrees
  <2>7. \A r \in authenticated' : /\ socket'[r] # "new"
                                  /\ Live(r)' => client'[r] = Agent[r]
    <3>1. authenticated \subseteq Sockets
      BY DEF LinkInv, TypeOK
    <3>. QED
      BY <1>1, <1>2, <2>1, <3>1 DEF LinkInv, RegistryAgrees, Live
  <2>8. \A i \in Jobs : ~At(i, "idle")' => /\ D(i)' = Agent[job'[i].socket]
                                           /\ socket'[job'[i].socket] # "new"
    BY <1>1, <1>2, <2>1, <2>3 DEF LinkInv, RegistryAgrees, At, D
  <2>9. RegistryAgrees'
    BY <2>5, <2>6, <2>7, <2>8 DEF RegistryAgrees
  <2>. QED
    BY <2>4, <2>9 DEF LinkInv
<1>. QED
  BY <1>3, <1>4

\* The dashboard changes rows only.
LEMMA DashboardActions ==
    ASSUME LinkInv, NEW d \in Devices, Revoke(d) \/ RegenerateToken(d)
    PROVE  LinkInv'
<1>. USE DEF Revoke, RegenerateToken
<1>1. budget' \in [Trouble -> Nat]
  BY DEF Spend, Trouble, LinkInv, TypeOK
<1>2. /\ status' \in [Devices -> ConnectionStatus]
      /\ revoked' \in [Devices -> BOOLEAN]
      /\ tokenHeld' \in [Devices -> BOOLEAN]
  BY DEF SetStatus, ConnectionStatus, LinkInv, TypeOK
<1>3. TypeOK'
  BY <1>1, <1>2 DEF registry, dashboard, LinkInv, TypeOK
<1>4. RegistryAgrees'
  BY DEF registry, LinkInv, RegistryAgrees, At, D, Live
<1>. QED
  BY <1>3, <1>4 DEF LinkInv

\* A rejected await ends its handler.
LEMMA RejectAction ==
    ASSUME LinkInv, NEW j \in Jobs, Reject(j)
    PROVE  LinkInv'
<1>1. /\ job' \in [Jobs -> Running \cup {Idle}]
      /\ job'[j].pc = "idle"
      /\ \A i \in Jobs \ {j} : job'[i] = job[i]
  BY ReturnTypes DEF Reject
<1>2. D(j) \in Devices
  BY RunningJob DEF Reject, LinkInv, D, Running
<1>3. TypeOK'
  BY <1>1, <1>2 DEF Reject, Spend, Trouble, rows, registry, LinkInv, TypeOK
<1>4. RegistryAgrees'
  BY <1>1 DEF Reject, registry, LinkInv, RegistryAgrees, At, D, Live
<1>. QED
  BY <1>3, <1>4 DEF LinkInv

\* A restart empties the registry together with the handlers.
LEMMA RestartAction ==
    ASSUME LinkInv, Restart
    PROVE  LinkInv'
<1>1. TypeOK'
  BY DEF Restart, Spend, Trouble, rows, Live, LinkInv, TypeOK
<1>2. RegistryAgrees'
  BY DeviceLinkAssumption DEF Restart, RegistryAgrees, At, D, Live, Idle
<1>. QED
  BY <1>1, <1>2 DEF LinkInv

------------------------------------------------------------------------------
\* The theorems.

\* An empty registry agrees with itself.
LEMMA InitLink == Init => LinkInv
<1>. SUFFICES ASSUME Init PROVE LinkInv
  OBVIOUS
<1>1. TypeOK
  BY DeviceLinkAssumption DEF Init, TypeOK, ConnectionStatus
<1>2. RegistryAgrees
  BY DeviceLinkAssumption DEF Init, RegistryAgrees, At, D, Live, Idle
<1>. QED
  BY <1>1, <1>2 DEF LinkInv

\* Every step keeps the invariant.
LEMMA NextLink == LinkInv /\ [Next]_vars => LinkInv'
<1>. SUFFICES ASSUME LinkInv, [Next]_vars PROVE LinkInv'
  OBVIOUS
<1>1. CASE UNCHANGED vars
  BY <1>1
  DEF vars, rows, registry, dashboard, LinkInv, TypeOK, RegistryAgrees, At, D, Live
<1>2. CASE \E j \in Jobs : Resume(j)
  BY <1>2, RowActions, RegisterAction DEF Resume
<1>. QED
  BY <1>1, <1>2, AgentActions, DisconnectAction, DashboardActions, RejectAction,
     RestartAction
  DEF Next

\* The registry's maps agree in every reachable state, and no handler works for
\* a device that is not its socket's (register and unregister, whatever runs
\* between their callers' awaits).
THEOREM RegistryCorrect == Spec => []LinkInv
BY InitLink, NextLink, PTL DEF Spec

\* Every variable keeps its type.
THEOREM LinkTypeCorrect == Spec => []TypeOK
<1>1. LinkInv => TypeOK
  BY DEF LinkInv
<1>. QED
  BY <1>1, RegistryCorrect, PTL

\* sendToDevice and isDeviceOnline see the sockets that are registered.
THEOREM RegistryConsistent == Spec => []RegistryAgrees
<1>1. LinkInv => RegistryAgrees
  BY DEF LinkInv
<1>. QED
  BY <1>1, RegistryCorrect, PTL

------------------------------------------------------------------------------
\* Revoked devices.

\* The step of RevokedIsFinal does to device d what it may.
StaysOut(d) ==
    /\ ShutOut(d)'
    /\ status'[d] = "ONLINE" => status[d] = "ONLINE"
    /\ deviceSockets'[d] \subseteq deviceSockets[d]

\* A step that moves one handler at most, to where it lets d in no further.
LEMMA StaysOutStep ==
    ASSUME NEW d \in Devices, ShutOut(d), NEW j \in Jobs,
           \A i \in Jobs \ {j} : job'[i] = job[i],
           job'[j].pc \in Registering /\ job'[j].device = d
              => job'[j].pc = "auth" /\ ~job'[j].ok,
           revoked'[d], status'[d] = "ONLINE" => status[d] = "ONLINE",
           deviceSockets'[d] \subseteq deviceSockets[d]
    PROVE  StaysOut(d)
BY DEF StaysOut, ShutOut, At, D

\* The steps of the handlers: one that would let d in was let in itself before.
LEMMA ResumeStaysOut ==
    ASSUME LinkInv, NEW d \in Devices, ShutOut(d), NEW j \in Jobs, Resume(j)
    PROVE  StaysOut(d)
<1>1. /\ revoked[d]
      /\ job[j].pc \in Registering /\ job[j].device = d
            => job[j].pc = "auth" /\ ~job[j].ok
      /\ status \in [Devices -> ConnectionStatus]
      /\ deviceSockets \in [Devices -> SUBSET Sockets]
      /\ job \in [Jobs -> Running \cup {Idle}]
  BY DEF ShutOut, At, D, LinkInv, TypeOK
<1>2. {"idle", "event", "offline", "marked"} \cap Registering = {}
  BY DEF Registering
<1>. USE DEF rows, registry, dashboard
<1>3. CASE AuthFailed(j) \/ StillOnline(j) \/ ShowOnline(j) \/ ShowOffline(j)
  BY <1>1, <1>2, <1>3, ReturnTypes, StaysOutStep
  DEF AuthFailed, StillOnline, ShowOnline, ShowOffline
<1>4. CASE MarkOnline(j)
  <2>1. D(j) # d
    BY <1>1, <1>4 DEF MarkOnline, At, D, Registering
  <2>2. job'[j].device = D(j) /\ \A i \in Jobs \ {j} : job'[i] = job[i]
    BY <1>4, AwaitTypes DEF MarkOnline, At, D, PC
  <2>3. status'[d] = status[d]
    BY <1>1, <1>4, <2>1 DEF MarkOnline, SetStatus
  <2>. QED
    BY <1>1, <1>4, <2>1, <2>2, <2>3, StaysOutStep DEF MarkOnline
<1>5. CASE CloseSessions(j) \/ CreateSession(j)
  <2>1. D(j) # d
    BY <1>1, <1>5 DEF CloseSessions, CreateSession, At, D, Registering
  <2>2. job'[j].device = D(j) /\ \A i \in Jobs \ {j} : job'[i] = job[i]
    BY <1>5, AwaitTypes DEF CloseSessions, CreateSession, At, D, PC
  <2>. QED
    BY <1>1, <1>5, <2>1, <2>2, StaysOutStep DEF CloseSessions, CreateSession
<1>6. CASE Register(j)
  <2>1. D(j) # d
    BY <1>1, <1>6 DEF Register, At, D, Registering
  <2>2. deviceSockets'[d] = deviceSockets[d]
    BY <1>1, <1>6, <2>1 DEF Register
  <2>. QED
    BY <1>1, <1>2, <1>6, <2>2, AwaitTypes, StaysOutStep DEF Register, PC, At
<1>7. CASE NotOnline(j)
  <2>1. job'[j].pc = "offline" /\ \A i \in Jobs \ {j} : job'[i] = job[i]
    <3>1. job[j] \in Running
      BY <1>7, RunningJob DEF NotOnline, At, LinkInv, PC
    <3>. QED
      BY <1>1, <1>7, <3>1 DEF NotOnline, Running
  <2>. QED
    BY <1>1, <1>2, <1>7, <2>1, StaysOutStep DEF NotOnline
<1>8. CASE MarkOffline(j)
  <2>1. status'[d] = "ONLINE" => status[d] = "ONLINE"
    BY <1>1, <1>8 DEF MarkOffline, SetStatus
  <2>2. job'[j].pc \in {"idle", "marked"} /\ \A i \in Jobs \ {j} : job'[i] = job[i]
    BY <1>8, AwaitTypes, ReturnTypes DEF MarkOffline, PC, At
  <2>. QED
    BY <1>1, <1>2, <1>8, <2>1, <2>2, StaysOutStep DEF MarkOffline
<1>. QED
  BY <1>3, <1>4, <1>5, <1>6, <1>7, <1>8 DEF Resume

\* The other steps.
LEMMA NextStaysOut ==
    ASSUME LinkInv, [Next]_vars, NEW d \in Devices, ShutOut(d)
    PROVE  StaysOut(d)
<1>1. /\ revoked \in [Devices -> BOOLEAN]
      /\ status \in [Devices -> ConnectionStatus]
      /\ deviceSockets \in [Devices -> SUBSET Sockets]
      /\ job \in [Jobs -> Running \cup {Idle}]
      /\ revoked[d]
  BY DEF LinkInv, TypeOK, ShutOut
<1>. USE DEF rows, registry, dashboard
<1>2. ASSUME job' = job, revoked'[d], status'[d] = "ONLINE" => status[d] = "ONLINE",
             deviceSockets' = deviceSockets
      PROVE  StaysOut(d)
  BY <1>2 DEF StaysOut, ShutOut, At, D
<1>3. CASE UNCHANGED vars
  BY <1>1, <1>2, <1>3 DEF vars
<1>4. ASSUME NEW s \in Sockets, Connect(s) PROVE StaysOut(d)
  BY <1>1, <1>2, <1>4 DEF Connect
<1>5. ASSUME NEW e \in Devices, Revoke(e) \/ RegenerateToken(e)
      PROVE  StaysOut(d)
  <2>1. revoked'[d] /\ (status'[d] = "ONLINE" => status[d] = "ONLINE")
    BY <1>1, <1>5 DEF Revoke, RegenerateToken, SetStatus
  <2>. QED
    BY <1>2, <1>5, <2>1 DEF Revoke, RegenerateToken
<1>6. ASSUME NEW j \in Jobs, Reject(j) PROVE StaysOut(d)
  <2>1. job'[j].pc \notin Registering /\ \A i \in Jobs \ {j} : job'[i] = job[i]
    BY <1>6, ReturnTypes DEF Reject, Registering
  <2>. QED
    BY <1>1, <1>6, <2>1, StaysOutStep DEF Reject
<1>7. ASSUME NEW j \in Jobs, NEW s \in Sockets, Disconnect(j, s)
      PROVE  StaysOut(d)
  <2>1. deviceSockets'[d] \subseteq deviceSockets[d]
    BY <1>1, <1>7 DEF Disconnect, Close, Unregister
  <2>2. \/ job' = job
        \/ /\ job'[j].pc = "ended"
           /\ \A i \in Jobs \ {j} : job'[i] = job[i]
    BY <1>1, <1>7 DEF Disconnect, Close
  <2>3. CASE job' = job
    BY <1>1, <1>7, <2>1, <2>3 DEF Disconnect, StaysOut, ShutOut, At, D
  <2>4. CASE job'[j].pc = "ended" /\ \A i \in Jobs \ {j} : job'[i] = job[i]
    BY <1>1, <1>7, <2>1, <2>4, StaysOutStep DEF Disconnect, Registering
  <2>. QED
    BY <2>2, <2>3, <2>4
<1>8. ASSUME NEW j \in Jobs, NEW s \in Sockets, NEW ok \in BOOLEAN,
             RegisterDevice(j, s, ok)
      PROVE  StaysOut(d)
  <2>1. /\ job'[j].device = Agent[s] /\ job'[j].pc = "auth" /\ job'[j].ok = ok
        /\ \A i \in Jobs \ {j} : job'[i] = job[i]
    BY <1>1, <1>8 DEF RegisterDevice
  <2>2. Agent[s] = d => ~ok
    BY <1>1, <1>8 DEF RegisterDevice, AuthenticateByToken
  <2>. QED
    BY <1>1, <1>8, <2>1, <2>2, StaysOutStep DEF RegisterDevice
<1>9. CASE Restart
  <2>1. \A j \in Jobs : job'[j].pc \notin Registering
    BY <1>9 DEF Restart, Idle, Registering
  <2>2. deviceSockets'[d] = {}
    BY <1>9 DEF Restart
  <2>. QED
    BY <1>1, <1>9, <2>1, <2>2 DEF Restart, StaysOut, ShutOut
<1>. QED
  BY <1>3, <1>4, <1>5, <1>6, <1>7, <1>8, <1>9, ResumeStaysOut DEF Next

\* Once a device is revoked and the registrations let in before are over, no
\* token, not even a regenerated one, gets it ONLINE or a socket registered for
\* it (authenticateByToken asks for revokedAt: null).
THEOREM RevokedStaysOut == Spec => RevokedIsFinal
<1>1. LinkInv /\ [Next]_vars
        => [\A d \in Devices : ShutOut(d) =>
              /\ ShutOut(d)'
              /\ status'[d] = "ONLINE" => status[d] = "ONLINE"
              /\ deviceSockets'[d] \subseteq deviceSockets[d]]_vars
  BY NextStaysOut DEF StaysOut
<1>. QED
  BY <1>1, RegistryCorrect, PTL DEF Spec, RevokedIsFinal

------------------------------------------------------------------------------
\* What DeviceLink leaves behind when no handler is at work for a device any
\* more: its row, its sessions and what the dashboard shows.  This holds of every
\* device whose handlers were not cut short, whatever happened to the others.

\* A handler for device d is at one of the awaits of A.
AtWork(d, A) == \E j \in Jobs : job[j].pc \in A /\ job[j].device = d

\* markOffline leaves the row alone for a revoked device only.
OfflineRead == \A j \in Jobs : At(j, "offline") /\ ~job[j].ok => revoked[D(j)]

\* A registration holds its socket, up to the message to the dashboard.
SocketHeld ==
    \A j \in Jobs :
        /\ job[j].pc \in Registering /\ D(j) \notin harmed
              => Live(job[j].socket)
        /\ At(j, "event") /\ D(j) \notin misled
              => Live(job[j].socket) /\ client[job[j].socket] = D(j)

\* A device is ONLINE because its agent is there, or on its way in or out.
OnlineHasReason ==
    \A d \in Devices \ harmed :
        ~revoked[d] /\ status[d] = "ONLINE" =>
            \/ AgentThere(d)
            \/ AtWork(d, {"online", "sessions", "created", "ended", "offline"})

\* It is shown ONLINE because its agent is there, or on its way out.
ShownHasReason ==
    \A d \in Devices \ misled :
        ~revoked[d] /\ shown[d] = "ONLINE" =>
            AgentThere(d) \/ AtWork(d, {"ended", "offline", "marked"})

\* The session of a socket that is registered, or about to be.
SessionHeld(x) ==
    /\ Live(x.socket)
    /\ \/ client[x.socket] = x.device
       \/ \E j \in Jobs : At(j, "created") /\ job[j].socket = x.socket

SessionsHeld ==
    \A x \in sessions :
        /\ x.device = Agent[x.socket]
        /\ x.device \notin harmed => SessionHeld(x)

\* The inductive invariant of the three properties.
StatusInv ==
    /\ harmed \subseteq misled
    /\ OfflineRead
    /\ SocketHeld
    /\ OnlineHasReason
    /\ ShownHasReason
    /\ SessionsHeld

------------------------------------------------------------------------------
\* Handlers.

\* A handler that moves on within A, or one that is not in it, leaves a handler
\* at work there.
LEMMA StillAtWork ==
    ASSUME NEW d, NEW A, NEW j \in Jobs, AtWork(d, A),
           \A i \in Jobs \ {j} : job'[i] = job[i],
           \/ job[j].pc \notin A
           \/ job[j].device # d
           \/ job'[j].pc \in A /\ job'[j].device = d
    PROVE  AtWork(d, A)'
BY DEF AtWork

\* What a step of handler j must do to its own state to keep the invariant, when
\* it leaves the sockets and the registry alone.
LEMMA HandlerStep ==
    ASSUME LinkInv, StatusInv, NEW j \in Jobs,
           UNCHANGED <<client, socket, harmed, misled, revoked>>,
           \A i \in Jobs \ {j} : job'[i] = job[i],
           OfflineRead', SocketHeld', SessionsHeld',
           \A d \in Devices : d \notin harmed /\ ~revoked[d] /\ status'[d] = "ONLINE" =>
              \/ AgentThere(d)
              \/ AtWork(d, {"online", "sessions", "created", "ended", "offline"})',
           \A d \in Devices : d \notin misled /\ ~revoked[d] /\ shown'[d] = "ONLINE" =>
              AgentThere(d) \/ AtWork(d, {"ended", "offline", "marked"})'
    PROVE  StatusInv'
<1>1. harmed' \subseteq misled'
  BY DEF StatusInv
<1>2. \A d \in Devices : AgentThere(d) => AgentThere(d)'
  BY DEF AgentThere, Live
<1>3. OnlineHasReason' /\ ShownHasReason'
  BY <1>2 DEF OnlineHasReason, ShownHasReason
<1>. QED
  BY <1>1, <1>3 DEF StatusInv

\* Handler j is where it was, or between two awaits of the registration that do
\* not write the row, or over without anything left to do.
LEMMA SameStatus ==
    ASSUME LinkInv, StatusInv, NEW j \in Jobs,
           UNCHANGED <<client, socket, harmed, misled, revoked, status, shown>>,
           \A i \in Jobs \ {j} : job'[i] = job[i],
           SessionsHeld',
           \/ job[j].pc = "auth" /\ job'[j].pc = "idle"
           \/ job[j].pc = "offline" /\ job'[j].pc = "idle" /\ ~job[j].ok
           \/ job[j].pc = "ended" /\ job'[j].pc = "idle" /\ AgentThere(D(j))
           \/ /\ job[j].pc \in {"online", "sessions"}
              /\ job'[j].pc \in {"sessions", "created"}
              /\ job'[j].device = job[j].device
              /\ job'[j].socket = job[j].socket
    PROVE  StatusInv'
<1>. DEFINE A == {"online", "sessions", "created", "ended", "offline"}
            B == {"ended", "offline", "marked"}
<1>1. OfflineRead'
  BY DEF StatusInv, OfflineRead, At, D
<1>2. SocketHeld'
  BY DEF StatusInv, SocketHeld, At, D, Live, Registering
<1>3. ASSUME NEW d \in Devices, ~revoked[d], ~AgentThere(d)
      PROVE  /\ AtWork(d, A) => AtWork(d, A)'
             /\ AtWork(d, B) => AtWork(d, B)'
  <2>1. job[j].pc = "offline" => job[j].ok \/ job[j].device # d
    BY <1>3 DEF StatusInv, OfflineRead, At, D
  <2>2. \/ job[j].pc \notin A
        \/ job[j].device # d
        \/ job'[j].pc \in A /\ job'[j].device = d
    BY <1>3, <2>1 DEF D
  <2>3. \/ job[j].pc \notin B
        \/ job[j].device # d
    BY <1>3, <2>1 DEF D
  <2>. HIDE DEF A, B
  <2>. QED
    BY <2>2, <2>3, StillAtWork
<1>4. \A d \in Devices \ harmed : ~revoked[d] /\ status[d] = "ONLINE" =>
         AgentThere(d) \/ AtWork(d, A)
  BY DEF StatusInv, OnlineHasReason
<1>5. \A d \in Devices \ misled : ~revoked[d] /\ shown[d] = "ONLINE" =>
         AgentThere(d) \/ AtWork(d, B)
  BY DEF StatusInv, ShownHasReason
<1>6. \A d \in Devices : d \notin harmed /\ ~revoked[d] /\ status'[d] = "ONLINE" =>
         AgentThere(d) \/ AtWork(d, A)'
  BY <1>3, <1>4
<1>7. \A d \in Devices : d \notin misled /\ ~revoked[d] /\ shown'[d] = "ONLINE" =>
         AgentThere(d) \/ AtWork(d, B)'
  BY <1>3, <1>5
<1>. QED
  BY <1>1, <1>2, <1>6, <1>7, HandlerStep

------------------------------------------------------------------------------
\* The steps of the handlers.

\* Sessions that stay as they are keep what holds them, when no handler leaves
\* "created" and the sockets are left alone.
LEMMA SessionsKept ==
    ASSUME LinkInv, StatusInv, NEW j \in Jobs,
           UNCHANGED <<client, socket, harmed>>,
           sessions' \subseteq sessions,
           \A i \in Jobs \ {j} : job'[i] = job[i],
           job[j].pc # "created"
    PROVE  SessionsHeld'
<1>. SUFFICES ASSUME NEW x \in sessions
              PROVE  /\ x.device = Agent[x.socket]
                     /\ x.device \notin harmed => SessionHeld(x)'
  BY DEF SessionsHeld
<1>1. /\ x.device = Agent[x.socket]
      /\ x.device \notin harmed => SessionHeld(x)
  BY DEF StatusInv, SessionsHeld
<1>2. SessionHeld(x) => SessionHeld(x)'
  BY DEF SessionHeld, At, Live
<1>. QED
  BY <1>1, <1>2

\* A registration that is refused, a disconnection that leaves the row alone,
\* and the two queries of createDeviceSession.
LEMMA PlainActions ==
    ASSUME LinkInv, StatusInv, NEW j \in Jobs,
           \/ AuthFailed(j) \/ StillOnline(j) \/ CloseSessions(j)
           \/ CreateSession(j)
           \/ MarkOffline(j) /\ ~job[j].ok
    PROVE  StatusInv'
<1>. USE DEF rows, registry, dashboard
<1>1. CASE AuthFailed(j)
  BY <1>1, ReturnTypes, SessionsKept, SameStatus DEF AuthFailed, At
<1>2. CASE StillOnline(j)
  <2>1. AgentThere(D(j))
    <3>1. D(j) \in Devices
      BY <1>2, RunningJob DEF StillOnline, LinkInv, At, PC, D, Running
    <3>. QED
      BY <1>2, <3>1
      DEF StillOnline, IsDeviceOnline, AgentThere, LinkInv, RegistryAgrees, TypeOK
  <2>. QED
    BY <1>2, <2>1, ReturnTypes, SessionsKept, SameStatus DEF StillOnline, At
<1>3. CASE CloseSessions(j)
  <2>1. /\ job'[j].pc = "sessions"
        /\ job'[j].device = job[j].device
        /\ job'[j].socket = job[j].socket
        /\ \A i \in Jobs \ {j} : job'[i] = job[i]
    BY <1>3, AwaitTypes DEF CloseSessions, PC, At
  <2>2. SessionsHeld'
    BY <1>3, <2>1, SessionsKept DEF CloseSessions, At
  <2>. QED
    BY <1>3, <2>1, <2>2, SameStatus DEF CloseSessions, At
<1>4. CASE CreateSession(j)
  <2>0. PICK x : x = [socket |-> job[j].socket, device |-> D(j)]
    OBVIOUS
  <2>1. /\ job'[j].pc = "created"
        /\ job'[j].device = job[j].device
        /\ job'[j].socket = job[j].socket
        /\ \A i \in Jobs \ {j} : job'[i] = job[i]
    BY <1>4, AwaitTypes DEF CreateSession, PC, At
  <2>2. /\ x.socket = job[j].socket /\ x.device = D(j)
        /\ sessions' = sessions \cup {x}
    BY <1>4, <2>0 DEF CreateSession
  <2>3. D(j) = Agent[job[j].socket] /\ (D(j) \notin harmed => Live(job[j].socket))
    BY <1>4 DEF CreateSession, LinkInv, RegistryAgrees, StatusInv, SocketHeld, At,
                Registering
  <2>4. x.device \notin harmed => SessionHeld(x)'
    BY <1>4, <2>1, <2>2, <2>3 DEF CreateSession, SessionHeld, At, Live
  <2>5. \A y \in sessions : y.device \notin harmed => SessionHeld(y)'
    BY <1>4, <2>1 DEF CreateSession, StatusInv, SessionsHeld, SessionHeld, At, Live
  <2>6. SessionsHeld'
    BY <1>4, <2>2, <2>3, <2>4, <2>5 DEF CreateSession, SessionsHeld, StatusInv
  <2>. QED
    BY <1>4, <2>1, <2>6, SameStatus DEF CreateSession, At
<1>5. CASE MarkOffline(j) /\ ~job[j].ok
  BY <1>5, ReturnTypes, SessionsKept, SameStatus DEF MarkOffline, At
<1>. QED
  BY <1>1, <1>2, <1>3, <1>4, <1>5

\* markOnline writes the row, and the registration goes on.
LEMMA MarkOnlineStatus ==
    ASSUME LinkInv, StatusInv, NEW j \in Jobs, MarkOnline(j)
    PROVE  StatusInv'
<1>. DEFINE A == {"online", "sessions", "created", "ended", "offline"}
            B == {"ended", "offline", "marked"}
<1>1. /\ job[j].pc = "auth" /\ job'[j].pc = "online"
      /\ job'[j].device = job[j].device
      /\ job'[j].socket = job[j].socket
      /\ \A i \in Jobs \ {j} : job'[i] = job[i]
      /\ UNCHANGED <<client, socket, harmed, misled, revoked, sessions, shown>>
      /\ status' = [status EXCEPT ![D(j)] = "ONLINE"]
  BY AwaitTypes
  DEF MarkOnline, PC, At, SetStatus, rows, registry, dashboard
<1>2. OfflineRead' /\ SocketHeld'
  BY <1>1 DEF StatusInv, OfflineRead, SocketHeld, At, D, Live, Registering
<1>3. SessionsHeld'
  BY <1>1, SessionsKept
<1>4. status \in [Devices -> ConnectionStatus]
  BY DEF LinkInv, TypeOK
<1>5. ASSUME NEW d \in Devices \ harmed, ~revoked[d], status'[d] = "ONLINE"
      PROVE  AgentThere(d) \/ AtWork(d, A)'
  <2>1. CASE d = D(j)
    BY <1>1, <2>1 DEF AtWork, D
  <2>2. CASE d # D(j)
    <3>1. AgentThere(d) \/ AtWork(d, A)
      BY <1>1, <1>4, <1>5, <2>2 DEF StatusInv, OnlineHasReason
    <3>2. job[j].device # d
      BY <2>2 DEF D
    <3>. HIDE DEF A
    <3>. QED
      BY <1>1, <3>1, <3>2, StillAtWork
  <2>. QED
    BY <2>1, <2>2
<1>6. ASSUME NEW d \in Devices \ misled, ~revoked[d], shown'[d] = "ONLINE"
      PROVE  AgentThere(d) \/ AtWork(d, B)'
  <2>1. AgentThere(d) \/ AtWork(d, B)
    BY <1>1, <1>6 DEF StatusInv, ShownHasReason
  <2>2. job[j].pc \notin B
    BY <1>1
  <2>. HIDE DEF B
  <2>. QED
    BY <1>1, <2>1, <2>2, StillAtWork
<1>. QED
  BY <1>1, <1>2, <1>3, <1>5, <1>6, HandlerStep

\* The dashboard is shown ONLINE while the socket that was registered is there.
LEMMA ShowOnlineStatus ==
    ASSUME LinkInv, StatusInv, NEW j \in Jobs, ShowOnline(j)
    PROVE  StatusInv'
<1>. DEFINE A == {"online", "sessions", "created", "ended", "offline"}
            B == {"ended", "offline", "marked"}
<1>1. /\ job[j].pc = "event" /\ job'[j].pc = "idle"
      /\ \A i \in Jobs \ {j} : job'[i] = job[i]
      /\ UNCHANGED <<client, socket, harmed, misled, revoked, sessions, status>>
      /\ shown' = [shown EXCEPT ![D(j)] = "ONLINE"]
  BY ReturnTypes DEF ShowOnline, At, Show, rows, registry
<1>2. OfflineRead' /\ SocketHeld'
  BY <1>1 DEF StatusInv, OfflineRead, SocketHeld, At, D, Live, Registering
<1>3. SessionsHeld'
  BY <1>1, SessionsKept
<1>4. shown \in [Devices -> {"ONLINE", "OFFLINE"}]
  BY DEF LinkInv, TypeOK
<1>5. ASSUME NEW d \in Devices \ harmed, ~revoked[d], status'[d] = "ONLINE"
      PROVE  AgentThere(d) \/ AtWork(d, A)'
  <2>1. AgentThere(d) \/ AtWork(d, A)
    BY <1>1, <1>5 DEF StatusInv, OnlineHasReason
  <2>2. job[j].pc \notin A
    BY <1>1
  <2>. HIDE DEF A
  <2>. QED
    BY <1>1, <2>1, <2>2, StillAtWork
<1>6. ASSUME NEW d \in Devices \ misled, ~revoked[d], shown'[d] = "ONLINE"
      PROVE  AgentThere(d) \/ AtWork(d, B)'
  <2>1. CASE d = D(j)
    <3>1. Live(job[j].socket) /\ client[job[j].socket] = D(j)
      BY <1>1, <1>6, <2>1 DEF StatusInv, SocketHeld, At
    <3>2. job[j] \in Running
      BY <1>1, RunningJob DEF LinkInv, PC
    <3>. QED
      BY <2>1, <3>1, <3>2 DEF AgentThere, Running
  <2>2. CASE d # D(j)
    <3>1. AgentThere(d) \/ AtWork(d, B)
      BY <1>1, <1>4, <1>6, <2>2 DEF StatusInv, ShownHasReason
    <3>2. job[j].pc \notin B
      BY <1>1
    <3>. HIDE DEF B
    <3>. QED
      BY <1>1, <3>1, <3>2, StillAtWork
  <2>. QED
    BY <2>1, <2>2
<1>. QED
  BY <1>1, <1>2, <1>3, <1>5, <1>6, HandlerStep

\* markOffline reads the row: it will write it, or the device is revoked.
LEMMA NotOnlineStatus ==
    ASSUME LinkInv, StatusInv, NEW j \in Jobs, NotOnline(j)
    PROVE  StatusInv'
<1>. DEFINE A == {"online", "sessions", "created", "ended", "offline"}
            B == {"ended", "offline", "marked"}
<1>1. /\ job[j].pc = "ended" /\ job[j] \in Running
      /\ UNCHANGED <<client, socket, harmed, misled, revoked, sessions, status,
                     shown>>
  BY RunningJob DEF NotOnline, At, rows, registry, dashboard, LinkInv, PC
<1>2. /\ job'[j].pc = "offline" /\ job'[j].ok = ~revoked[D(j)]
      /\ job'[j].device = job[j].device
      /\ \A i \in Jobs \ {j} : job'[i] = job[i]
  BY <1>1 DEF NotOnline, LinkInv, TypeOK, Running
<1>3. OfflineRead' /\ SocketHeld'
  BY <1>1, <1>2 DEF StatusInv, OfflineRead, SocketHeld, At, D, Live, Registering
<1>4. SessionsHeld'
  BY <1>1, <1>2, SessionsKept
<1>5. ASSUME NEW d \in Devices \ harmed, ~revoked[d], status'[d] = "ONLINE"
      PROVE  AgentThere(d) \/ AtWork(d, A)'
  <2>1. AgentThere(d) \/ AtWork(d, A)
    BY <1>1, <1>5 DEF StatusInv, OnlineHasReason
  <2>2. job'[j].pc \in A
    BY <1>2
  <2>. HIDE DEF A
  <2>. QED
    BY <1>1, <1>2, <2>1, <2>2, StillAtWork
<1>6. ASSUME NEW d \in Devices \ misled, ~revoked[d], shown'[d] = "ONLINE"
      PROVE  AgentThere(d) \/ AtWork(d, B)'
  <2>1. AgentThere(d) \/ AtWork(d, B)
    BY <1>1, <1>6 DEF StatusInv, ShownHasReason
  <2>2. job'[j].pc \in B
    BY <1>2
  <2>. HIDE DEF B
  <2>. QED
    BY <1>1, <1>2, <2>1, <2>2, StillAtWork
<1>. QED
  BY <1>1, <1>2, <1>3, <1>4, <1>5, <1>6, HandlerStep

\* markOffline writes the row; the dashboard is told next.
LEMMA MarkOfflineStatus ==
    ASSUME LinkInv, StatusInv, NEW j \in Jobs, MarkOffline(j), job[j].ok
    PROVE  StatusInv'
<1>. DEFINE A == {"online", "sessions", "created", "ended", "offline"}
            B == {"ended", "offline", "marked"}
<1>1. /\ job[j].pc = "offline" /\ job'[j].pc = "marked"
      /\ job'[j].device = job[j].device
      /\ \A i \in Jobs \ {j} : job'[i] = job[i]
      /\ UNCHANGED <<client, socket, harmed, misled, revoked, sessions, shown>>
      /\ status' = [status EXCEPT ![D(j)] = "OFFLINE"]
  BY AwaitTypes
  DEF MarkOffline, At, PC, SetStatus, rows, registry, dashboard
<1>2. OfflineRead' /\ SocketHeld'
  BY <1>1 DEF StatusInv, OfflineRead, SocketHeld, At, D, Live, Registering
<1>3. SessionsHeld'
  BY <1>1, SessionsKept
<1>4. status \in [Devices -> ConnectionStatus]
  BY DEF LinkInv, TypeOK
<1>5. ASSUME NEW d \in Devices \ harmed, ~revoked[d], status'[d] = "ONLINE"
      PROVE  AgentThere(d) \/ AtWork(d, A)'
  <2>1. d # job[j].device /\ status[d] = "ONLINE"
    BY <1>1, <1>4, <1>5 DEF D
  <2>2. AgentThere(d) \/ AtWork(d, A)
    BY <1>1, <1>5, <2>1 DEF StatusInv, OnlineHasReason
  <2>. HIDE DEF A
  <2>. QED
    BY <1>1, <2>1, <2>2, StillAtWork
<1>6. ASSUME NEW d \in Devices \ misled, ~revoked[d], shown'[d] = "ONLINE"
      PROVE  AgentThere(d) \/ AtWork(d, B)'
  <2>1. AgentThere(d) \/ AtWork(d, B)
    BY <1>1, <1>6 DEF StatusInv, ShownHasReason
  <2>2. job'[j].pc \in B
    BY <1>1
  <2>. HIDE DEF B
  <2>. QED
    BY <1>1, <2>1, <2>2, StillAtWork
<1>. QED
  BY <1>1, <1>2, <1>3, <1>5, <1>6, HandlerStep

\* The dashboard is shown OFFLINE.
LEMMA ShowOfflineStatus ==
    ASSUME LinkInv, StatusInv, NEW j \in Jobs, ShowOffline(j)
    PROVE  StatusInv'
<1>. DEFINE A == {"online", "sessions", "created", "ended", "offline"}
            B == {"ended", "offline", "marked"}
<1>1. /\ job[j].pc = "marked" /\ job'[j].pc = "idle"
      /\ \A i \in Jobs \ {j} : job'[i] = job[i]
      /\ UNCHANGED <<client, socket, harmed, misled, revoked, sessions, status>>
      /\ shown' = [shown EXCEPT ![D(j)] = "OFFLINE"]
  BY ReturnTypes DEF ShowOffline, At, Show, rows, registry
<1>2. OfflineRead' /\ SocketHeld'
  BY <1>1 DEF StatusInv, OfflineRead, SocketHeld, At, D, Live, Registering
<1>3. SessionsHeld'
  BY <1>1, SessionsKept
<1>4. shown \in [Devices -> {"ONLINE", "OFFLINE"}]
  BY DEF LinkInv, TypeOK
<1>5. ASSUME NEW d \in Devices \ harmed, ~revoked[d], status'[d] = "ONLINE"
      PROVE  AgentThere(d) \/ AtWork(d, A)'
  <2>1. AgentThere(d) \/ AtWork(d, A)
    BY <1>1, <1>5 DEF StatusInv, OnlineHasReason
  <2>2. job[j].pc \notin A
    BY <1>1
  <2>. HIDE DEF A
  <2>. QED
    BY <1>1, <2>1, <2>2, StillAtWork
<1>6. ASSUME NEW d \in Devices \ misled, ~revoked[d], shown'[d] = "ONLINE"
      PROVE  AgentThere(d) \/ AtWork(d, B)'
  <2>1. d # job[j].device /\ shown[d] = "ONLINE"
    BY <1>1, <1>4, <1>6 DEF D
  <2>2. AgentThere(d) \/ AtWork(d, B)
    BY <1>1, <1>6, <2>1 DEF StatusInv, ShownHasReason
  <2>. HIDE DEF B
  <2>. QED
    BY <1>1, <2>1, <2>2, StillAtWork
<1>. QED
  BY <1>1, <1>2, <1>3, <1>5, <1>6, HandlerStep

\* register: the agent is there, unless its socket went down meanwhile.
LEMMA RegisterStatus ==
    ASSUME LinkInv, StatusInv, NEW j \in Jobs, Register(j)
    PROVE  StatusInv'
<1>. DEFINE A == {"online", "sessions", "created", "ended", "offline"}
            B == {"ended", "offline", "marked"}
<1>1. /\ job[j].pc = "created" /\ job'[j].pc = "event"
      /\ job'[j].device = job[j].device
      /\ job'[j].socket = job[j].socket
      /\ \A i \in Jobs \ {j} : job'[i] = job[i]
      /\ UNCHANGED <<socket, harmed, misled, revoked, sessions, status, shown>>
      /\ client' = [client EXCEPT ![job[j].socket] = D(j)]
  BY AwaitTypes DEF Register, At, PC, rows, dashboard
<1>2. /\ job[j] \in Running
      /\ D(j) = Agent[job[j].socket]
      /\ client \in [Sockets -> Devices \cup {None}]
      /\ \A s \in Sockets : client[s] \in {None, Agent[s]}
  BY <1>1, RunningJob DEF LinkInv, RegistryAgrees, TypeOK, At, PC
<1>3. job[j].socket \in Sockets /\ D(j) \in Devices
  BY <1>2 DEF Running, D
<1>4. \A s \in Sockets, d \in Devices : client[s] = d => client'[s] = d
  BY <1>1, <1>2, <1>3, DeviceLinkAssumption
<1>5. D(j) \notin harmed => Live(job[j].socket)
  BY <1>1 DEF StatusInv, SocketHeld, Registering
<1>6. harmed \subseteq misled
  BY DEF StatusInv
<1>7. OfflineRead'
  BY <1>1 DEF StatusInv, OfflineRead, At, D
<1>8. SocketHeld'
  <2>1. \A i \in Jobs : job'[i].pc \in Registering /\ D(i)' \notin harmed'
                           => socket[job'[i].socket] = "open"
    BY <1>1 DEF StatusInv, SocketHeld, D, Live, Registering
  <2>2. ASSUME NEW i \in Jobs, job'[i].pc = "event", job'[i].device \notin misled
        PROVE  /\ socket[job'[i].socket] = "open"
               /\ client'[job'[i].socket] = job'[i].device
    <3>1. CASE i = j
      BY <1>1, <1>2, <1>3, <1>5, <1>6, <2>2, <3>1 DEF Live, D
    <3>2. CASE i # j
      <4>1. Live(job[i].socket) /\ client[job[i].socket] = job[i].device
        BY <1>1, <2>2, <3>2 DEF StatusInv, SocketHeld, At, D
      <4>2. job[i] \in Running
        BY <1>1, <2>2, <3>2, RunningJob DEF LinkInv, PC
      <4>. QED
        BY <1>1, <1>4, <3>2, <4>1, <4>2 DEF Live, Running
    <3>. QED
      BY <3>1, <3>2
  <2>. QED
    BY <1>1, <2>1, <2>2 DEF SocketHeld, At, D, Live
<1>9. SessionsHeld'
  <2>. SUFFICES ASSUME NEW x \in sessions
                PROVE  /\ x.device = Agent[x.socket]
                       /\ x.device \notin harmed => SessionHeld(x)'
    BY <1>1 DEF SessionsHeld
  <2>1. /\ x.device = Agent[x.socket]
        /\ x.device \notin harmed => SessionHeld(x)
    BY DEF StatusInv, SessionsHeld
  <2>2. x.socket \in Sockets /\ x.device \in Devices
    BY DEF LinkInv, TypeOK, Session
  <2>3. CASE x.socket = job[j].socket
    BY <1>1, <1>2, <1>3, <2>1, <2>3 DEF SessionHeld, Live
  <2>4. CASE x.socket # job[j].socket
    BY <1>1, <1>4, <2>1, <2>2, <2>4 DEF SessionHeld, Live, At
  <2>. QED
    BY <2>1, <2>3, <2>4
<1>10. \A d \in Devices : AgentThere(d) => AgentThere(d)'
  BY <1>1, <1>4 DEF AgentThere, Live
<1>11. \A d \in Devices \ harmed : d = D(j) => AgentThere(d)'
  BY <1>1, <1>2, <1>3, <1>5 DEF AgentThere, Live
<1>12. ASSUME NEW d \in Devices \ harmed, ~revoked[d], status[d] = "ONLINE"
       PROVE  AgentThere(d)' \/ AtWork(d, A)'
  <2>1. CASE d = D(j)
    BY <1>11, <1>12, <2>1
  <2>2. CASE d # D(j)
    <3>1. AgentThere(d) \/ AtWork(d, A)
      BY <1>12 DEF StatusInv, OnlineHasReason
    <3>2. job[j].device # d
      BY <2>2 DEF D
    <3>. HIDE DEF A
    <3>. QED
      BY <1>1, <1>10, <3>1, <3>2, StillAtWork
  <2>. QED
    BY <2>1, <2>2
<1>13. ASSUME NEW d \in Devices \ misled, ~revoked[d], shown[d] = "ONLINE"
       PROVE  AgentThere(d)' \/ AtWork(d, B)'
  <2>1. AgentThere(d) \/ AtWork(d, B)
    BY <1>13 DEF StatusInv, ShownHasReason
  <2>2. job[j].pc \notin B
    BY <1>1
  <2>. HIDE DEF B
  <2>. QED
    BY <1>1, <1>10, <2>1, <2>2, StillAtWork
<1>14. OnlineHasReason' /\ ShownHasReason'
  BY <1>1, <1>12, <1>13 DEF OnlineHasReason, ShownHasReason
<1>. QED
  BY <1>1, <1>6, <1>7, <1>8, <1>9, <1>14 DEF StatusInv

------------------------------------------------------------------------------
\* The other steps.

\* A socket is opened.
LEMMA ConnectStatus ==
    ASSUME LinkInv, StatusInv, NEW s \in Sockets, Connect(s)
    PROVE  StatusInv'
<1>1. /\ socket[s] = "new" /\ socket' = [socket EXCEPT ![s] = "open"]
      /\ UNCHANGED <<client, job, harmed, misled, revoked, sessions, status,
                     shown>>
  BY DEF Connect, rows, registry, dashboard
<1>2. \A r \in Sockets : Live(r) => Live(r)'
  BY <1>1 DEF Live, LinkInv, TypeOK
<1>3. OfflineRead' /\ harmed' \subseteq misled'
  BY <1>1 DEF StatusInv, OfflineRead, At, D
<1>4. SocketHeld'
  <2>1. \A j \in Jobs : job[j].pc \in Registering \cup {"event"}
                           => job[j].socket \in Sockets
    BY RunningJob DEF LinkInv, Registering, PC, Running
  <2>. QED
    BY <1>1, <1>2, <2>1 DEF StatusInv, SocketHeld, At, D, Live
<1>5. SessionsHeld'
  <2>1. \A x \in sessions : x.socket \in Sockets
    BY DEF LinkInv, TypeOK, Session
  <2>2. ASSUME NEW x \in sessions, SessionHeld(x)
        PROVE  SessionHeld(x)'
    BY <1>1, <1>2, <2>1, <2>2 DEF SessionHeld, At
  <2>. QED
    BY <1>1, <2>2 DEF StatusInv, SessionsHeld
<1>6. \A d \in Devices : AgentThere(d) => AgentThere(d)'
  BY <1>1, <1>2 DEF AgentThere
<1>7. OnlineHasReason' /\ ShownHasReason'
  BY <1>1, <1>6 DEF StatusInv, OnlineHasReason, ShownHasReason, AtWork
<1>. QED
  BY <1>3, <1>4, <1>5, <1>7 DEF StatusInv

\* An agent asks to be registered on a socket that is connected.
LEMMA RegisterDeviceStatus ==
    ASSUME LinkInv, StatusInv, NEW s \in Sockets, NEW j \in Jobs,
           NEW ok \in BOOLEAN, RegisterDevice(j, s, ok)
    PROVE  StatusInv'
<1>. DEFINE A == {"online", "sessions", "created", "ended", "offline"}
            B == {"ended", "offline", "marked"}
<1>1. /\ job[j].pc = "idle" /\ socket[s] = "open"
      /\ job'[j].pc = "auth" /\ job'[j].socket = s
      /\ \A i \in Jobs \ {j} : job'[i] = job[i]
      /\ UNCHANGED <<client, socket, harmed, misled, revoked, sessions, status,
                     shown>>
  BY DEF RegisterDevice, Live, At, rows, registry, dashboard, LinkInv, TypeOK
<1>2. OfflineRead' /\ SocketHeld'
  BY <1>1 DEF StatusInv, OfflineRead, SocketHeld, At, D, Live
<1>3. SessionsHeld'
  BY <1>1, SessionsKept
<1>4. job[j].pc \notin A /\ job[j].pc \notin B
  BY <1>1
<1>5. ASSUME NEW d \in Devices \ harmed, ~revoked[d], status'[d] = "ONLINE"
      PROVE  AgentThere(d) \/ AtWork(d, A)'
  <2>1. AgentThere(d) \/ AtWork(d, A)
    BY <1>1, <1>5 DEF StatusInv, OnlineHasReason
  <2>. HIDE DEF A
  <2>. QED
    BY <1>1, <1>4, <2>1, StillAtWork
<1>6. ASSUME NEW d \in Devices \ misled, ~revoked[d], shown'[d] = "ONLINE"
      PROVE  AgentThere(d) \/ AtWork(d, B)'
  <2>1. AgentThere(d) \/ AtWork(d, B)
    BY <1>1, <1>6 DEF StatusInv, ShownHasReason
  <2>. HIDE DEF B
  <2>. QED
    BY <1>1, <1>4, <2>1, StillAtWork
<1>. QED
  BY <1>1, <1>2, <1>3, <1>5, <1>6, HandlerStep

\* A socket goes down.  A handler of handleDisconnect takes over from a client;
\* what was registering on the socket is harmed.
LEMMA DisconnectStatus ==
    ASSUME LinkInv, StatusInv, NEW s \in Sockets, NEW j \in Jobs, Disconnect(j, s)
    PROVE  StatusInv'
<1>. DEFINE A == {"online", "sessions", "created", "ended", "offline"}
            B == {"ended", "offline", "marked"}
<1>1. /\ socket[s] = "open" /\ socket' = [socket EXCEPT ![s] = "closed"]
      /\ harmed' = harmed \cup {d \in {Agent[s]} : InFlight(s, Registering)}
      /\ misled' = misled \cup
                     {d \in {Agent[s]} : InFlight(s, Registering \cup {"event"})}
      /\ UNCHANGED <<revoked, status, shown>>
  BY DEF Disconnect, Live
<1>2. /\ client \in [Sockets -> Devices \cup {None}]
      /\ socket \in [Sockets -> {"new", "open", "closed"}]
      /\ job \in [Jobs -> Running \cup {Idle}]
      /\ sessions \subseteq Session
      /\ \A r \in Sockets : client[r] \in {None, Agent[r]}
      /\ \A i \in Jobs : job[i].pc # "idle" => job[i].device = Agent[job[i].socket]
  BY DEF LinkInv, TypeOK, RegistryAgrees, At, D
<1>3. \/ UNCHANGED <<client, sessions, job>> /\ client[s] = None
      \/ /\ client' = [client EXCEPT ![s] = None] /\ client[s] # None
         /\ sessions' = {x \in sessions : x.socket # s}
         /\ job[j].pc = "idle" /\ job'[j].pc = "ended"
         /\ job'[j].device = client[s] /\ job'[j].socket = s
         /\ \A i \in Jobs \ {j} : job'[i] = job[i]
  BY <1>2 DEF Disconnect, Close, Unregister, EndBySocketId, At
<1>. HIDE DEF A, B
<1>4. harmed' \subseteq misled'
  BY <1>1 DEF StatusInv, InFlight
<1>5. harmed \subseteq harmed' /\ misled \subseteq misled'
  BY <1>1
<1>6. OfflineRead'
  BY <1>1, <1>3 DEF StatusInv, OfflineRead, At, D
<1>7. \A i \in Jobs : /\ job[i].pc \in Registering /\ job[i].socket = s
                           => Agent[s] \in harmed'
                      /\ job[i].pc = "event" /\ job[i].socket = s
                           => Agent[s] \in misled'
  BY <1>1 DEF InFlight
<1>8. SocketHeld'
  <2>1. \A i \in Jobs : job'[i].pc \in Registering \cup {"event"}
                           => job'[i] = job[i] /\ job[i].socket \in Sockets
    BY <1>3, RunningJob DEF LinkInv, Registering, PC, Running
  <2>2. ASSUME NEW i \in Jobs, job'[i].pc \in Registering,
               job'[i].device \notin harmed'
        PROVE  socket'[job'[i].socket] = "open"
    <3>1. socket[job[i].socket] = "open" /\ job[i].socket \in Sockets
      BY <1>5, <2>1, <2>2 DEF StatusInv, SocketHeld, Live, D
    <3>2. job[i].socket # s
      BY <1>2, <1>7, <2>1, <2>2 DEF Registering
    <3>. QED
      BY <1>1, <1>2, <2>1, <2>2, <3>1, <3>2
  <2>3. ASSUME NEW i \in Jobs, job'[i].pc = "event", job'[i].device \notin misled'
        PROVE  /\ socket'[job'[i].socket] = "open"
               /\ client'[job'[i].socket] = job'[i].device
    <3>1. /\ socket[job[i].socket] = "open" /\ job[i].socket \in Sockets
          /\ client[job[i].socket] = job[i].device
      BY <1>5, <2>1, <2>3 DEF StatusInv, SocketHeld, Live, At, D
    <3>2. job[i].socket # s
      BY <1>2, <1>7, <2>1, <2>3
    <3>. QED
      BY <1>1, <1>2, <1>3, <2>1, <2>3, <3>1, <3>2
  <2>. QED
    BY <2>2, <2>3 DEF SocketHeld, At, D, Live
<1>9. SessionsHeld'
  <2>. SUFFICES ASSUME NEW x \in sessions, x \in sessions'
                PROVE  /\ x.device = Agent[x.socket]
                       /\ x.device \notin harmed' => SessionHeld(x)'
    BY <1>3 DEF SessionsHeld
  <2>1. /\ x.device = Agent[x.socket]
        /\ x.device \notin harmed => SessionHeld(x)
    BY DEF StatusInv, SessionsHeld
  <2>2. x.socket \in Sockets /\ x.device \in Devices
    BY <1>2 DEF Session
  <2>. SUFFICES ASSUME x.device \notin harmed', SessionHeld(x)
                PROVE  SessionHeld(x)'
    BY <1>5, <2>1
  <2>3. x.socket # s
    <3>1. CASE client[s] = None
      <4>. SUFFICES ASSUME x.socket = s PROVE FALSE
        OBVIOUS
      <4>1. PICK i \in Jobs : job[i].pc = "created" /\ job[i].socket = s
        BY <2>2, <3>1, DeviceLinkAssumption DEF SessionHeld, At
      <4>. QED
        BY <1>7, <2>1, <4>1 DEF Registering
    <3>2. CASE client[s] # None
      BY <1>3, <3>2
    <3>. QED
      BY <3>1, <3>2
  <2>4. socket'[x.socket] = "open" /\ client'[x.socket] = client[x.socket]
    BY <1>1, <1>2, <1>3, <2>2, <2>3 DEF SessionHeld, Live
  <2>5. \A i \in Jobs : job[i].pc = "created" => job'[i] = job[i]
    BY <1>3
  <2>. QED
    BY <2>4, <2>5 DEF SessionHeld, Live, At
<1>10. ASSUME NEW d \in Devices, AgentThere(d), ~AgentThere(d)'
       PROVE  AtWork(d, {"ended"})'
  <2>1. PICK r \in Sockets : socket[r] = "open" /\ client[r] = d
    BY <1>10 DEF AgentThere, Live
  <2>2. r = s
    <3>. SUFFICES ASSUME r # s PROVE FALSE
      OBVIOUS
    <3>1. socket'[r] = "open" /\ client'[r] = d
      BY <1>1, <1>2, <1>3, <2>1
    <3>. QED
      BY <1>10, <3>1 DEF AgentThere, Live
  <2>3. client[s] # None
    BY <2>1, <2>2, DeviceLinkAssumption
  <2>. QED
    BY <1>3, <2>1, <2>2, <2>3 DEF AtWork
<1>11. ASSUME NEW d \in Devices, NEW C, AtWork(d, C), "idle" \notin C
       PROVE  AtWork(d, C)'
  <2>1. CASE job' = job
    BY <1>11, <2>1 DEF AtWork
  <2>2. CASE job[j].pc = "idle" /\ \A i \in Jobs \ {j} : job'[i] = job[i]
    BY <1>11, <2>2, StillAtWork
  <2>. QED
    BY <1>3, <2>1, <2>2
<1>12. "idle" \notin A /\ "idle" \notin B /\ "ended" \in A /\ "ended" \in B
  BY DEF A, B
<1>13. \A d \in Devices : AtWork(d, {"ended"})' => AtWork(d, A)' /\ AtWork(d, B)'
  BY <1>12 DEF AtWork
<1>14. OnlineHasReason'
  <2>1. \A d \in Devices \ harmed' : ~revoked[d] /\ status[d] = "ONLINE" =>
           AgentThere(d) \/ AtWork(d, A)
    BY <1>5 DEF StatusInv, OnlineHasReason, A
  <2>2. \A d \in Devices \ harmed' : ~revoked[d] /\ status[d] = "ONLINE" =>
           AgentThere(d)' \/ AtWork(d, A)'
    BY <1>10, <1>11, <1>12, <1>13, <2>1
  <2>. QED
    BY <1>1, <2>2 DEF OnlineHasReason, A
<1>15. ShownHasReason'
  <2>1. \A d \in Devices \ misled' : ~revoked[d] /\ shown[d] = "ONLINE" =>
           AgentThere(d) \/ AtWork(d, B)
    BY <1>5 DEF StatusInv, ShownHasReason, B
  <2>2. \A d \in Devices \ misled' : ~revoked[d] /\ shown[d] = "ONLINE" =>
           AgentThere(d)' \/ AtWork(d, B)'
    BY <1>10, <1>11, <1>12, <1>13, <2>1
  <2>. QED
    BY <1>1, <2>2 DEF ShownHasReason, B
<1>. QED
  BY <1>4, <1>6, <1>8, <1>9, <1>14, <1>15 DEF StatusInv

\* revoke and regenerateToken take the device off ONLINE.
LEMMA DashboardStatus ==
    ASSUME LinkInv, StatusInv, NEW e \in Devices, Revoke(e) \/ RegenerateToken(e)
    PROVE  StatusInv'
<1>1. /\ UNCHANGED <<client, socket, job, harmed, misled, sessions, shown>>
      /\ \A d \in Devices : status'[d] = "ONLINE" => status[d] = "ONLINE"
      /\ \A d \in Devices : revoked[d] => revoked'[d]
  BY DEF Revoke, RegenerateToken, SetStatus, registry, dashboard, LinkInv, TypeOK,
         ConnectionStatus
<1>2. OfflineRead'
  <2>1. \A j \in Jobs : At(j, "offline") => D(j) \in Devices
    BY RunningJob DEF LinkInv, At, D, PC, Running
  <2>. QED
    BY <1>1, <2>1 DEF StatusInv, OfflineRead, At, D
<1>3. /\ harmed' \subseteq misled' /\ SocketHeld' /\ SessionsHeld'
  BY <1>1 DEF StatusInv, SocketHeld, SessionsHeld, SessionHeld, At, D, Live
<1>4. \A d \in Devices : AgentThere(d) => AgentThere(d)'
  BY <1>1 DEF AgentThere, Live
<1>5. OnlineHasReason' /\ ShownHasReason'
  BY <1>1, <1>4 DEF StatusInv, OnlineHasReason, ShownHasReason, AtWork
<1>. QED
  BY <1>2, <1>3, <1>5 DEF StatusInv

\* A handler whose await is rejected harms its own device only.
LEMMA RejectStatus ==
    ASSUME LinkInv, StatusInv, NEW j \in Jobs, Reject(j)
    PROVE  StatusInv'
<1>. DEFINE A == {"online", "sessions", "created", "ended", "offline"}
            B == {"ended", "offline", "marked"}
<1>1. /\ UNCHANGED <<client, socket, revoked, sessions, status, shown>>
      /\ harmed' = harmed \cup {D(j)} /\ misled' = misled \cup {D(j)}
      /\ job[j].pc # "idle" /\ job'[j].pc = "idle"
      /\ \A i \in Jobs \ {j} : job'[i] = job[i]
  BY ReturnTypes DEF Reject, At, rows, registry
<1>2. job[j].device = Agent[job[j].socket]
  BY <1>1 DEF LinkInv, RegistryAgrees, At, D
<1>3. harmed' \subseteq misled' /\ OfflineRead' /\ SocketHeld'
  BY <1>1 DEF StatusInv, OfflineRead, SocketHeld, At, D, Live, Registering
<1>4. SessionsHeld'
  <2>. SUFFICES ASSUME NEW x \in sessions
                PROVE  /\ x.device = Agent[x.socket]
                       /\ x.device \notin harmed' => SessionHeld(x)'
    BY <1>1 DEF SessionsHeld
  <2>1. /\ x.device = Agent[x.socket]
        /\ x.device \notin harmed => SessionHeld(x)
    BY DEF StatusInv, SessionsHeld
  <2>. SUFFICES ASSUME x.device \notin harmed', SessionHeld(x)
                PROVE  SessionHeld(x)'
    BY <1>1, <2>1
  <2>2. x.socket # job[j].socket
    BY <1>1, <1>2, <2>1 DEF D
  <2>. QED
    BY <1>1, <2>2 DEF SessionHeld, At, Live
<1>5. \A d \in Devices : AgentThere(d) => AgentThere(d)'
  BY <1>1 DEF AgentThere, Live
<1>6. ASSUME NEW d \in Devices \ harmed', ~revoked[d], status[d] = "ONLINE"
      PROVE  AgentThere(d)' \/ AtWork(d, A)'
  <2>1. AgentThere(d) \/ AtWork(d, A)
    BY <1>1, <1>6 DEF StatusInv, OnlineHasReason
  <2>2. job[j].device # d
    BY <1>1, <1>6 DEF D
  <2>. HIDE DEF A
  <2>. QED
    BY <1>1, <1>5, <2>1, <2>2, StillAtWork
<1>7. ASSUME NEW d \in Devices \ misled', ~revoked[d], shown[d] = "ONLINE"
      PROVE  AgentThere(d)' \/ AtWork(d, B)'
  <2>1. AgentThere(d) \/ AtWork(d, B)
    BY <1>1, <1>7 DEF StatusInv, ShownHasReason
  <2>2. job[j].device # d
    BY <1>1, <1>7 DEF D
  <2>. HIDE DEF B
  <2>. QED
    BY <1>1, <1>5, <2>1, <2>2, StillAtWork
<1>8. OnlineHasReason' /\ ShownHasReason'
  BY <1>1, <1>6, <1>7 DEF OnlineHasReason, ShownHasReason
<1>. QED
  BY <1>3, <1>4, <1>8 DEF StatusInv

\* After a restart nothing is claimed of any device, but of the sessions whose
\* they are.
LEMMA RestartStatus ==
    ASSUME LinkInv, StatusInv, Restart
    PROVE  StatusInv'
<1>1. /\ harmed' = Devices /\ misled' = Devices /\ sessions' = sessions
      /\ \A j \in Jobs : job'[j] = Idle
  BY DEF Restart, rows
<1>2. Idle.pc = "idle" /\ "idle" \notin Registering \cup {"offline", "event"}
  BY DEF Idle, Registering
<1>3. OfflineRead' /\ SocketHeld'
  BY <1>1, <1>2 DEF OfflineRead, SocketHeld, At
<1>4. SessionsHeld'
  BY <1>1 DEF StatusInv, SessionsHeld, LinkInv, TypeOK, Session
<1>5. OnlineHasReason' /\ ShownHasReason' /\ harmed' \subseteq misled'
  BY <1>1 DEF OnlineHasReason, ShownHasReason
<1>. QED
  BY <1>3, <1>4, <1>5 DEF StatusInv

------------------------------------------------------------------------------
\* The theorems.

\* No device is ONLINE or shown ONLINE at the start.
LEMMA InitStatus == Init => StatusInv
BY DEF Init, StatusInv, OfflineRead, SocketHeld, OnlineHasReason, ShownHasReason,
       SessionsHeld, At, D, Idle, Registering

\* Every step keeps the invariant.
LEMMA NextStatus == LinkInv /\ StatusInv /\ [Next]_vars => StatusInv'
<1>. SUFFICES ASSUME LinkInv, StatusInv, [Next]_vars PROVE StatusInv'
  OBVIOUS
<1>1. CASE UNCHANGED vars
  BY <1>1
  DEF vars, rows, registry, dashboard, StatusInv, OfflineRead, SocketHeld,
      OnlineHasReason, ShownHasReason, SessionsHeld, SessionHeld, AgentThere,
      AtWork, At, D, Live
<1>2. ASSUME NEW j \in Jobs, Resume(j)
      PROVE  StatusInv'
  <2>1. CASE MarkOffline(j)
    BY <2>1, PlainActions, MarkOfflineStatus
  <2>. QED
    BY <1>2, <2>1, PlainActions, MarkOnlineStatus, RegisterStatus,
       ShowOnlineStatus, NotOnlineStatus, ShowOfflineStatus
    DEF Resume
<1>. QED
  BY <1>1, <1>2, ConnectStatus, RegisterDeviceStatus, DisconnectStatus,
     DashboardStatus, RejectStatus, RestartStatus
  DEF Next

\* What is ONLINE, shown ONLINE or in an active session has its agent, or a
\* handler at work for it.
THEOREM StatusCorrect == Spec => []StatusInv
BY InitStatus, NextStatus, RegistryCorrect, PTL DEF Spec

\* With no handler at work, the reason is the agent's socket.
LEMMA QuietStatus ==
    ASSUME LinkInv, StatusInv
    PROVE  GoneIsOffline /\ SessionsLive /\ GoneIsShown
<1>1. \A d, A : Quiet(d) /\ "idle" \notin A => ~AtWork(d, A)
  BY DEF Quiet, AtWork, At, D
<1>2. GoneIsOffline
  <2>. DEFINE A == {"online", "sessions", "created", "ended", "offline"}
  <2>1. "idle" \notin A
    OBVIOUS
  <2>2. \A d \in Devices \ harmed : ~revoked[d] /\ status[d] = "ONLINE" =>
           AgentThere(d) \/ AtWork(d, A)
    BY DEF StatusInv, OnlineHasReason
  <2>. HIDE DEF A
  <2>. QED
    BY <1>1, <2>1, <2>2 DEF GoneIsOffline
<1>3. GoneIsShown
  <2>. DEFINE B == {"ended", "offline", "marked"}
  <2>1. "idle" \notin B
    OBVIOUS
  <2>2. \A d \in Devices \ misled : ~revoked[d] /\ shown[d] = "ONLINE" =>
           AgentThere(d) \/ AtWork(d, B)
    BY DEF StatusInv, ShownHasReason
  <2>. HIDE DEF B
  <2>. QED
    BY <1>1, <2>1, <2>2 DEF GoneIsShown
<1>4. SessionsLive
  <2>. SUFFICES ASSUME NEW x \in sessions, Quiet(x.device), x.device \notin harmed
                PROVE  Live(x.socket) /\ client[x.socket] = x.device
    BY DEF SessionsLive
  <2>1. x.device = Agent[x.socket] /\ SessionHeld(x)
    BY DEF StatusInv, SessionsHeld
  <2>2. \A j \in Jobs : At(j, "created") => D(j) = Agent[job[j].socket]
    BY DEF LinkInv, RegistryAgrees, At
  <2>3. ~\E j \in Jobs : At(j, "created") /\ job[j].socket = x.socket
    BY <2>1, <2>2 DEF Quiet, At
  <2>. QED
    BY <2>1, <2>3 DEF SessionHeld
<1>. QED
  BY <1>2, <1>3, <1>4

\* handleDisconnect: a device whose agent is gone is not left ONLINE, for any
\* number of sockets, handlers and devices.
THEOREM GoneStaysOffline == Spec => []GoneIsOffline
BY QuietStatus, RegistryCorrect, StatusCorrect, PTL

\* endBySocketId and createDeviceSession: an active session has its socket.
THEOREM SessionsHaveSockets == Spec => []SessionsLive
BY QuietStatus, RegistryCorrect, StatusCorrect, PTL

\* DEVICE_STATUS: the dashboard is not left showing a device whose agent is gone.
THEOREM DashboardIsTold == Spec => []GoneIsShown
BY QuietStatus, RegistryCorrect, StatusCorrect, PTL

------------------------------------------------------------------------------
\* The refinement of LinkProtocol.

\* The registry knows no socket that was never opened.
Opened == \A s \in Sockets : client[s] # None => socket[s] # "new"

LEMMA NextOpened == LinkInv /\ Opened /\ [Next]_vars => Opened'
<1>. SUFFICES ASSUME LinkInv, Opened, [Next]_vars PROVE Opened'
  OBVIOUS
<1>0. /\ client \in [Sockets -> Devices \cup {None}]
      /\ socket \in [Sockets -> {"new", "open", "closed"}]
  BY DEF LinkInv, TypeOK
<1>1. ASSUME NEW j \in Jobs, Register(j) PROVE Opened'
  <2>1. socket[job[j].socket] # "new"
    BY <1>1 DEF Register, LinkInv, RegistryAgrees, At
  <2>. QED
    BY <1>0, <1>1, <2>1 DEF Register, Opened
<1>2. ASSUME NEW j \in Jobs, NEW s \in Sockets, Disconnect(j, s) PROVE Opened'
  BY <1>0, <1>2 DEF Disconnect, Close, Unregister, Opened
<1>3. ASSUME NEW s \in Sockets, Connect(s) PROVE Opened'
  BY <1>0, <1>3 DEF Connect, Opened, registry
<1>4. CASE Restart
  BY <1>4 DEF Restart, Opened
<1>5. CASE UNCHANGED <<client, socket>>
  BY <1>5 DEF Opened
<1>. QED
  BY <1>1, <1>2, <1>3, <1>4, <1>5
  DEF Next, Resume, AuthFailed, MarkOnline, CloseSessions, CreateSession,
      ShowOnline, StillOnline, NotOnline, MarkOffline, ShowOffline,
      RegisterDevice, Revoke, RegenerateToken, Reject, vars, registry

\* What is to be done after a step that moves handler j only: all that the
\* others have to do, and what j has to do now; nothing else is new.
LEMMA PendingMoves ==
    ASSUME NEW j \in Jobs, \A i \in Jobs \ {j} : job'[i] = job[i]
    PROVE  /\ Coming \ ComingOf(job[j]) \subseteq Coming'
           /\ ComingOf(job[j]) \subseteq Coming
           /\ ComingOf(job'[j]) \subseteq Coming'
           /\ Coming' \subseteq Coming \cup ComingOf(job'[j])
           /\ Leaving \ LeavingOf(job[j]) \subseteq Leaving'
           /\ LeavingOf(job[j]) \subseteq Leaving
           /\ LeavingOf(job'[j]) \subseteq Leaving'
           /\ Leaving' \subseteq Leaving \cup LeavingOf(job'[j])
           /\ Absent \ AbsentOf(job[j]) \subseteq Absent'
           /\ AbsentOf(job[j]) \subseteq Absent
           /\ AbsentOf(job'[j]) \subseteq Absent'
           /\ Absent' \subseteq Absent \cup AbsentOf(job'[j])
           /\ News \ NewsOf(job[j]) \subseteq News'
           /\ NewsOf(job[j]) \subseteq News
           /\ NewsOf(job'[j]) \subseteq News'
           /\ News' \subseteq News \cup NewsOf(job'[j])
<1>1. \A s : s \in Coming <=> \E i \in Jobs : s \in ComingOf(job[i])
  BY DEF Coming
<1>2. \A s : s \in Coming' <=> \E i \in Jobs : s \in ComingOf(job'[i])
  BY DEF Coming
<1>3. \A d : d \in Leaving <=> \E i \in Jobs : d \in LeavingOf(job[i])
  BY DEF Leaving
<1>4. \A d : d \in Leaving' <=> \E i \in Jobs : d \in LeavingOf(job'[i])
  BY DEF Leaving
<1>5. \A d : d \in Absent <=> \E i \in Jobs : d \in AbsentOf(job[i])
  BY DEF Absent
<1>6. \A d : d \in Absent' <=> \E i \in Jobs : d \in AbsentOf(job'[i])
  BY DEF Absent
<1>7. \A n : n \in News <=> \E i \in Jobs : n \in NewsOf(job[i])
  BY DEF News
<1>8. \A n : n \in News' <=> \E i \in Jobs : n \in NewsOf(job'[i])
  BY DEF News
<1>. QED
  BY <1>1, <1>2, <1>3, <1>4, <1>5, <1>6, <1>7, <1>8

\* A handler that goes on with what it has to do, drops it or has nothing to do.
LEMMA DropSeen ==
    ASSUME NEW j \in Jobs, \A i \in Jobs \ {j} : job'[i] = job[i],
           ComingOf(job'[j]) \subseteq ComingOf(job[j]),
           LeavingOf(job'[j]) \subseteq LeavingOf(job[j]),
           AbsentOf(job'[j]) \subseteq AbsentOf(job[j]),
           NewsOf(job'[j]) \subseteq NewsOf(job[j]),
           UNCHANGED <<status, revoked, tokenHeld, shown, Agents>>
    PROVE  Protocol!Next
<1>1. /\ Coming' \subseteq Coming /\ Leaving' \subseteq Leaving
      /\ Absent' \subseteq Absent /\ News' \subseteq News
  BY PendingMoves
<1>. QED
  BY <1>1 DEF Protocol!Next, Protocol!Drop, Protocol!row

\* A handler that ends has nothing to do any more, nor has one that is idle.
LEMMA NothingToDo ==
    ASSUME NEW h, h.pc \in {"idle"}
    PROVE  ComingOf(h) = {} /\ LeavingOf(h) = {} /\ AbsentOf(h) = {} /\ NewsOf(h) = {}
BY DEF ComingOf, LeavingOf, AbsentOf, NewsOf

\* The steps of onRegisterDevice.
LEMMA RegistrationSeen ==
    ASSUME LinkInv, NEW j \in Jobs,
           \/ AuthFailed(j) \/ MarkOnline(j) \/ CloseSessions(j)
           \/ CreateSession(j) \/ Register(j) \/ ShowOnline(j)
    PROVE  Protocol!Next
<1>. DEFINE s == job[j].socket
<1>0. /\ ~At(j, "idle") /\ job[j] \in Running /\ s \in Sockets
      /\ D(j) \in Devices /\ D(j) = Agent[s]
  <2>1. ~At(j, "idle")
    BY DEF AuthFailed, MarkOnline, CloseSessions, CreateSession, Register,
           ShowOnline, At
  <2>. QED
    BY <2>1, RunningJob DEF LinkInv, RegistryAgrees, Running, D
<1>1. ASSUME NEW p \in {"online", "sessions", "created", "event"}, Await(j, p)
      PROVE  /\ \A i \in Jobs \ {j} : job'[i] = job[i]
             /\ ComingOf(job'[j]) = IF p = "event" THEN {} ELSE {s}
             /\ LeavingOf(job'[j]) = {} /\ AbsentOf(job'[j]) = {}
             /\ NewsOf(job'[j]) = {<<D(j), "ONLINE">>}
  BY <1>0, <1>1, AwaitTypes
  DEF PC, ComingOf, LeavingOf, AbsentOf, NewsOf, D
<1>2. ASSUME Return(j)
      PROVE  /\ \A i \in Jobs \ {j} : job'[i] = job[i]
             /\ ComingOf(job'[j]) = {} /\ LeavingOf(job'[j]) = {}
             /\ AbsentOf(job'[j]) = {} /\ NewsOf(job'[j]) = {}
  BY <1>2, ReturnTypes, NothingToDo
<1>3. /\ LeavingOf(job[j]) = {} /\ AbsentOf(job[j]) = {}
      /\ job[j].pc \in {"online", "sessions", "created"}
             => ComingOf(job[j]) = {s}
      /\ job[j].pc = "auth" /\ job[j].ok => ComingOf(job[j]) = {s}
      /\ job[j].pc \in {"online", "sessions", "created", "event"}
             => NewsOf(job[j]) = {<<D(j), "ONLINE">>}
      /\ job[j].pc = "auth" => NewsOf(job[j]) = {}
      /\ job[j].pc = "event" => ComingOf(job[j]) = {}
  BY DEF AuthFailed, MarkOnline, CloseSessions, CreateSession, Register,
         ShowOnline, At, ComingOf, LeavingOf, AbsentOf, NewsOf, D
<1>. HIDE DEF s
<1>4. ASSUME UNCHANGED <<client, socket>> PROVE Agents' = Agents
  BY <1>4 DEF Agents, Live
<1>5. CASE AuthFailed(j)
  BY <1>2, <1>4, <1>5, DropSeen DEF AuthFailed, rows, registry, dashboard
<1>6. CASE MarkOnline(j)
  <2>1. /\ Coming' = Coming /\ Leaving' = Leaving /\ Absent' = Absent
        /\ News' = News \cup {<<D(j), "ONLINE">>} /\ s \in Coming
    BY <1>1, <1>3, <1>6, PendingMoves DEF MarkOnline, At
  <2>2. Protocol!GoOnline(s)
    BY <1>0, <1>4, <1>6, <2>1
    DEF MarkOnline, SetStatus, registry, dashboard, Protocol!GoOnline,
        Protocol!Becomes
  <2>. QED
    BY <1>0, <2>2 DEF Protocol!Next
<1>7. CASE CloseSessions(j) \/ CreateSession(j)
  <2>1. /\ Await(j, "sessions") \/ Await(j, "created")
        /\ job[j].pc \in {"online", "sessions"}
        /\ UNCHANGED <<status, revoked, tokenHeld, shown, client, socket>>
    BY <1>7 DEF CloseSessions, CreateSession, At, registry, dashboard
  <2>2. /\ \A i \in Jobs \ {j} : job'[i] = job[i]
        /\ ComingOf(job'[j]) = {s} /\ LeavingOf(job'[j]) = {}
        /\ AbsentOf(job'[j]) = {} /\ NewsOf(job'[j]) = {<<D(j), "ONLINE">>}
    BY <1>1, <2>1
  <2>3. ComingOf(job[j]) = {s} /\ NewsOf(job[j]) = {<<D(j), "ONLINE">>}
    BY <1>3, <2>1
  <2>4. Agents' = Agents
    BY <1>4, <2>1
  <2>. QED
    BY <1>3, <2>1, <2>2, <2>3, <2>4, DropSeen
<1>8. CASE Register(j)
  <2>1. /\ UNCHANGED <<status, revoked, tokenHeld, shown, socket>>
        /\ client' = [client EXCEPT ![s] = D(j)]
        /\ Await(j, "event") /\ job[j].pc = "created"
    BY <1>8 DEF Register, rows, dashboard, At, s
  <2>2. \A r \in Sockets : client'[r] = IF r = s THEN D(j) ELSE client[r]
    BY <1>0, <2>1 DEF LinkInv, TypeOK
  <2>3. CASE ~Live(s)
    <3>1. Agents' = Agents
      BY <2>1, <2>2, <2>3 DEF Agents, Live
    <3>. QED
      BY <1>1, <1>3, <2>1, <3>1, DropSeen
  <2>4. CASE Live(s)
    <3>1. Agents' = Agents \cup {s}
      BY <1>0, <2>1, <2>2, <2>4, DeviceLinkAssumption DEF Agents, Live
    <3>2. /\ s \in Coming /\ Coming' \in {Coming, Coming \ {s}}
          /\ Leaving' = Leaving /\ Absent' = Absent /\ News' = News
      BY <1>1, <1>3, <2>1, PendingMoves
    <3>3. Protocol!Enter(s)
      BY <2>1, <3>1, <3>2 DEF Protocol!Enter, Protocol!Done, Protocol!row
    <3>. QED
      BY <1>0, <3>3 DEF Protocol!Next
  <2>. QED
    BY <2>3, <2>4
<1>9. CASE ShowOnline(j)
  <2>1. /\ Coming' = Coming /\ Leaving' = Leaving /\ Absent' = Absent
        /\ <<D(j), "ONLINE">> \in News
        /\ News' \in {News, News \ {<<D(j), "ONLINE">>}}
    <3>1. Return(j) /\ job[j].pc = "event"
      BY <1>9 DEF ShowOnline, At
    <3>2. ComingOf(job[j]) = {} /\ NewsOf(job[j]) = {<<D(j), "ONLINE">>}
      BY <1>3, <3>1
    <3>3. \A i \in Jobs \ {j} : job'[i] = job[i]
      BY <1>2, <3>1
    <3>4. /\ ComingOf(job'[j]) = {} /\ LeavingOf(job'[j]) = {}
          /\ AbsentOf(job'[j]) = {} /\ NewsOf(job'[j]) = {}
      BY <1>2, <3>1
    <3>5. LeavingOf(job[j]) = {} /\ AbsentOf(job[j]) = {}
      BY <1>3
    <3>6. ASSUME NEW n, NewsOf(job[j]) = {n}
          PROVE  n \in News /\ News' \in {News, News \ {n}}
      BY <3>3, <3>4, <3>6, PendingMoves
    <3>7. Coming' = Coming /\ Leaving' = Leaving /\ Absent' = Absent
      BY <3>2, <3>3, <3>4, <3>5, PendingMoves
    <3>. QED
      BY <3>2, <3>6, <3>7
  <2>2. Protocol!Tell(D(j), "ONLINE")
    BY <1>4, <1>9, <2>1
    DEF ShowOnline, Show, rows, registry, Protocol!Tell, Protocol!Done,
        Protocol!row
  <2>. QED
    BY <1>0, <2>2 DEF Protocol!Next
<1>. QED
  BY <1>5, <1>6, <1>7, <1>8, <1>9

\* The steps of handleDisconnect after its first await.
LEMMA DepartureSeen ==
    ASSUME LinkInv, NEW j \in Jobs,
           \/ StillOnline(j) \/ NotOnline(j) \/ MarkOffline(j) \/ ShowOffline(j)
    PROVE  Protocol!Next
<1>0. ~At(j, "idle") /\ job[j] \in Running /\ D(j) \in Devices
  <2>1. ~At(j, "idle")
    BY DEF StillOnline, NotOnline, MarkOffline, ShowOffline, At
  <2>. QED
    BY <2>1, RunningJob DEF LinkInv, Running, D
<1>1. ASSUME Return(j)
      PROVE  /\ \A i \in Jobs \ {j} : job'[i] = job[i]
             /\ ComingOf(job'[j]) = {} /\ LeavingOf(job'[j]) = {}
             /\ AbsentOf(job'[j]) = {} /\ NewsOf(job'[j]) = {}
  BY <1>1, ReturnTypes, NothingToDo
<1>2. /\ ComingOf(job[j]) = {}
      /\ LeavingOf(job[j]) = IF job[j].pc = "ended" THEN {D(j)} ELSE {}
      /\ AbsentOf(job[j]) =
           IF job[j].pc = "offline" /\ job[j].ok THEN {D(j)} ELSE {}
      /\ NewsOf(job[j]) = IF job[j].pc = "marked" THEN {<<D(j), "OFFLINE">>} ELSE {}
  BY DEF StillOnline, NotOnline, MarkOffline, ShowOffline, At, ComingOf,
         LeavingOf, AbsentOf, NewsOf, D
<1>3. ASSUME UNCHANGED <<client, socket>> PROVE Agents' = Agents
  BY <1>3 DEF Agents, Live
<1>4. CASE StillOnline(j)
  BY <1>1, <1>3, <1>4, DropSeen DEF StillOnline, rows, registry, dashboard
<1>5. CASE NotOnline(j)
  <2>1. /\ job'[j].pc = "offline" /\ job'[j].device = D(j)
        /\ job'[j].ok = ~revoked[D(j)]
        /\ \A i \in Jobs \ {j} : job'[i] = job[i]
    BY <1>0, <1>5 DEF NotOnline, LinkInv, TypeOK, Running, D
  <2>2. /\ ComingOf(job'[j]) = {} /\ LeavingOf(job'[j]) = {}
        /\ AbsentOf(job'[j]) = IF ~revoked[D(j)] THEN {D(j)} ELSE {}
        /\ NewsOf(job'[j]) = {}
    BY <2>1 DEF ComingOf, LeavingOf, AbsentOf, NewsOf
  <2>3. CASE revoked[D(j)]
    <3>1. AbsentOf(job'[j]) = {}
      BY <2>2, <2>3
    <3>2. UNCHANGED <<status, revoked, tokenHeld, shown, Agents>>
      BY <1>3, <1>5 DEF NotOnline, rows, registry, dashboard
    <3>. QED
      BY <1>2, <2>1, <2>2, <3>1, <3>2, DropSeen
  <2>4. CASE ~revoked[D(j)]
    <3>1. /\ Coming' = Coming /\ D(j) \in Leaving
          /\ Leaving' \in {Leaving, Leaving \ {D(j)}}
          /\ Absent' = Absent \cup {D(j)} /\ News' = News
      BY <1>2, <1>5, <2>1, <2>2, <2>4, PendingMoves DEF NotOnline, At
    <3>2. \A s \in Agents : Agent[s] # D(j)
      BY <1>0, <1>5 DEF NotOnline, IsDeviceOnline, Agents, LinkInv, RegistryAgrees
    <3>3. Protocol!Miss(D(j))
      BY <1>3, <1>5, <2>4, <3>1, <3>2
      DEF NotOnline, rows, registry, dashboard, Protocol!Miss, Protocol!Done,
          Protocol!row
    <3>. QED
      BY <1>0, <3>3 DEF Protocol!Next
  <2>. QED
    BY <2>3, <2>4
<1>6. CASE MarkOffline(j) /\ job[j].ok
  <2>1. /\ \A i \in Jobs \ {j} : job'[i] = job[i]
        /\ job'[j].pc = "marked" /\ job'[j].device = D(j)
    BY <1>0, <1>6, AwaitTypes DEF MarkOffline, PC, D
  <2>2. /\ ComingOf(job'[j]) = {} /\ LeavingOf(job'[j]) = {}
        /\ AbsentOf(job'[j]) = {} /\ NewsOf(job'[j]) = {<<D(j), "OFFLINE">>}
    BY <2>1 DEF ComingOf, LeavingOf, AbsentOf, NewsOf
  <2>3. /\ Coming' = Coming /\ Leaving' = Leaving
        /\ D(j) \in Absent /\ Absent' \in {Absent, Absent \ {D(j)}}
        /\ News' = News \cup {<<D(j), "OFFLINE">>}
    BY <1>2, <1>6, <2>1, <2>2, PendingMoves DEF MarkOffline, At
  <2>4. Protocol!GoOffline(D(j))
    BY <1>3, <1>6, <2>3
    DEF MarkOffline, SetStatus, registry, dashboard, Protocol!GoOffline,
        Protocol!Becomes, Protocol!Done
  <2>. QED
    BY <1>0, <2>4 DEF Protocol!Next
<1>7. CASE MarkOffline(j) /\ ~job[j].ok
  BY <1>1, <1>3, <1>7, DropSeen DEF MarkOffline, registry, dashboard
<1>8. CASE ShowOffline(j)
  <2>1. /\ Coming' = Coming /\ Leaving' = Leaving /\ Absent' = Absent
        /\ <<D(j), "OFFLINE">> \in News
        /\ News' \in {News, News \ {<<D(j), "OFFLINE">>}}
    BY <1>1, <1>2, <1>8, PendingMoves DEF ShowOffline, At
  <2>2. Protocol!Tell(D(j), "OFFLINE")
    BY <1>3, <1>8, <2>1
    DEF ShowOffline, Show, rows, registry, Protocol!Tell, Protocol!Done,
        Protocol!row
  <2>. QED
    BY <1>0, <2>2 DEF Protocol!Next
<1>. QED
  BY <1>4, <1>5, <1>6, <1>7, <1>8

\* A socket is opened, or goes down.
LEMMA SocketSeen ==
    ASSUME LinkInv, Opened, NEW s \in Sockets,
           Connect(s) \/ \E j \in Jobs : Disconnect(j, s)
    PROVE  Protocol!Next \/ UNCHANGED Protocol!vars
<1>0. /\ socket \in [Sockets -> {"new", "open", "closed"}]
      /\ client \in [Sockets -> Devices \cup {None}]
      /\ job \in [Jobs -> Running \cup {Idle}]
  BY DEF LinkInv, TypeOK
<1>1. ASSUME Agents' = Agents,
             UNCHANGED <<status, revoked, tokenHeld, shown, job>>
      PROVE  UNCHANGED Protocol!vars
  BY <1>1 DEF Protocol!vars, Protocol!row, Protocol!pending, Coming, Leaving,
              Absent, News
<1>2. CASE Connect(s)
  <2>1. client[s] = None
    BY <1>2 DEF Connect, Opened
  <2>2. Agents' = Agents
    BY <1>0, <1>2, <2>1 DEF Connect, Agents, Live, registry
  <2>. QED
    BY <1>1, <1>2, <2>2 DEF Connect, rows, dashboard
<1>3. ASSUME NEW j \in Jobs, Disconnect(j, s)
      PROVE  Protocol!Next \/ UNCHANGED Protocol!vars
  <2>1. CASE client[s] = None
    <3>1. Agents' = Agents
      BY <1>0, <1>3, <2>1 DEF Disconnect, Close, Agents, Live
    <3>. QED
      BY <1>1, <1>3, <2>1, <3>1 DEF Disconnect, Close
  <2>2. CASE client[s] # None
    <3>1. /\ socket' = [socket EXCEPT ![s] = "closed"]
          /\ client' = [client EXCEPT ![s] = None]
          /\ Live(s) /\ At(j, "idle")
          /\ job' = [job EXCEPT ![j] = [pc |-> "ended", socket |-> s,
                                        device |-> client[s], ok |-> FALSE]]
          /\ UNCHANGED <<status, revoked, tokenHeld, shown>>
      BY <1>3, <2>2 DEF Disconnect, Close, Unregister
    <3>2. client[s] = Agent[s]
      BY <2>2 DEF LinkInv, RegistryAgrees
    <3>3. s \in Agents /\ Agents' = Agents \ {s}
      BY <1>0, <2>2, <3>1 DEF Agents, Live
    <3>4. /\ \A i \in Jobs \ {j} : job'[i] = job[i]
          /\ job'[j].pc = "ended" /\ job'[j].device = Agent[s]
      BY <1>0, <3>1, <3>2
    <3>5. /\ ComingOf(job'[j]) = {} /\ LeavingOf(job'[j]) = {Agent[s]}
          /\ AbsentOf(job'[j]) = {} /\ NewsOf(job'[j]) = {}
      BY <3>4 DEF ComingOf, LeavingOf, AbsentOf, NewsOf
    <3>6. /\ ComingOf(job[j]) = {} /\ LeavingOf(job[j]) = {}
          /\ AbsentOf(job[j]) = {} /\ NewsOf(job[j]) = {}
      BY <3>1, NothingToDo DEF At
    <3>7. /\ Coming' = Coming /\ Leaving' = Leaving \cup {Agent[s]}
          /\ Absent' = Absent /\ News' = News
      BY <3>4, <3>5, <3>6, PendingMoves
    <3>8. Protocol!Depart(s)
      BY <3>1, <3>3, <3>7 DEF Protocol!Depart, Protocol!row
    <3>. QED
      BY <3>8 DEF Protocol!Next
  <2>. QED
    BY <2>1, <2>2
<1>. QED
  BY <1>2, <1>3

\* An agent asks to be registered.
LEMMA RegisterSeen ==
    ASSUME LinkInv, NEW j \in Jobs, NEW s \in Sockets, NEW ok \in BOOLEAN,
           RegisterDevice(j, s, ok)
    PROVE  Protocol!Next
<1>1. /\ \A i \in Jobs \ {j} : job'[i] = job[i]
      /\ job'[j].pc = "auth" /\ job'[j].socket = s /\ job'[j].ok = ok
  BY DEF RegisterDevice, LinkInv, TypeOK
<1>2. /\ ComingOf(job'[j]) = IF ok THEN {s} ELSE {}
      /\ LeavingOf(job'[j]) = {} /\ AbsentOf(job'[j]) = {}
      /\ NewsOf(job'[j]) = {}
  BY <1>1 DEF ComingOf, LeavingOf, AbsentOf, NewsOf
<1>3. /\ ComingOf(job[j]) = {} /\ LeavingOf(job[j]) = {}
      /\ AbsentOf(job[j]) = {} /\ NewsOf(job[j]) = {}
  BY NothingToDo DEF RegisterDevice, At
<1>4. UNCHANGED <<status, revoked, tokenHeld, shown, Agents>>
  BY DEF RegisterDevice, rows, registry, dashboard, Agents, Live
<1>5. CASE ok
  <2>1. /\ Coming' = Coming \cup {s} /\ Leaving' = Leaving
        /\ Absent' = Absent /\ News' = News
    BY <1>1, <1>2, <1>3, <1>5, PendingMoves
  <2>2. Protocol!Admit(s)
    BY <1>4, <1>5, <2>1
    DEF RegisterDevice, AuthenticateByToken, Protocol!Admit, Protocol!row
  <2>. QED
    BY <2>2 DEF Protocol!Next
<1>6. CASE ~ok
  <2>1. ComingOf(job'[j]) = {}
    BY <1>2, <1>6
  <2>. QED
    BY <1>1, <1>2, <1>4, <2>1, DropSeen
<1>. QED
  BY <1>5, <1>6

\* The user's steps, and what goes wrong.
LEMMA TroubleSeen ==
    ASSUME LinkInv,
           \/ \E d \in Devices : Revoke(d) \/ RegenerateToken(d)
           \/ \E j \in Jobs : Reject(j)
           \/ Restart
    PROVE  Protocol!Next
<1>1. ASSUME NEW d \in Devices, Revoke(d) \/ RegenerateToken(d)
      PROVE  Protocol!Next
  <2>1. /\ Coming' = Coming /\ Leaving' = Leaving /\ Absent' = Absent
        /\ News' = News /\ Agents' = Agents /\ shown' = shown
    BY <1>1 DEF Revoke, RegenerateToken, registry, dashboard, Coming, Leaving,
                Absent, News, Agents, Live
  <2>2. CASE Revoke(d)
    BY <2>1, <2>2
    DEF Revoke, SetStatus, Protocol!Next, Protocol!Revoke, Protocol!pending
  <2>3. CASE RegenerateToken(d)
    BY <2>1, <2>3
    DEF RegenerateToken, SetStatus, Protocol!Next, Protocol!Rotate,
        Protocol!pending
  <2>. QED
    BY <1>1, <2>2, <2>3
<1>2. ASSUME NEW j \in Jobs, Reject(j) PROVE Protocol!Next
  <2>1. /\ \A i \in Jobs \ {j} : job'[i] = job[i]
        /\ job'[j].pc = "idle"
    BY <1>2, ReturnTypes DEF Reject
  <2>2. UNCHANGED <<status, revoked, tokenHeld, shown, Agents>>
    BY <1>2 DEF Reject, rows, registry, Agents, Live
  <2>. QED
    BY <2>1, <2>2, NothingToDo, DropSeen
<1>3. CASE Restart
  <2>1. \A j \in Jobs : job'[j].pc = "idle"
    BY <1>3 DEF Restart, Idle
  <2>2. Coming' = {} /\ Leaving' = {} /\ Absent' = {} /\ News' = {}
    BY <2>1, NothingToDo DEF Coming, Leaving, Absent, News
  <2>3. Agents' = {}
    BY <1>3 DEF Restart, Agents
  <2>. QED
    BY <1>3, <2>2, <2>3
    DEF Restart, rows, Protocol!Next, Protocol!Crash, Protocol!row
<1>. QED
  BY <1>1, <1>2, <1>3

\* Every step is one of the protocol or is not seen.
LEMMA LinkSeen ==
    LinkInv /\ Opened /\ [Next]_vars => [Protocol!Next]_Protocol!vars
<1>. SUFFICES ASSUME LinkInv, Opened, [Next]_vars
              PROVE  Protocol!Next \/ UNCHANGED Protocol!vars
  OBVIOUS
<1>1. CASE UNCHANGED vars
  BY <1>1
  DEF vars, rows, registry, dashboard, Protocol!vars, Protocol!row,
      Protocol!pending, Coming, Leaving, Absent, News, Agents, Live
<1>2. ASSUME NEW j \in Jobs, Resume(j) PROVE Protocol!Next
  BY <1>2, RegistrationSeen, DepartureSeen DEF Resume
<1>. QED
  BY <1>1, <1>2, SocketSeen, RegisterSeen, TroubleSeen DEF Next

\* DeviceLink implements LinkProtocol, for any devices, sockets and handlers:
\* a device becomes ONLINE for an agent that was let in (markOnline), OFFLINE for
\* one that left and was missed since (handleDisconnect, markOffline), and a
\* dashboard is told what was written and no more.
THEOREM LinkImplements == Spec => ImplementsLink
<1>1. Init => Opened /\ Protocol!Init
  <2>1. ASSUME Init
        PROVE  /\ Coming = {} /\ Leaving = {} /\ Absent = {} /\ News = {}
               /\ Agents = {} /\ Opened
    <3>1. \A j \in Jobs : job[j].pc = "idle"
      BY <2>1 DEF Init, Idle
    <3>2. Coming = {} /\ Leaving = {} /\ Absent = {} /\ News = {}
      BY <3>1, NothingToDo DEF Coming, Leaving, Absent, News
    <3>. QED
      BY <2>1, <3>2 DEF Init, Agents, Opened
  <2>. QED
    BY <2>1 DEF Init, Protocol!Init
<1>. QED
  BY <1>1, NextOpened, LinkSeen, RegistryCorrect, PTL
  DEF Spec, ImplementsLink, Protocol!Spec

==============================================================================
