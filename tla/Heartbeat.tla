------------------------------- MODULE Heartbeat -------------------------------
(***************************************************************************)
(* How the gateway keeps and ends the connections of agents: PING and its  *)
(* nonce, the time of the last sign of life in the ConnectionRegistry, the *)
(* sweep of enforceTimeouts over all of them, and the timer that           *)
(* handleConnection starts for a socket that does not register             *)
(* (websocket.gateway.ts, connection.registry.ts).                         *)
(*                                                                         *)
(* The nonces are those of PendingStore, on the same clock: this module    *)
(* composes the two, and every nonce belongs to all sockets together.  A   *)
(* timer that is due fires before the clock moves on: the event loop is    *)
(* never blocked for longer than one unit of it.                           *)
(***************************************************************************)
EXTENDS Integers

CONSTANTS
    Sockets,      \* BOUND: agent sockets opened
    Nonces,       \* nonces the agents use
    None,         \* no nonce, no time
    Timeout,      \* CONNECTION_TIMEOUT_MS
    MinInterval,  \* the shortest pause between two sweeps (10 s)
    NonceTtl,     \* how long a nonce is remembered
    MaxTime,      \* BOUND: the clock
    MaxOps        \* BOUND: pings with a nonce

VARIABLES
    now,        \* Date.now()
    nextSweep,  \* when enforceTimeouts runs next
    socket,     \* the life of a socket: who ended it
    opened,     \* when handleConnection accepted the socket
    register,   \* the sockets with a registration in progress
    lastPong,   \* memory: the registered clients' lastPongAt
    map, ops,   \* the entries of PendingStore and its operations
    claimed,    \* history of PendingStore: the claims that succeeded
    sign,       \* history: the last sign of life of a socket
    accepted    \* history: the PINGs with a nonce that were answered

nonceVars == <<map, ops, claimed>>
history   == <<sign, accepted>>
vars == <<now, nextSweep, socket, opened, register, lastPong, nonceVars, history>>

\* The part of PendingStore that PING uses.
Store == INSTANCE PendingStore
            WITH Clients <- {}, Requests <- {}, Max <- 0, WindowMs <- 0,
                 Ttl <- <<>>, Second <- 1,
                 called <- <<>>, granted <- <<>>, asked <- <<>>

\* afterInit: a third of the timeout, but not less than MinInterval.
Interval == IF Timeout \div 3 >= MinInterval THEN Timeout \div 3 ELSE MinInterval

ASSUME HeartbeatAssumption ==
    /\ {Timeout, NonceTtl, MaxTime, MaxOps} \subseteq Nat
    /\ MinInterval \in Nat \ {0}
    /\ None \notin Nat \cup Nonces \cup Store!Entry

TypeOK ==
    /\ now \in Nat
    /\ nextSweep \in Nat
    /\ socket \in [Sockets -> {"new", "open", "left", "dropped"}]
    /\ opened \in [Sockets -> Nat]
    /\ register \subseteq Sockets
    /\ lastPong \in [Sockets -> Nat \cup {None}]
    /\ map \in [Nonces -> Store!Entry \cup {None}]
    /\ ops \in Nat
    /\ claimed \in [Nonces -> SUBSET Store!Stamp]
    /\ sign \in [Sockets -> Nat]
    /\ accepted \in [Nonces -> SUBSET Store!Stamp]

Init ==
    /\ now = 0
    /\ nextSweep = Interval
    /\ socket = [s \in Sockets |-> "new"]
    /\ opened = [s \in Sockets |-> 0]
    /\ register = {}
    /\ lastPong = [s \in Sockets |-> None]
    /\ map = [n \in Nonces |-> None]
    /\ ops = 0
    /\ claimed = [n \in Nonces |-> {}]
    /\ sign = [s \in Sockets |-> 0]
    /\ accepted = [n \in Nonces |-> {}]

-------------------------------------------------------------------------------
Live(s) == socket[s] = "open"

\* The registry knows the socket, connected or not.
Registered(s) == lastPong[s] # None

Sign(s) == sign' = [sign EXCEPT ![s] = now]

\* handleConnection; the timer that ends the socket is due at opened + Timeout.
Connect(s) ==
    /\ socket[s] = "new"
    /\ socket' = [socket EXCEPT ![s] = "open"]
    /\ opened' = [opened EXCEPT ![s] = now]
    /\ Sign(s)
    /\ UNCHANGED <<now, nextSweep, register, lastPong, nonceVars, accepted>>

\* REGISTER_DEVICE passes its checks; its queries are awaited ...
BeginRegister(s) ==
    /\ Live(s)
    /\ register' = register \cup {s}
    /\ UNCHANGED <<now, nextSweep, socket, opened, lastPong, nonceVars, history>>

\* ... and register enters the client, whether or not it is still connected.
EndRegister(s) ==
    /\ s \in register
    /\ register' = register \ {s}
    /\ lastPong' = [lastPong EXCEPT ![s] = now]
    /\ Sign(s)
    /\ UNCHANGED <<now, nextSweep, socket, opened, nonceVars, accepted>>

\* ... or one of the queries fails.
FailRegister(s) ==
    /\ s \in register
    /\ register' = register \ {s}
    /\ UNCHANGED <<now, nextSweep, socket, opened, lastPong, nonceVars, history>>

-------------------------------------------------------------------------------
\* onPing and onPong.

\* Mutant: only the first sign of life is written down.
TouchOnce(s) == UNCHANGED lastPong

\* Mutant: the timeout is taken off beforehand.
TouchBack(s) ==
    lastPong' = [lastPong EXCEPT ![s] = IF Registered(s) THEN now - Timeout ELSE None]

\* touchPong.
TouchPong(s) ==
    lastPong' = [lastPong EXCEPT ![s] = IF Registered(s) THEN now ELSE None]

\* The socket is touched, and answered.
Accept(s) ==
    /\ TouchPong(s)
    /\ sign' = [sign EXCEPT ![s] = IF Registered(s) THEN now ELSE @]

\* PING without a nonce, or PONG.
PingPlain(s) ==
    /\ Live(s)
    /\ Accept(s)
    /\ UNCHANGED <<now, nextSweep, socket, opened, register, nonceVars, accepted>>

\* Mutant: touched before the nonce is looked at.
PingTouches(s, n) ==
    /\ Live(s)
    /\ Store!ClaimNonce(n)
    /\ Accept(s)
    /\ accepted' = [accepted EXCEPT ![n] = @ \cup {Store!This}]
    /\ UNCHANGED <<nextSweep, socket, opened, register>>

\* PING with a nonce: REPLAY when it is remembered, whoever used it.
PingNonce(s, n) ==
    /\ Live(s)
    /\ Store!ClaimNonce(n)
    /\ \/ /\ Store!Found(n)
          /\ UNCHANGED <<lastPong, history>>
       \/ /\ ~Store!Found(n)
          /\ Accept(s)
          /\ accepted' = [accepted EXCEPT ![n] = @ \cup {Store!This}]
    /\ UNCHANGED <<nextSweep, socket, opened, register>>

-------------------------------------------------------------------------------
\* The end of a connection: handleDisconnect unregisters the client.

Close(S, how) ==
    /\ socket' = [s \in Sockets |-> IF s \in S THEN how ELSE socket[s]]
    /\ lastPong' = [s \in Sockets |-> IF s \in S THEN None ELSE lastPong[s]]

\* The agent or the network ends it.
Leave(s) ==
    /\ Live(s)
    /\ Close({s}, "left")
    /\ UNCHANGED <<now, nextSweep, opened, register, nonceVars, history>>

\* The timer of handleConnection is due and the socket not authenticated.
Unauthenticated ==
    {s \in Sockets : Live(s) /\ ~Registered(s) /\ now = opened[s] + Timeout}

AuthTimeout(s) ==
    /\ s \in Unauthenticated
    /\ Close({s}, "dropped")
    /\ UNCHANGED <<now, nextSweep, opened, register, nonceVars, history>>

\* Mutant: one of the stale sockets at a time.
FirstStale ==
    LET stale == {s \in Sockets : Registered(s) /\ now - lastPong[s] > Timeout}
    IN  IF stale = {} THEN {} ELSE {CHOOSE s \in stale : TRUE}

\* getStaleSockets.
Stale == {s \in Sockets : Registered(s) /\ now - lastPong[s] > Timeout}

\* enforceTimeouts; a socket that is not connected is not disconnected again,
\* and so not unregistered either.
EnforceTimeouts ==
    /\ now = nextSweep
    /\ nextSweep' = now + Interval
    /\ Close({s \in Stale : Live(s)}, "dropped")
    /\ UNCHANGED <<now, opened, register, nonceVars, history>>

Tick ==
    /\ now < nextSweep
    /\ Unauthenticated = {}
    /\ Store!Tick
    /\ UNCHANGED <<nextSweep, socket, opened, register, lastPong, ops, accepted,
                   sign>>

Next ==
    \/ \E s \in Sockets :
          \/ Connect(s) \/ BeginRegister(s) \/ EndRegister(s) \/ FailRegister(s)
          \/ PingPlain(s) \/ Leave(s) \/ AuthTimeout(s)
          \/ \E n \in Nonces : PingNonce(s, n)
    \/ EnforceTimeouts
    \/ Tick

Spec == Init /\ [][Next]_vars

-------------------------------------------------------------------------------
\* Properties.

\* enforceTimeouts and the timer of handleConnection: no agent socket stays
\* connected for longer than the timeout and one pause of the sweep after its
\* last sign of life, however many there are; one that never registers goes
\* after the timeout.
SilenceBounded ==
    \A s \in Sockets :
        Live(s) => now - sign[s] <= IF Registered(s) THEN Timeout + Interval
                                                     ELSE Timeout

\* Nobody who gave a sign of life within the timeout is dropped, and a socket
\* that registered in time is not ended by its connection's timer.
DroppedWasSilent ==
    [][\A s \in Sockets :
          Live(s) /\ socket'[s] = "dropped" =>
              now - sign[s] >= IF Registered(s) THEN Timeout + 1 ELSE Timeout]_vars

\* onPing: a PING that is replayed, on whatever socket, is not answered and keeps
\* nobody alive while its nonce is remembered.
ReplayKeepsNobody ==
    \A n \in Nonces : \A x, y \in accepted[n] :
        x.no < y.no => y.at - x.at > NonceTtl

===============================================================================
