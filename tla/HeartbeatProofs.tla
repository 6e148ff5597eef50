---------------------------- MODULE HeartbeatProofs ----------------------------
(***************************************************************************)
(* TLAPS proofs about Heartbeat, for any number of sockets and nonces, any *)
(* timeout, pause of the sweep and lifetime of a nonce.                    *)
(***************************************************************************)
EXTENDS Heartbeat, TLAPS

------------------------------------------------------------------------------
\* The inductive invariant.

\* The sweep is at most one pause away.
SweepDue == now <= nextSweep /\ nextSweep <= now + Interval

\* What is known of a socket: nothing before it is opened; its registry entry is
\* its last sign of life, which the next sweep finds in time; without an entry the
\* timer of its connection is still to come.
Watched(s) ==
    /\ socket[s] = "new" => ~Registered(s) /\ s \notin register
    /\ sign[s] <= now
    /\ Registered(s) => lastPong[s] = sign[s]
    /\ Live(s) /\ Registered(s) => nextSweep - sign[s] <= Timeout + Interval
    /\ Live(s) /\ ~Registered(s) => sign[s] = opened[s] /\ now <= opened[s] + Timeout

BeatInv ==
    /\ TypeOK
    /\ SweepDue
    /\ \A s \in Sockets : Watched(s)
    /\ accepted = claimed

LEMMA IntervalType == Interval \in Nat \ {0}
BY HeartbeatAssumption DEF Interval

\* What SMT needs to know of the variables' types.
LEMMA Types ==
    ASSUME TypeOK
    PROVE  /\ now \in Nat /\ nextSweep \in Nat
           /\ \A s \in Sockets : /\ sign[s] \in Nat /\ opened[s] \in Nat
                                 /\ lastPong[s] \in Nat \cup {None}
           /\ None \notin Nat /\ Timeout \in Nat
BY HeartbeatAssumption DEF TypeOK

------------------------------------------------------------------------------
\* Steps that leave the clock, the sweep and the nonces alone.

\* What holds of every socket after a step of one of them.
LEMMA SocketStep ==
    ASSUME BeatInv, TypeOK', NEW s \in Sockets, Watched(s)',
           UNCHANGED <<now, nextSweep, claimed, accepted>>,
           \A r \in Sockets \ {s} :
              /\ socket'[r] = socket[r] /\ opened'[r] = opened[r]
              /\ lastPong'[r] = lastPong[r] /\ sign'[r] = sign[r]
              /\ r \in register' => r \in register
    PROVE  BeatInv'
<1>1. \A r \in Sockets \ {s} : Watched(r)'
  BY DEF BeatInv, Watched, Live, Registered
<1>2. SweepDue'
  BY DEF BeatInv, SweepDue, Interval
<1>. QED
  BY <1>1, <1>2 DEF BeatInv

\* A socket is opened, and a registration begins and ends.
LEMMA RegisterActions ==
    ASSUME BeatInv, NEW s \in Sockets,
           Connect(s) \/ BeginRegister(s) \/ EndRegister(s) \/ FailRegister(s)
    PROVE  BeatInv'
<1>1. /\ Watched(s) /\ SweepDue /\ TypeOK
      /\ Interval \in Nat
  BY IntervalType DEF BeatInv
<1>2. TypeOK'
  BY <1>1 DEF TypeOK, Connect, BeginRegister, EndRegister, FailRegister, Sign,
              nonceVars, history
<1>. USE Types, HeartbeatAssumption
<1>3. Watched(s)'
  <2>1. CASE Connect(s)
    BY <1>1, <2>1 DEF Connect, Sign, Watched, Live, Registered, TypeOK
  <2>2. CASE BeginRegister(s)
    BY <1>1, <2>2 DEF BeginRegister, Watched, Live, Registered, history
  <2>3. CASE EndRegister(s)
    BY <1>1, <2>3 DEF EndRegister, Sign, Watched, Live, Registered, TypeOK, SweepDue
  <2>4. CASE FailRegister(s)
    BY <1>1, <2>4 DEF FailRegister, Watched, Live, Registered, history
  <2>. QED
    BY <2>1, <2>2, <2>3, <2>4
<1>4. \A r \in Sockets \ {s} :
         /\ socket'[r] = socket[r] /\ opened'[r] = opened[r]
         /\ lastPong'[r] = lastPong[r] /\ sign'[r] = sign[r]
         /\ r \in register' => r \in register
  BY <1>1 DEF TypeOK, Connect, BeginRegister, EndRegister, FailRegister, Sign, history
<1>5. UNCHANGED <<now, nextSweep, claimed, accepted>>
  BY DEF Connect, BeginRegister, EndRegister, FailRegister, nonceVars, history
<1>. QED
  BY <1>2, <1>3, <1>4, <1>5, SocketStep

\* A sign of life of a socket that is registered puts its silence off.
LEMMA AcceptStep ==
    ASSUME BeatInv, NEW s \in Sockets, Live(s), Accept(s),
           UNCHANGED <<now, nextSweep, socket, opened, register>>
    PROVE  /\ lastPong' \in [Sockets -> Nat \cup {None}]
           /\ sign' \in [Sockets -> Nat]
           /\ \A r \in Sockets : Watched(r)'
<1>1. /\ \A r \in Sockets : Watched(r)
      /\ SweepDue /\ TypeOK /\ Interval \in Nat
  BY IntervalType DEF BeatInv
<1>. USE Types, HeartbeatAssumption
<1>2. /\ lastPong' \in [Sockets -> Nat \cup {None}]
      /\ sign' \in [Sockets -> Nat]
  BY <1>1 DEF Accept, TouchPong, TypeOK
<1>3. /\ \A r \in Sockets \ {s} : lastPong'[r] = lastPong[r] /\ sign'[r] = sign[r]
      /\ ~Registered(s) => lastPong'[s] = None /\ sign'[s] = sign[s]
      /\ Registered(s) => lastPong'[s] = now /\ sign'[s] = now
  BY <1>1 DEF Accept, TouchPong, TypeOK
<1>4. Watched(s)'
  BY <1>1, <1>3 DEF Watched, Live, Registered, SweepDue
<1>5. \A r \in Sockets \ {s} : Watched(r)'
  BY <1>1, <1>3 DEF Watched, Live, Registered
<1>. QED
  BY <1>2, <1>4, <1>5

\* PING without a nonce, and PONG.
LEMMA PingPlainStep ==
    ASSUME BeatInv, NEW s \in Sockets, PingPlain(s)
    PROVE  BeatInv'
<1>1. /\ Live(s) /\ Accept(s)
      /\ UNCHANGED <<now, nextSweep, socket, opened, register, map, ops, claimed,
                     accepted>>
  BY DEF PingPlain, nonceVars
<1>2. /\ lastPong' \in [Sockets -> Nat \cup {None}]
      /\ sign' \in [Sockets -> Nat]
      /\ \A r \in Sockets : Watched(r)'
  BY <1>1, AcceptStep
<1>3. TypeOK' /\ SweepDue'
  BY <1>1, <1>2 DEF BeatInv, TypeOK, SweepDue, Interval
<1>. QED
  BY <1>1, <1>2, <1>3 DEF BeatInv

\* PING with a nonce: answered when the claim succeeds, and only then.
LEMMA PingNonceStep ==
    ASSUME BeatInv, NEW s \in Sockets, NEW n \in Nonces, PingNonce(s, n)
    PROVE  BeatInv'
<1>1. /\ Live(s) /\ now \in Nat /\ ops \in Nat /\ NonceTtl \in Nat
      /\ ops' = ops + 1
      /\ UNCHANGED <<now, nextSweep, socket, opened, register>>
  BY HeartbeatAssumption
  DEF PingNonce, Store!ClaimNonce, Store!Operation, BeatInv, TypeOK
<1>2. CASE Store!Found(n)
  <2>1. UNCHANGED <<map, claimed, lastPong, sign, accepted>>
    BY <1>2 DEF PingNonce, Store!ClaimNonce, history
  <2>. QED
    BY <1>1, <2>1
    DEF BeatInv, TypeOK, SweepDue, Interval, Watched, Live, Registered
<1>3. CASE ~Store!Found(n)
  <2>. DEFINE e == [value |-> {}, expiresAt |-> now + NonceTtl]
  <2>1. /\ Accept(s)
        /\ map' = [map EXCEPT ![n] = e]
        /\ claimed' = [claimed EXCEPT ![n] = @ \cup {Store!This}]
        /\ accepted' = [accepted EXCEPT ![n] = @ \cup {Store!This}]
    BY <1>3 DEF PingNonce, Store!ClaimNonce, Store!Set
  <2>2. e \in Store!Entry /\ Store!This \in Store!Stamp
    BY <1>1 DEF Store!Entry, Store!This, Store!Stamp
  <2>. HIDE DEF e
  <2>3. /\ lastPong' \in [Sockets -> Nat \cup {None}]
        /\ sign' \in [Sockets -> Nat]
        /\ \A r \in Sockets : Watched(r)'
    BY <1>1, <2>1, AcceptStep
  <2>4. TypeOK'
    BY <1>1, <2>1, <2>2, <2>3 DEF BeatInv, TypeOK
  <2>5. accepted' = claimed'
    BY <2>1 DEF BeatInv
  <2>. QED
    BY <1>1, <2>3, <2>4, <2>5 DEF BeatInv, SweepDue, Interval
<1>. QED
  BY <1>2, <1>3

------------------------------------------------------------------------------
\* The ends of connections, and the clock.

\* The sockets of S leave the registry and the network, dropped or not.
LEMMA CloseStep ==
    ASSUME BeatInv, NEW S \in SUBSET Sockets, NEW how \in {"left", "dropped"},
           Close(S, how),
           UNCHANGED <<now, opened, register, nonceVars, history>>,
           nextSweep' \in Nat, SweepDue',
           \A s \in Sockets \ S : Live(s) /\ Registered(s) =>
              nextSweep' - sign[s] <= Timeout + Interval
    PROVE  BeatInv'
<1>1. /\ TypeOK /\ accepted = claimed /\ Interval \in Nat
      /\ \A s \in Sockets : Watched(s)
  BY IntervalType DEF BeatInv
<1>2. TypeOK'
  BY <1>1 DEF TypeOK, Close, nonceVars, history
<1>3. ASSUME NEW s \in Sockets PROVE Watched(s)'
  <2>1. CASE s \in S
    BY <1>1, <2>1, HeartbeatAssumption
    DEF Close, Watched, Live, Registered, history
  <2>2. CASE s \notin S
    BY <1>1, <2>2 DEF Close, Watched, Live, Registered, history, Interval
  <2>. QED
    BY <2>1, <2>2
<1>. QED
  BY <1>1, <1>2, <1>3 DEF BeatInv, nonceVars, history

LEMMA EndActions ==
    ASSUME BeatInv, NEW s \in Sockets, Leave(s) \/ AuthTimeout(s)
    PROVE  BeatInv'
<1>1. /\ Close({s}, "left") \/ Close({s}, "dropped")
      /\ UNCHANGED <<now, nextSweep, opened, register, nonceVars, history>>
  BY DEF Leave, AuthTimeout
<1>2. /\ nextSweep' \in Nat
      /\ SweepDue'
      /\ \A r \in Sockets : Live(r) /\ Registered(r) =>
            nextSweep' - sign[r] <= Timeout + Interval
  BY <1>1 DEF BeatInv, SweepDue, Interval, TypeOK, Watched
<1>. QED
  BY <1>1, <1>2, CloseStep

\* After a sweep every socket that is left gave a sign of life within the timeout.
LEMMA SweepStep ==
    ASSUME BeatInv, EnforceTimeouts
    PROVE  BeatInv'
<1>. DEFINE S == {s \in Stale : Live(s)}
<1>1. /\ now \in Nat /\ Interval \in Nat /\ Timeout \in Nat
      /\ TypeOK /\ \A s \in Sockets : Watched(s)
  BY IntervalType, HeartbeatAssumption DEF BeatInv, TypeOK
<1>2. /\ Close(S, "dropped") /\ S \in SUBSET Sockets
      /\ nextSweep' = now + Interval /\ now' = now
      /\ UNCHANGED <<opened, register, nonceVars, history>>
  BY DEF EnforceTimeouts, Stale
<1>3. nextSweep' \in Nat /\ SweepDue'
  <2>1. Interval' = Interval
    BY DEF Interval
  <2>. QED
    BY <1>1, <1>2, <2>1 DEF SweepDue
<1>4. ASSUME NEW s \in Sockets \ S, Live(s), Registered(s)
      PROVE  nextSweep' - sign[s] <= Timeout + Interval
  <2>1. ~(now - lastPong[s] > Timeout) /\ lastPong[s] = sign[s]
    BY <1>1, <1>4 DEF Stale, Watched
  <2>. QED
    BY <1>1, <1>2, <1>4, <2>1, Types
<1>. HIDE DEF S
<1>. QED
  BY <1>2, <1>3, <1>4, CloseStep

\* The clock waits for the timers that are due.
LEMMA TickStep ==
    ASSUME BeatInv, Tick
    PROVE  BeatInv'
<1>1. /\ now' = now + 1 /\ now < nextSweep /\ Unauthenticated = {}
      /\ UNCHANGED <<nextSweep, socket, opened, register, lastPong, map, ops,
                     claimed, accepted, sign>>
  BY DEF Tick, Store!Tick, Store!store, Store!history
<1>2. /\ now \in Nat /\ nextSweep \in Nat /\ Timeout \in Nat /\ TypeOK
      /\ Interval \in Nat
  BY IntervalType, HeartbeatAssumption DEF BeatInv, TypeOK
<1>3. TypeOK'
  BY <1>1, <1>2 DEF TypeOK
<1>4. SweepDue'
  <2>1. Interval' = Interval
    BY DEF Interval
  <2>. QED
    BY <1>1, <1>2, <2>1 DEF BeatInv, SweepDue
<1>5. ASSUME NEW s \in Sockets PROVE Watched(s)'
  <2>1. Live(s) /\ ~Registered(s) => now # opened[s] + Timeout
    BY <1>1 DEF Unauthenticated
  <2>. QED
    BY <1>1, <1>2, <2>1, Types DEF BeatInv, Watched, Live, Registered, Interval
<1>. QED
  BY <1>1, <1>3, <1>4, <1>5 DEF BeatInv

------------------------------------------------------------------------------
\* The theorems.

\* Before the first connection.
LEMMA InitBeat == Init => BeatInv
<1>. SUFFICES ASSUME Init PROVE BeatInv
  OBVIOUS
<1>1. Interval \in Nat
  BY IntervalType
<1>2. TypeOK
  BY <1>1 DEF Init, TypeOK
<1>3. SweepDue
  BY <1>1 DEF Init, SweepDue
<1>4. ASSUME NEW s \in Sockets PROVE Watched(s)
  <2>1. /\ socket[s] = "new" /\ s \notin register /\ lastPong[s] = None
        /\ sign[s] = 0 /\ now = 0
    BY DEF Init
  <2>. QED
    BY <2>1 DEF Watched, Live, Registered
<1>. QED
  BY <1>2, <1>3, <1>4 DEF Init, BeatInv

\* Every step keeps the invariant.
LEMMA NextBeat == BeatInv /\ [Next]_vars => BeatInv'
<1>. SUFFICES ASSUME BeatInv, [Next]_vars PROVE BeatInv'
  OBVIOUS
<1>1. CASE UNCHANGED vars
  BY <1>1 DEF vars, nonceVars, history, BeatInv, TypeOK, SweepDue, Watched, Live,
              Registered, Interval
<1>. QED
  BY <1>1, RegisterActions, PingPlainStep, PingNonceStep, EndActions, SweepStep,
     TickStep
  DEF Next

\* The sweep and the timers watch every socket, in every reachable state.
THEOREM BeatCorrect == Spec => []BeatInv
BY InitBeat, NextBeat, PTL DEF Spec

\* Every variable keeps its type.
THEOREM BeatTypes == Spec => []TypeOK
<1>1. BeatInv => TypeOK
  BY DEF BeatInv
<1>. QED
  BY <1>1, BeatCorrect, PTL

\* enforceTimeouts: no agent stays connected longer than the timeout and one pause
\* of the sweep after its last sign of life.
THEOREM SilenceIsBounded == Spec => []SilenceBounded
<1>1. BeatInv => SilenceBounded
  <2>. SUFFICES ASSUME BeatInv, NEW s \in Sockets, Live(s)
                PROVE  now - sign[s] <= IF Registered(s) THEN Timeout + Interval
                                                         ELSE Timeout
    BY DEF SilenceBounded
  <2>. QED
    BY Types, IntervalType DEF BeatInv, SweepDue, Watched
<1>. QED
  BY <1>1, BeatCorrect, PTL

\* enforceTimeouts and the timer of handleConnection: who is dropped was silent
\* for the timeout.
THEOREM OnlySilentDropped == Spec => DroppedWasSilent
<1>1. ASSUME BeatInv, [Next]_vars, NEW s \in Sockets, Live(s),
             socket'[s] = "dropped"
      PROVE  now - sign[s] >= IF Registered(s) THEN Timeout + 1 ELSE Timeout
  <2>1. /\ Watched(s) /\ now \in Nat /\ sign[s] \in Nat /\ opened[s] \in Nat
        /\ Timeout \in Nat /\ lastPong[s] \in Nat \cup {None} /\ socket[s] = "open"
        /\ socket \in [Sockets -> {"new", "open", "left", "dropped"}]
    BY <1>1, Types DEF BeatInv, Live, TypeOK
  <2>2. CASE socket' = socket
    BY <1>1, <2>1, <2>2
  <2>3. ASSUME NEW r \in Sockets, Connect(r) \/ Leave(r)
        PROVE  socket'[s] # "dropped"
    BY <2>1, <2>3 DEF Connect, Leave, Close
  <2>4. ASSUME NEW r \in Sockets, AuthTimeout(r)
        PROVE  now - sign[s] >= IF Registered(s) THEN Timeout + 1 ELSE Timeout
    <3>1. r = s
      BY <1>1, <2>1, <2>4 DEF AuthTimeout, Close
    <3>. QED
      BY <2>1, <2>4, <3>1 DEF AuthTimeout, Unauthenticated, Watched
  <2>5. ASSUME EnforceTimeouts
        PROVE  now - sign[s] >= IF Registered(s) THEN Timeout + 1 ELSE Timeout
    <3>1. s \in Stale
      BY <1>1, <2>1, <2>5 DEF EnforceTimeouts, Close
    <3>. QED
      BY <2>1, <3>1 DEF Stale, Watched
  <2>. QED
    BY <1>1, <2>2, <2>3, <2>4, <2>5
    DEF Next, vars, BeginRegister, EndRegister, FailRegister, PingPlain, PingNonce,
        Tick
<1>2. BeatInv /\ [Next]_vars
        => [\A s \in Sockets :
              Live(s) /\ socket'[s] = "dropped" =>
                now - sign[s] >= IF Registered(s) THEN Timeout + 1
                                                  ELSE Timeout]_vars
  BY <1>1
<1>. QED
  BY <1>2, BeatCorrect, PTL DEF Spec, DroppedWasSilent

------------------------------------------------------------------------------
\* The nonces: what is proved of PendingStore holds of the part used here.

Proved == INSTANCE PendingStoreProofs
            WITH Clients <- {}, Requests <- {}, Max <- 0, WindowMs <- 0,
                 Ttl <- <<>>, Second <- 1,
                 called <- <<>>, granted <- <<>>, asked <- <<>>

\* The constants are as PendingStore assumes.
LEMMA StoreNonce == Proved!Spec => []Proved!NonceOnce
<1>1. /\ {} \cap Nonces = {} /\ {} \cap {} = {}
      /\ {0, NonceTtl, MaxTime, MaxOps} \subseteq Nat
      /\ <<>> \in [{} -> Nat]
      /\ 1 \in Nat \ {0}
  BY HeartbeatAssumption
<1>2. None \notin Proved!Entry /\ None \notin Nat
  BY HeartbeatAssumption DEF Store!Entry, Proved!Entry, Store!Stamp, Proved!Stamp
<1>. QED
  BY <1>1, <1>2, Proved!NonceIsOnce

\* The gateway uses the store through its operations only.
THEOREM BeatUsesStore == Spec => Proved!Spec
<1>1. Init => Proved!Init
  BY DEF Init, Proved!Init, Proved!Keys
<1>2. [Next]_vars => [Proved!Next]_Proved!vars
  <2>. SUFFICES ASSUME [Next]_vars PROVE Proved!Next \/ UNCHANGED Proved!vars
    OBVIOUS
  <2>. USE DEF Proved!vars, Proved!store, Proved!history
  <2>1. CASE UNCHANGED <<now, map, ops, claimed>>
    BY <2>1
  <2>2. ASSUME NEW s \in Sockets, NEW n \in Nonces, PingNonce(s, n)
        PROVE  Proved!Next
    BY <2>2
    DEF PingNonce, Store!ClaimNonce, Store!Operation, Store!Found, Store!Set,
        Store!This, Proved!Next, Proved!ClaimNonce, Proved!Operation, Proved!Found,
        Proved!Set, Proved!This
  <2>3. CASE Tick
    BY <2>3 DEF Tick, Store!Tick, Store!store, Store!history, Proved!Next, Proved!Tick
  <2>. QED
    BY <2>1, <2>2, <2>3
    DEF Next, vars, nonceVars, Connect, BeginRegister, EndRegister, FailRegister,
        PingPlain, Leave, AuthTimeout, EnforceTimeouts
<1>. QED
  BY <1>1, <1>2, PTL DEF Spec, Proved!Spec

\* onPing: a nonce that is remembered keeps nobody alive, on no socket.
THEOREM ReplayIsRefused == Spec => []ReplayKeepsNobody
<1>1. BeatInv /\ Proved!NonceOnce => ReplayKeepsNobody
  BY DEF BeatInv, Proved!NonceOnce, ReplayKeepsNobody
<1>. QED
  BY <1>1, BeatCorrect, BeatUsesStore, StoreNonce, PTL

===============================================================================
