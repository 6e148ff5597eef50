-------------------------- MODULE RequestRelayProofs --------------------------
(***************************************************************************)
(* Proofs about RequestRelay, for any commands, users, jobs and bounds.    *)
(***************************************************************************)
EXTENDS RelayRefinement, TLAPS

\* Inside the try block the handler of a command with an id holds its key.
KeyOfCommand ==
    \A j \in Jobs :
        Inside(j) => /\ job[j].key \in Key
                     /\ job[j].cmd.id # None =>
                          job[j].key = [of |-> job[j].cmd, at |-> 0]

\* A handler that is about to forward a command, or about to take a free gate,
\* does it for an emission that has not been forwarded yet.
EmissionLeft ==
    \A j \in Jobs :
        LET c == job[j].cmd
        IN  /\ At(j, "lookup") /\ c.id # None => taken[c] < emitted[c]
            /\ At(j, "gate") /\ c.id # None /\ GateKey(c) \notin inFlight =>
                 taken[c] < emitted[c]

\* A pending key stands for a command one answer of which is still to come.
AnswerLeft == \A c \in pending : relayed[c] < taken[c]

\* The inductive invariant.
RelayInv ==
    /\ TypeOK
    /\ GateHeld
    /\ KeyOfCommand
    /\ EmissionLeft
    /\ ForwardedOnce
    /\ AnswerLeft
    /\ AnsweredOnce

------------------------------------------------------------------------------
\* A handler that is not idle has the fields of Running.
LEMMA Runs ==
    ASSUME TypeOK, NEW j \in Jobs, job[j].pc # "idle"
    PROVE  job[j] \in Running
<1>1. job[j] \in Running \cup {Idle}
  BY DEF TypeOK
<1>2. Idle.pc = "idle"
  BY DEF Idle
<1> QED  BY <1>1, <1>2

\* What beginRequest adds to inFlightRequests is a key.
LEMMA GateKeyType ==
    ASSUME TypeOK, NEW c \in Commands
    PROVE  /\ GateKey(c) \in Key
           /\ c.id # None => GateKey(c) = [of |-> c, at |-> 0]
<1>1. c.user \in Users
  BY RequestRelayAssumption
<1> QED  BY <1>1 DEF GateKey, Key, TypeOK

\* A handler inside the try block holds its key, alone.
LEMMA Holder ==
    ASSUME GateHeld, NEW i \in Jobs, NEW j \in Jobs, Inside(i)
    PROVE  /\ job[i].key \in inFlight
           /\ Inside(j) /\ job[i].key = job[j].key => i = j
BY DEF GateHeld

\* A command with an id is inside at most one try block.
LEMMA OneInside ==
    ASSUME GateHeld, KeyOfCommand, NEW i \in Jobs, NEW j \in Jobs,
           Inside(i), Inside(j), job[i].cmd = job[j].cmd, job[i].cmd.id # None
    PROVE  i = j
<1>1. job[i].key = job[j].key
  BY DEF KeyOfCommand
<1> QED  BY <1>1, Holder

\* The state a dashboard finds at startup satisfies the invariant.
LEMMA Initial == Init => RelayInv
<1> SUFFICES ASSUME Init PROVE RelayInv
  OBVIOUS
<1>1. \A j \in Jobs : job[j].pc = "idle"
  BY DEF Init, Idle
<1>2. TypeOK
  BY RequestRelayAssumption DEF Init, TypeOK
<1>3. GateHeld
  BY <1>1 DEF GateHeld, Inside, At, Init
<1>4. KeyOfCommand /\ EmissionLeft
  BY <1>1 DEF KeyOfCommand, EmissionLeft, Inside, At
<1>5. ForwardedOnce /\ AnswerLeft /\ AnsweredOnce
  BY DEF ForwardedOnce, AnswerLeft, AnsweredOnce, Init
<1> QED  BY <1>2, <1>3, <1>4, <1>5 DEF RelayInv

\* A handler that leaves the try block takes its key, and only its key, along.
LEMMA Leaving ==
    ASSUME TypeOK, GateHeld, KeyOfCommand, NEW j \in Jobs, Inside(j),
           Release(j), Return(j)
    PROVE  GateHeld' /\ KeyOfCommand'
<1> USE DEF Inside, At
<1>1. /\ job' = [job EXCEPT ![j] = Idle]
      /\ inFlight' = inFlight \ {job[j].key}
  BY DEF Release, Return
<1>2. job'[j].pc = "idle" /\ \A i \in Jobs \ {j} : job'[i] = job[i]
  BY <1>1 DEF TypeOK, Idle
<1>3. KeyOfCommand'
  BY <1>2 DEF KeyOfCommand
<1>4. \A k \in inFlight' : \E i \in Jobs : Inside(i)' /\ job'[i].key = k
  BY <1>1, <1>2 DEF GateHeld
<1>5. \A i \in Jobs : Inside(i)' => job'[i].key \in inFlight'
  BY <1>1, <1>2 DEF GateHeld
<1>6. \A i, k \in Jobs :
        Inside(i)' /\ Inside(k)' /\ job'[i].key = job'[k].key => i = k
  BY <1>2 DEF GateHeld
<1> QED  BY <1>3, <1>4, <1>5, <1>6 DEF GateHeld

\* A handler that was not inside, and is not afterwards, disturbs no key.
LEMMA Outside ==
    ASSUME TypeOK, GateHeld, KeyOfCommand, UNCHANGED inFlight,
           \A i \in Jobs : \/ job'[i] = job[i]
                           \/ (~Inside(i) /\ ~Inside(i)')
    PROVE  GateHeld' /\ KeyOfCommand'
<1>1. ASSUME NEW i \in Jobs
      PROVE  /\ Inside(i)' <=> Inside(i)
             /\ Inside(i) => job'[i] = job[i]
  BY DEF Inside, At
<1>2. KeyOfCommand'
  BY <1>1 DEF KeyOfCommand
<1>3. {job[i].key : i \in {k \in Jobs : Inside(k)}}'
        = {job[i].key : i \in {k \in Jobs : Inside(k)}}
  BY <1>1
<1>4. \A i, k \in Jobs :
        Inside(i)' /\ Inside(k)' /\ job'[i].key = job'[k].key => i = k
  BY <1>1 DEF GateHeld
<1> QED  BY <1>2, <1>3, <1>4 DEF GateHeld

------------------------------------------------------------------------------
\* The promises about emissions carry over as long as the counters stay, keys
\* are only added, and the handlers concerned are the same.
LEMMA Carried ==
    ASSUME RelayInv, UNCHANGED <<emitted, taken>>, inFlight \subseteq inFlight',
           \A i \in Jobs : job'[i] = job[i] \/ (~At(i, "lookup")' /\ ~At(i, "gate")')
    PROVE  EmissionLeft' /\ ForwardedOnce'
<1> USE DEF RelayInv
<1>1. ForwardedOnce'
  BY DEF ForwardedOnce
<1>2. ASSUME NEW i \in Jobs, job'[i] = job[i], job[i].pc # "idle",
             job[i].cmd.id # None
      PROVE  /\ job[i].cmd \in Commands
             /\ GateKey(job[i].cmd)' = GateKey(job[i].cmd)
  BY <1>2, Runs DEF Running, GateKey
<1>3. ASSUME NEW i \in Jobs, job'[i] = job[i]
      PROVE  /\ At(i, "lookup")' /\ job'[i].cmd.id # None =>
                   taken'[job'[i].cmd] < emitted'[job'[i].cmd]
             /\ At(i, "gate")' /\ job'[i].cmd.id # None
                  /\ GateKey(job[i].cmd)' \notin inFlight' =>
                    taken'[job'[i].cmd] < emitted'[job'[i].cmd]
  BY <1>2, <1>3 DEF EmissionLeft, At
<1>4. EmissionLeft'
  BY <1>3 DEF EmissionLeft
<1> QED  BY <1>1, <1>4

\* As long as no answer is passed on and no command forwarded, the pending keys
\* may only go.
LEMMA NothingRelayed ==
    ASSUME TypeOK, AnswerLeft, AnsweredOnce,
           pending' \subseteq pending, UNCHANGED <<taken, relayed>>
    PROVE  AnswerLeft' /\ AnsweredOnce'
BY DEF AnswerLeft, AnsweredOnce

\* The answer to a command is passed on at most once for a pending key.
LEMMA Relayed ==
    ASSUME TypeOK, AnswerLeft, AnsweredOnce, NEW c \in Commands, Relay(c),
           UNCHANGED taken
    PROVE  AnswerLeft' /\ AnsweredOnce' /\ relayed' \in [Commands -> Nat]
             /\ pending' \subseteq Commands
<1>1. pending' = pending \ {c} /\ pending \subseteq Commands
  BY DEF Relay, TypeOK
<1>2. CASE c \in pending /\ c.user \in watching
  <2>1. relayed' = [relayed EXCEPT ![c] = @ + 1]
    BY <1>2 DEF Relay, Count
  <2> QED  BY <1>1, <1>2, <2>1 DEF AnswerLeft, AnsweredOnce, TypeOK
<1>3. CASE ~(c \in pending /\ c.user \in watching)
  <2>1. relayed' = relayed
    BY <1>3 DEF Relay
  <2> QED  BY <1>1, <2>1 DEF AnswerLeft, AnsweredOnce, TypeOK
<1> QED  BY <1>2, <1>3

\* Spending leaves the budget a budget.
LEMMA Spent ==
    ASSUME TypeOK, NEW k \in Trouble, Spend(k)
    PROVE  budget' \in [Trouble -> Nat]
BY DEF TypeOK, Spend

------------------------------------------------------------------------------
\* The steps of a web-client handler.

\* A dashboard's emission starts listeners at the gate.
LEMMA EmitStep ==
    ASSUME RelayInv, NEW c \in Commands, NEW listeners \in SUBSET Jobs,
           Emit(c, listeners)
    PROVE  RelayInv'
<1> USE DEF RelayInv, memory, world
<1>1. \A j \in Jobs : \/ job'[j] = job[j]
                      \/ /\ job[j].pc = "idle"
                         /\ job'[j].pc = "gate"
                         /\ job'[j].cmd = c
                         /\ job'[j] \in Running
  <2>1. ASSUME NEW j \in Jobs, j \notin listeners
        PROVE  job'[j] = job[j]
    BY <2>1 DEF Emit
  <2>2. ASSUME NEW j \in Jobs, j \in listeners
        PROVE  /\ job[j].pc = "idle"
               /\ job'[j] = [pc |-> "gate", cmd |-> c, key |-> None]
    BY <2>2 DEF Emit, At
  <2> HIDE DEF RelayInv
  <2>3. ASSUME NEW j \in Jobs, j \in listeners
        PROVE  /\ job'[j].pc = "gate"
               /\ job'[j].cmd = c
               /\ job'[j] \in Running
    BY <2>2, <2>3 DEF Running, PC
  <2> QED  BY <2>1, <2>2, <2>3
<1>2. /\ emitted' = [emitted EXCEPT ![c] = @ + 1]
      /\ UNCHANGED <<inFlight, pending, now, online, watching, atDevice, taken,
                     relayed>>
  BY DEF Emit, Count
<1>3. job' \in [Jobs -> Running \cup {Idle}]
  <2>1. job' = [j \in Jobs |-> job'[j]]
    BY DEF Emit
  <2>2. \A j \in Jobs : job'[j] \in Running \cup {Idle}
    BY <1>1 DEF TypeOK
  <2> HIDE DEF RelayInv
  <2> QED  BY <2>1, <2>2
<1>4. TypeOK'
  <2>1. "emit" \in Trouble /\ budget' \in [Trouble -> Nat]
    BY Spent DEF Trouble, Emit
  <2> QED  BY <1>2, <1>3, <2>1 DEF TypeOK
<1>5. GateHeld' /\ KeyOfCommand'
  <2>1. ASSUME NEW j \in Jobs
        PROVE  job'[j] = job[j] \/ (~Inside(j) /\ ~Inside(j)')
    BY <1>1 DEF Inside, At
  <2> QED  BY <1>2, <2>1, Outside
<1>6. \A d \in Commands : /\ emitted'[d] >= emitted[d]
                          /\ d.id # None => emitted'[d] >= taken[d]
                          /\ d = c /\ d.id # None => emitted'[d] > taken[d]
  BY <1>2 DEF TypeOK, ForwardedOnce
<1>7. ForwardedOnce'
  BY <1>2, <1>6 DEF ForwardedOnce, TypeOK
<1>8. ASSUME NEW j \in Jobs
      PROVE  /\ At(j, "lookup")' /\ job'[j].cmd.id # None =>
                   taken'[job'[j].cmd] < emitted'[job'[j].cmd]
             /\ At(j, "gate")' /\ job'[j].cmd.id # None =>
                   taken'[job'[j].cmd] < emitted'[job'[j].cmd]
  <2>1. CASE job'[j] = job[j]
    <3>1. ~At(j, "gate")
      BY DEF Emit, Settled
    <3>2. ASSUME At(j, "lookup"), job[j].cmd.id # None
          PROVE  taken'[job'[j].cmd] < emitted'[job'[j].cmd]
      <4>1. job[j].cmd \in Commands
        BY <3>2, Runs DEF Running, At
      <4>2. taken[job[j].cmd] < emitted[job[j].cmd]
        BY <3>2 DEF EmissionLeft
      <4> QED  BY <2>1, <4>1, <4>2, <1>2, <1>6 DEF TypeOK
    <3> QED  BY <2>1, <3>1, <3>2 DEF At
  <2>2. CASE job'[j].pc = "gate" /\ job'[j].cmd = c
    BY <2>2, <1>2, <1>6 DEF At, TypeOK
  <2> QED  BY <1>1, <2>1, <2>2
<1>9. EmissionLeft'
  BY <1>8 DEF EmissionLeft
<1>10. AnswerLeft' /\ AnsweredOnce'
  BY <1>2, NothingRelayed
<1> QED  BY <1>4, <1>5, <1>7, <1>9, <1>10

\* beginRequest refuses a listener.
LEMMA DedupedStep ==
    ASSUME RelayInv, NEW j \in Jobs, Deduped(j)
    PROVE  RelayInv'
<1> USE DEF RelayInv, memory, world
<1>1. /\ job' = [job EXCEPT ![j] = Idle]
      /\ At(j, "gate")
      /\ UNCHANGED <<inFlight, pending, now, online, watching, atDevice, emitted,
                     taken, relayed, budget>>
  BY DEF Deduped, Return
<1>2. job'[j].pc = "idle" /\ \A i \in Jobs \ {j} : job'[i] = job[i]
  BY <1>1 DEF TypeOK, Idle
<1>3. TypeOK'
  BY <1>1 DEF TypeOK
<1>4. GateHeld' /\ KeyOfCommand'
  <2>1. ASSUME NEW i \in Jobs
        PROVE  job'[i] = job[i] \/ (~Inside(i) /\ ~Inside(i)')
    BY <1>1, <1>2 DEF Inside, At
  <2> QED  BY <1>1, <2>1, Outside
<1>5. EmissionLeft' /\ ForwardedOnce'
  <2>1. ASSUME NEW i \in Jobs
        PROVE  job'[i] = job[i] \/ (~At(i, "lookup")' /\ ~At(i, "gate")')
    BY <1>2 DEF At
  <2> QED  BY <1>1, <2>1, Carried
<1>6. AnswerLeft' /\ AnsweredOnce'
  BY <1>1, NothingRelayed
<1> QED  BY <1>3, <1>4, <1>5, <1>6

\* beginRequest lets a listener in.
LEMMA BeginStep ==
    ASSUME RelayInv, NEW j \in Jobs, Begin(j)
    PROVE  RelayInv'
<1> USE DEF RelayInv, memory, world
<1> DEFINE c == job[j].cmd
           k == GateKey(c)
           p == IF c.kind = "chat" THEN "chat" ELSE "lookup"
<1>1. At(j, "gate") /\ job[j] \in Running /\ c \in Commands
  <2>1. At(j, "gate")
    BY DEF Begin
  <2> QED  BY <2>1, Runs DEF At, Running
<1>2. /\ k \in Key /\ k \notin inFlight
      /\ c.id # None => k = [of |-> c, at |-> 0]
  BY <1>1, GateKeyType DEF Begin, Duplicate
<1>3. /\ inFlight' = inFlight \cup {k}
      /\ UNCHANGED <<pending, now, online, watching, atDevice, emitted, relayed,
                     budget>>
  BY DEF Begin
<1>4. /\ job' = [job EXCEPT ![j].pc = p, ![j].key = k]
      /\ taken' = IF c.kind = "chat" THEN [taken EXCEPT ![c] = @ + 1] ELSE taken
  BY DEF Begin, Count
<1>5. /\ job'[j] = [job[j] EXCEPT !.pc = p, !.key = k]
      /\ \A i \in Jobs \ {j} : job'[i] = job[i]
  BY <1>4 DEF TypeOK
<1>6. /\ job'[j] \in Running /\ job'[j].pc = p /\ job'[j].key = k
      /\ job'[j].cmd = c
  BY <1>1, <1>2, <1>5 DEF Running, PC
<1>7. Inside(j)' /\ ~Inside(j) /\ \A i \in Jobs \ {j} : Inside(i)' = Inside(i)
  BY <1>1, <1>5, <1>6 DEF Inside, At
<1> HIDE DEF c, k, p
<1>8. taken' \in [Commands -> Nat] /\ \A d \in Commands \ {c} : taken'[d] = taken[d]
  BY <1>1, <1>4 DEF TypeOK
<1>9. TypeOK'
  <2>1. job' \in [Jobs -> Running \cup {Idle}]
    BY <1>4, <1>5, <1>6 DEF TypeOK
  <2> QED  BY <1>2, <1>3, <1>8, <2>1 DEF TypeOK
<1>10. GateHeld'
  <2>1. \A i \in Jobs \ {j} : Inside(i) => job[i].key \in inFlight
    BY Holder
  <2>2. \A x \in inFlight' : \E i \in Jobs : Inside(i)' /\ job'[i].key = x
    <3>1. \A x \in inFlight : \E i \in Jobs : Inside(i) /\ job[i].key = x
      BY DEF GateHeld
    <3> QED  BY <1>3, <1>5, <1>6, <1>7, <3>1
  <2>3. \A i \in Jobs : Inside(i)' => job'[i].key \in inFlight'
    BY <1>3, <1>5, <1>6, <1>7, <2>1
  <2>4. \A x \in Jobs, y \in Jobs :
          Inside(x)' /\ Inside(y)' /\ job'[x].key = job'[y].key => x = y
    <3>1. \A x \in Jobs \ {j} : Inside(x)' => job'[x].key # job'[j].key
      BY <1>2, <1>5, <1>6, <1>7, <2>1
    <3> QED  BY <1>5, <1>7, <3>1 DEF GateHeld
  <2> QED  BY <2>2, <2>3, <2>4 DEF GateHeld
<1>11. KeyOfCommand'
  BY <1>2, <1>5, <1>6, <1>7 DEF KeyOfCommand
<1>12. c.id # None => taken[c] < emitted[c]
  BY <1>1, <1>2 DEF EmissionLeft, c, k
<1>13. ForwardedOnce'
  BY <1>1, <1>3, <1>4, <1>8, <1>12 DEF ForwardedOnce, TypeOK
<1>14. EmissionLeft'
  <2>1. ASSUME NEW i \in Jobs \ {j}, job[i].cmd = c, At(i, "lookup")
        PROVE  c.id = None
    <3>1. Inside(i) /\ job[i].key \in inFlight
      BY <2>1, Holder DEF Inside
    <3> QED  BY <2>1, <3>1, <1>2 DEF KeyOfCommand
  <2>2. ASSUME NEW i \in Jobs \ {j}
        PROVE  /\ (At(i, "lookup")' /\ job'[i].cmd.id # None =>
                     taken'[job'[i].cmd] < emitted'[job'[i].cmd])
               /\ (At(i, "gate")' /\ job'[i].cmd.id # None
                    /\ GateKey(job[i].cmd)' \notin inFlight' =>
                     taken'[job'[i].cmd] < emitted'[job'[i].cmd])
    <3>1. GateKey(job[i].cmd)' = GateKey(job[i].cmd)
      BY <1>3, <1>5 DEF GateKey
    <3>2. CASE job[i].pc \notin {"lookup", "gate"}
      BY <3>2, <1>5 DEF At
    <3>3. CASE job[i].pc \in {"lookup", "gate"} /\ job[i].cmd = c
      <4>1. k \in inFlight'
        BY <1>3
      <4>2. GateKey(job[i].cmd) = k
        BY <3>3 DEF k
      <4> QED  BY <3>1, <3>3, <4>1, <4>2, <2>1, <1>5 DEF At
    <3>4. CASE job[i].pc \in {"lookup", "gate"} /\ job[i].cmd # c
      <4>1. job[i].cmd \in Commands
        BY <3>4, Runs DEF Running
      <4>2. taken'[job[i].cmd] = taken[job[i].cmd]
        BY <3>4, <4>1, <1>8
      <4> QED  BY <3>1, <4>2, <1>3, <1>5 DEF EmissionLeft, At
    <3> QED  BY <3>2, <3>3, <3>4
  <2>3. ASSUME At(j, "lookup")'
        PROVE  taken'[c] = taken[c]
    BY <2>3, <1>4, <1>6 DEF At, p
  <2>4. ~At(j, "gate")'
    BY <1>6 DEF At, p
  <2> QED  BY <2>2, <2>3, <2>4, <1>3, <1>6, <1>12 DEF EmissionLeft
<1>15. AnswerLeft' /\ AnsweredOnce'
  BY <1>1, <1>3, <1>4, <1>8 DEF AnswerLeft, AnsweredOnce, TypeOK
<1> QED  BY <1>9, <1>10, <1>11, <1>13, <1>14, <1>15

\* Nobody is at the gate, and handlers only end.
LEMMA Ending ==
    ASSUME RelayInv, Settled, UNCHANGED emitted,
           \A i \in Jobs : \/ job'[i] = job[i]
                           \/ job'[i].pc \notin {"lookup", "gate"},
           \A i \in Jobs : At(i, "lookup")' /\ job[i].cmd.id # None =>
                              taken'[job[i].cmd] = taken[job[i].cmd]
    PROVE  EmissionLeft'
<1> SUFFICES ASSUME NEW i \in Jobs
             PROVE  /\ At(i, "lookup")' /\ job'[i].cmd.id # None =>
                         taken'[job'[i].cmd] < emitted'[job'[i].cmd]
                    /\ ~At(i, "gate")'
  BY DEF EmissionLeft
<1>1. CASE job'[i] = job[i]
  BY <1>1 DEF RelayInv, EmissionLeft, Settled, At
<1>2. CASE job'[i].pc \notin {"lookup", "gate"}
  BY <1>2 DEF At
<1> QED  BY <1>1, <1>2

\* The command is sent to the device.
LEMMA ForwardStep ==
    ASSUME RelayInv, NEW j \in Jobs, Forward(j)
    PROVE  RelayInv'
<1> USE DEF RelayInv
<1> DEFINE c == job[j].cmd
<1>1. /\ At(j, "lookup") /\ Inside(j) /\ Settled
      /\ job[j] \in Running /\ c \in Commands
  <2>1. At(j, "lookup") /\ Settled
    BY DEF Forward
  <2> QED  BY <2>1, Runs DEF At, Inside, Running
<1>2. /\ Release(j) /\ Return(j)
      /\ pending' = pending \cup {c}
      /\ atDevice' = atDevice \cup {c}
      /\ taken' = [taken EXCEPT ![c] = @ + 1]
      /\ UNCHANGED <<now, online, watching, emitted, relayed, budget>>
  BY DEF Forward, Count
<1>3. job'[j].pc = "idle" /\ \A i \in Jobs \ {j} : job'[i] = job[i]
  BY <1>2 DEF Return, TypeOK, Idle
<1>4. GateHeld' /\ KeyOfCommand'
  BY <1>1, <1>2, Leaving
<1>5. taken' \in [Commands -> Nat] /\ \A d \in Commands \ {c} : taken'[d] = taken[d]
  BY <1>1, <1>2 DEF TypeOK
<1>6. TypeOK'
  BY <1>1, <1>2, <1>5 DEF TypeOK, Release, Return
<1>7. c.id # None => taken[c] < emitted[c]
  BY <1>1 DEF EmissionLeft
<1>8. ForwardedOnce'
  BY <1>1, <1>2, <1>5, <1>7 DEF ForwardedOnce, TypeOK
<1>9. EmissionLeft'
  <2>1. ASSUME NEW i \in Jobs, At(i, "lookup")', job[i].cmd.id # None
        PROVE  taken'[job[i].cmd] = taken[job[i].cmd]
    <3>1. i # j /\ job[i].pc = "lookup"
      BY <2>1, <1>3 DEF At
    <3>2. job[i].cmd \in Commands
      BY <3>1, Runs DEF Running
    <3>3. job[i].cmd # c
      BY <2>1, <3>1, <1>1, OneInside DEF Inside, At
    <3> QED  BY <3>2, <3>3, <1>5
  <2>2. \A i \in Jobs : \/ job'[i] = job[i]
                        \/ job'[i].pc \notin {"lookup", "gate"}
    BY <1>3
  <2> QED  BY <1>1, <1>2, <2>1, <2>2, Ending
<1>10. AnswerLeft' /\ AnsweredOnce'
  BY <1>1, <1>2, <1>5 DEF AnswerLeft, AnsweredOnce, TypeOK
<1> QED  BY <1>4, <1>6, <1>8, <1>9, <1>10

\* A handler leaves without sending anything to the device: ChatDone and Fail.
LEMMA LeaveStep ==
    ASSUME RelayInv, NEW j \in Jobs, ChatDone(j) \/ Fail(j)
    PROVE  RelayInv'
<1> USE DEF RelayInv
<1>1. Inside(j) /\ Settled /\ Release(j) /\ Return(j)
  BY DEF ChatDone, Fail, Inside
<1>2. UNCHANGED <<pending, now, online, watching, atDevice, emitted, taken,
                  relayed, budget>>
  BY DEF ChatDone, Fail, world, history
<1>3. job'[j].pc = "idle" /\ \A i \in Jobs \ {j} : job'[i] = job[i]
  BY <1>1 DEF Return, TypeOK, Idle
<1>4. GateHeld' /\ KeyOfCommand'
  BY <1>1, Leaving
<1>5. TypeOK'
  BY <1>1, <1>2 DEF TypeOK, Release, Return
<1>6. EmissionLeft'
  <2>1. \A i \in Jobs : \/ job'[i] = job[i]
                        \/ job'[i].pc \notin {"lookup", "gate"}
    BY <1>3
  <2> QED  BY <1>1, <1>2, <2>1, Ending
<1>7. ForwardedOnce' /\ AnswerLeft' /\ AnsweredOnce'
  BY <1>2, NothingRelayed DEF ForwardedOnce
<1> QED  BY <1>4, <1>5, <1>6, <1>7

------------------------------------------------------------------------------
\* The steps of an answer.

\* Every other step leaves the keys, the counters of commands and the handlers
\* of the dashboard alone.
LEMMA Aside ==
    ASSUME RelayInv, UNCHANGED <<inFlight, emitted, taken>>,
           \A i \in Jobs : \/ job'[i] = job[i]
                           \/ /\ job[i].pc \in {"idle", "touch"}
                              /\ job'[i].pc \in {"idle", "touch"}
    PROVE  GateHeld' /\ KeyOfCommand' /\ EmissionLeft' /\ ForwardedOnce'
<1> USE DEF RelayInv
<1>1. GateHeld' /\ KeyOfCommand'
  <2>1. ASSUME NEW i \in Jobs
        PROVE  job'[i] = job[i] \/ (~Inside(i) /\ ~Inside(i)')
    BY DEF Inside, At
  <2> QED  BY <2>1, Outside
<1>2. EmissionLeft' /\ ForwardedOnce'
  <2>1. ASSUME NEW i \in Jobs
        PROVE  job'[i] = job[i] \/ (~At(i, "lookup")' /\ ~At(i, "gate")')
    BY DEF At
  <2> QED  BY <2>1, Carried
<1> QED  BY <1>1, <1>2

\* A result arrives, and is passed on at once or after devices.touch.
LEMMA AnswerStep ==
    ASSUME RelayInv,
           \/ \E c \in Commands : Result(c) \/ \E j \in Jobs : ImageResult(j, c)
           \/ \E j \in Jobs : Touched(j) \/ TouchFailed(j)
    PROVE  RelayInv'
<1> USE DEF RelayInv
<1>1. ASSUME NEW c \in Commands, Answered(c)
      PROVE  atDevice' \subseteq Commands /\ budget' \in [Trouble -> Nat]
  BY <1>1, Spent DEF Answered, TypeOK, Trouble
<1>2. CASE \E c \in Commands : Result(c)
  <2>1. PICK c \in Commands : Result(c)
    BY <1>2
  <2>2. /\ Answered(c) /\ Relay(c)
        /\ UNCHANGED <<inFlight, job, now, online, watching, emitted, taken>>
    BY <2>1 DEF Result
  <2>3. /\ AnswerLeft' /\ AnsweredOnce'
        /\ relayed' \in [Commands -> Nat] /\ pending' \subseteq Commands
    BY <2>2, Relayed
  <2>4. TypeOK'
    BY <1>1, <2>2, <2>3 DEF TypeOK
  <2> QED  BY <2>2, <2>3, <2>4, Aside
<1>3. CASE \E c \in Commands, j \in Jobs : ImageResult(j, c)
  <2>1. PICK c \in Commands, j \in Jobs : ImageResult(j, c)
    BY <1>3
  <2> DEFINE touch == [pc |-> "touch", cmd |-> c, key |-> None]
  <2>2. /\ Answered(c) /\ job[j].pc = "idle"
        /\ job' = [job EXCEPT ![j] = touch]
        /\ UNCHANGED <<inFlight, pending, now, online, watching, emitted, taken,
                       relayed>>
    BY <2>1 DEF ImageResult, At, memory, history
  <2>3. touch \in Running /\ touch.pc = "touch"
    BY DEF Running, PC
  <2> HIDE DEF touch
  <2>4. \A i \in Jobs : \/ job'[i] = job[i]
                        \/ /\ job[i].pc \in {"idle", "touch"}
                           /\ job'[i].pc \in {"idle", "touch"}
    BY <2>2, <2>3 DEF TypeOK
  <2>5. TypeOK'
    BY <1>1, <2>2, <2>3 DEF TypeOK
  <2> QED  BY <2>2, <2>4, <2>5, Aside, NothingRelayed
<1>4. CASE \E j \in Jobs : Touched(j) \/ TouchFailed(j)
  <2>1. PICK j \in Jobs : Touched(j) \/ TouchFailed(j)
    BY <1>4
  <2>2. /\ job[j].pc = "touch"
        /\ job' = [job EXCEPT ![j] = Idle]
        /\ UNCHANGED <<inFlight, now, online, watching, atDevice, emitted, taken,
                       budget>>
    BY <2>1 DEF Touched, TouchFailed, Return, At, memory, world, history
  <2>3. /\ AnswerLeft' /\ AnsweredOnce'
        /\ relayed' \in [Commands -> Nat] /\ pending' \subseteq Commands
    <3>1. job[j].cmd \in Commands
      BY <2>2, Runs DEF Running
    <3>2. CASE Touched(j)
      BY <2>2, <3>1, <3>2, Relayed DEF Touched
    <3>3. CASE TouchFailed(j)
      BY <3>3, <2>2, NothingRelayed DEF TouchFailed, TypeOK, memory, history
    <3> QED  BY <2>1, <3>2, <3>3
  <2>4. \A i \in Jobs : \/ job'[i] = job[i]
                        \/ /\ job[i].pc \in {"idle", "touch"}
                           /\ job'[i].pc \in {"idle", "touch"}
    BY <2>2 DEF TypeOK, Idle
  <2>5. TypeOK'
    BY <2>2, <2>3 DEF TypeOK
  <2> QED  BY <2>2, <2>3, <2>4, <2>5, Aside
<1> QED  BY <1>2, <1>3, <1>4

\* The steps of what is around the gateway, and a restart.
LEMMA AroundStep ==
    ASSUME RelayInv,
           \/ Tick \/ Link \/ Restart \/ UNCHANGED vars
           \/ \E u \in Users : Watch(u)
           \/ \E c \in Commands : Expire(c)
    PROVE  RelayInv'
<1> USE DEF RelayInv, memory, world, history
<1>1. CASE Tick
  <2>1. TypeOK'
    BY <1>1 DEF Tick, TypeOK
  <2> QED  BY <1>1, <2>1, Aside, NothingRelayed DEF Tick
<1>2. CASE Link
  <2>1. "link" \in Trouble /\ budget' \in [Trouble -> Nat]
    BY <1>2, Spent DEF Link, Trouble
  <2>2. TypeOK'
    BY <1>2, <2>1 DEF Link, TypeOK
  <2> QED  BY <1>2, <2>2, Aside, NothingRelayed DEF Link
<1>3. CASE \E u \in Users : Watch(u)
  <2>1. PICK u \in Users : Watch(u)
    BY <1>3
  <2>2. "watch" \in Trouble /\ budget' \in [Trouble -> Nat]
    BY <2>1, Spent DEF Watch, Trouble
  <2>3. TypeOK'
    BY <2>1, <2>2 DEF Watch, TypeOK
  <2> QED  BY <2>1, <2>3, Aside, NothingRelayed DEF Watch
<1>4. CASE \E c \in Commands : Expire(c)
  <2>1. PICK c \in Commands : Expire(c)
    BY <1>4
  <2>2. "expire" \in Trouble /\ budget' \in [Trouble -> Nat]
    BY <2>1, Spent DEF Expire, Trouble
  <2>3. TypeOK'
    BY <2>1, <2>2 DEF Expire, TypeOK
  <2> QED  BY <2>1, <2>3, Aside, NothingRelayed DEF Expire
<1>5. CASE Restart
  <2>1. \A j \in Jobs : job'[j].pc = "idle"
    BY <1>5 DEF Restart, Idle
  <2>2. "restart" \in Trouble /\ budget' \in [Trouble -> Nat]
    BY <1>5, Spent DEF Restart, Trouble
  <2>3. TypeOK'
    BY <1>5, <2>2 DEF Restart, TypeOK
  <2>4. GateHeld'
    BY <1>5, <2>1 DEF GateHeld, Inside, At, Restart
  <2>5. KeyOfCommand' /\ EmissionLeft'
    BY <2>1 DEF KeyOfCommand, EmissionLeft, Inside, At
  <2>6. ForwardedOnce' /\ AnswerLeft' /\ AnsweredOnce'
    BY <1>5 DEF Restart, ForwardedOnce, AnswerLeft, AnsweredOnce
  <2> QED  BY <2>3, <2>4, <2>5, <2>6
<1>6. CASE UNCHANGED vars
  <2>1. TypeOK'
    BY <1>6 DEF vars, TypeOK
  <2> QED  BY <1>6, <2>1, Aside, NothingRelayed DEF vars
<1> QED  BY <1>1, <1>2, <1>3, <1>4, <1>5, <1>6

------------------------------------------------------------------------------
\* RelayInv is inductive.
THEOREM RelayCorrect == Spec => []RelayInv
<1>1. RelayInv /\ [Next]_vars => RelayInv'
  <2> SUFFICES ASSUME RelayInv, [Next]_vars PROVE RelayInv'
    OBVIOUS
  <2>1. ASSUME NEW c \in Commands, NEW listeners \in SUBSET Jobs,
               Emit(c, listeners)
        PROVE  RelayInv'
    BY <2>1, EmitStep
  <2>2. ASSUME NEW j \in Jobs, Resume(j)
        PROVE  RelayInv'
    BY <2>2, DedupedStep, BeginStep, ForwardStep, LeaveStep, AnswerStep DEF Resume
  <2>3. ASSUME NEW c \in Commands, Result(c) \/ \E j \in Jobs : ImageResult(j, c)
        PROVE  RelayInv'
    BY <2>3, AnswerStep
  <2>4. ASSUME \/ Tick \/ Link \/ Restart \/ UNCHANGED vars
               \/ \E u \in Users : Watch(u)
               \/ \E c \in Commands : Expire(c)
        PROVE  RelayInv'
    BY <2>4, AroundStep
  <2> QED  BY <2>1, <2>2, <2>3, <2>4 DEF Next
<1> QED  BY Initial, <1>1, PTL DEF Spec

\* The types of the gate, the pending keys and the counters are kept.
THEOREM RelayTypeCorrect == Spec => []TypeOK
<1>1. RelayInv => TypeOK
  BY DEF RelayInv
<1> QED  BY <1>1, RelayCorrect, PTL

\* beginRequest and release: a key in flight has one handler that will release it.
THEOREM GatesAreHeld == Spec => []GateHeld
<1>1. RelayInv => GateHeld
  BY DEF RelayInv
<1> QED  BY <1>1, RelayCorrect, PTL

\* A command with a request id is not forwarded more often than it was sent.
THEOREM CommandsForwardedOnce == Spec => []ForwardedOnce
<1>1. RelayInv => ForwardedOnce
  BY DEF RelayInv
<1> QED  BY <1>1, RelayCorrect, PTL

\* A forwarded command gets at most one answer passed on to its dashboard.
THEOREM CommandsAnsweredOnce == Spec => []AnsweredOnce
<1>1. RelayInv => AnsweredOnce
  BY DEF RelayInv
<1> QED  BY <1>1, RelayCorrect, PTL

------------------------------------------------------------------------------
\* RequestRelay implements RelayProtocol.

\* Only commands for the device look it up.
Looking == \A j \in Jobs : At(j, "lookup") => job[j].cmd.kind # "chat"

LEMMA LookingStep == RelayInv /\ Looking /\ [Next]_vars => Looking'
<1>. SUFFICES ASSUME RelayInv, Looking, [Next]_vars PROVE Looking'
  OBVIOUS
<1>1. job \in [Jobs -> Running \cup {Idle}] /\ Idle.pc = "idle"
  BY DEF RelayInv, TypeOK, Idle
<1>2. ASSUME NEW c \in Commands, NEW listeners \in SUBSET Jobs, Emit(c, listeners)
      PROVE  Looking'
  <2>1. \A j \in Jobs : job'[j].pc = "gate" \/ job'[j] = job[j]
    BY <1>2 DEF Emit
  <2>. QED
    BY <2>1 DEF Looking, At
<1>3. ASSUME NEW j \in Jobs, Begin(j)
      PROVE  Looking'
  <2>1. job[j] \in Running
    BY <1>3, Runs DEF Begin, At, RelayInv
  <2>2. /\ job'[j].pc = "lookup" => job'[j].cmd.kind # "chat"
        /\ \A i \in Jobs \ {j} : job'[i] = job[i]
    BY <1>1, <1>3, <2>1 DEF Begin, Running
  <2>. QED
    BY <2>2 DEF Looking, At
<1>4. ASSUME NEW j \in Jobs,
             \/ Deduped(j) \/ Forward(j) \/ ChatDone(j) \/ Fail(j)
             \/ Touched(j) \/ TouchFailed(j)
      PROVE  Looking'
  <2>1. job' = [job EXCEPT ![j] = Idle]
    BY <1>4 DEF Deduped, Forward, ChatDone, Fail, Touched, TouchFailed, Return
  <2>. QED
    BY <1>1, <2>1 DEF Looking, At
<1>5. ASSUME NEW c \in Commands, NEW j \in Jobs, ImageResult(j, c)
      PROVE  Looking'
  <2>1. \A i \in Jobs : job'[i].pc = "touch" \/ job'[i] = job[i]
    BY <1>1, <1>5 DEF ImageResult
  <2>. QED
    BY <2>1 DEF Looking, At
<1>6. CASE Restart
  BY <1>1, <1>6 DEF Restart, Looking, At
<1>7. CASE job' = job
  BY <1>7 DEF Looking, At
<1>. QED
  BY <1>2, <1>3, <1>4, <1>5, <1>6, <1>7
  DEF Next, Resume, Result, Expire, Watch, Tick, Link, vars

\* What the dashboards see of a command with an id changes in one step by one.
LEMMA OneMore ==
    ASSUME NEW n, n \in [Commands -> Nat], NEW m, NEW c \in Commands, m = Count(n, c)
    PROVE  Known(m) = IF c \in Identified THEN [Known(n) EXCEPT ![c] = @ + 1]
                                          ELSE Known(n)
BY DEF Known, Count, Identified

\* A step that leaves the counters alone and sets no key is a stutter or a loss.
LEMMA NothingSeen ==
    ASSUME pending' \subseteq pending, UNCHANGED history
    PROVE  Protocol!Next
<1>1. Known(emitted') = Known(emitted) /\ Known(taken') = Known(taken)
      /\ Known(relayed') = Known(relayed)
  BY DEF history
<1>. QED
  BY <1>1 DEF Protocol!Next, Protocol!Lose, Known

\* A dashboard sends a command.
LEMMA SendSeen ==
    ASSUME RelayInv, NEW c \in Commands, NEW listeners \in SUBSET Jobs,
           Emit(c, listeners)
    PROVE  Protocol!Next
<1>1. /\ emitted' = Count(emitted, c) /\ emitted \in [Commands -> Nat]
      /\ UNCHANGED <<pending, taken, relayed>>
  BY DEF Emit, memory, RelayInv, TypeOK
<1>2. Known(taken)' = Known(taken) /\ Known(relayed)' = Known(relayed)
  BY <1>1 DEF Known
<1>3. CASE c \in Identified
  <2>1. Known(emitted)' = [Known(emitted) EXCEPT ![c] = @ + 1]
    BY <1>1, <1>3 DEF Known, Count, Identified
  <2>. QED
    BY <1>1, <1>2, <1>3, <2>1 DEF Protocol!Next, Protocol!Send, Protocol!Once
<1>4. CASE c \notin Identified
  <2>1. Known(emitted)' = Known(emitted)
    BY <1>1, <1>4 DEF Known, Count, Identified
  <2>. QED
    BY <1>1, <1>2, <2>1 DEF Protocol!Next, Protocol!Lose
<1>. QED
  BY <1>3, <1>4

\* The handler that passed the gate hands the command to the planner, or, its
\* device found, to the device.
LEMMA TakeSeen ==
    ASSUME RelayInv, Looking, NEW j \in Jobs, Begin(j) \/ Forward(j)
    PROVE  Protocol!Next
<1>. DEFINE c == job[j].cmd
<1>1. job[j].pc \in {"gate", "lookup"} /\ c \in Commands
  BY Runs DEF Begin, Forward, At, RelayInv, Running
<1>2. taken \in [Commands -> Nat] /\ UNCHANGED <<emitted, relayed>>
  BY DEF Begin, Forward, RelayInv, TypeOK
<1>. USE RequestRelayAssumption
<1>3. ASSUME taken' = Count(taken, c), c \in Identified, taken[c] < emitted[c],
             pending' = IF c.kind = "chat" THEN pending ELSE pending \cup {c}
      PROVE  Protocol!Next
  <2>1. PICK d \in Identified : d = c
    BY <1>3
  <2>2. /\ Known(taken)' = [Known(taken) EXCEPT ![d] = @ + 1]
        /\ Known(emitted)' = Known(emitted) /\ Known(relayed)' = Known(relayed)
        /\ Known(taken)[d] < Known(emitted)[d]
    BY <1>2, <1>3, <2>1 DEF Known, Count, Identified
  <2>3. Protocol!Take(d)
    BY <1>3, <2>1, <2>2 DEF Protocol!Take, Protocol!Once
  <2>. QED
    BY <2>3 DEF Protocol!Next
<1>4. CASE Begin(j)
  <2>1. CASE UNCHANGED taken
    BY <1>2, <1>4, <2>1, NothingSeen DEF Begin, history
  <2>2. CASE c.kind = "chat" /\ taken' = Count(taken, c)
    <3>1. CASE c \in Identified
      <4>1. taken[c] < emitted[c]
        BY <1>4, <3>1 DEF RelayInv, EmissionLeft, Begin, Duplicate, Identified
      <4>. QED
        BY <1>3, <1>4, <2>2, <3>1, <4>1 DEF Begin
    <3>2. CASE c \notin Identified
      <4>1. Known(taken)' = Known(taken)
        BY <1>1, <1>2, <2>2, <3>2 DEF Known, Count, Identified
      <4>2. Known(emitted)' = Known(emitted) /\ Known(relayed)' = Known(relayed)
        BY <1>2 DEF Known
      <4>. QED
        BY <1>4, <4>1, <4>2 DEF Begin, Protocol!Next, Protocol!Lose
    <3>. QED
      BY <3>1, <3>2
  <2>. QED
    BY <1>4, <2>1, <2>2 DEF Begin
<1>5. CASE Forward(j)
  <2>1. c.kind # "chat" /\ c \in Identified
    BY <1>1, <1>5 DEF Forward, Looking, Identified, At
  <2>2. taken[c] < emitted[c]
    BY <1>5, <2>1 DEF Forward, RelayInv, EmissionLeft, Identified
  <2>. QED
    BY <1>3, <1>5, <2>1, <2>2 DEF Forward
<1>. QED
  BY <1>4, <1>5

\* An answer comes for a command; what is shown of it depends on its pending key.
LEMMA RelaySeen ==
    ASSUME RelayInv, NEW c \in Commands, Relay(c), UNCHANGED <<emitted, taken>>
    PROVE  Protocol!Next
<1>1. relayed \in [Commands -> Nat]
  BY DEF RelayInv, TypeOK
<1>2. Known(emitted)' = Known(emitted) /\ Known(taken)' = Known(taken)
  BY DEF Known
<1>3. CASE c \in pending /\ c.user \in watching /\ c \in Identified
  <2>1. Known(relayed)' = [Known(relayed) EXCEPT ![c] = @ + 1]
    BY <1>1, <1>3 DEF Relay, Known, Count, Identified
  <2>2. Known(relayed)[c] < Known(taken)[c]
    BY <1>3 DEF RelayInv, AnswerLeft, Known
  <2>3. Protocol!Answer(c)
    BY <1>2, <1>3, <2>1, <2>2 DEF Relay, Protocol!Answer, Protocol!Once
  <2>. QED
    BY <1>3, <2>3 DEF Protocol!Next
<1>4. CASE ~(c \in pending /\ c.user \in watching /\ c \in Identified)
  <2>1. Known(relayed)' = Known(relayed)
    BY <1>1, <1>4 DEF Relay, Known, Count, Identified
  <2>. QED
    BY <1>2, <2>1 DEF Relay, Protocol!Next, Protocol!Lose
<1>. QED
  BY <1>3, <1>4

\* Every step of the gateway is a step of the protocol, or is not seen.
LEMMA NextSeen ==
    RelayInv /\ Looking /\ [Next]_vars => [Protocol!Next]_Protocol!vars
<1>. SUFFICES ASSUME RelayInv, Looking, [Next]_vars
              PROVE  Protocol!Next \/ UNCHANGED Protocol!vars
  OBVIOUS
<1>1. ASSUME NEW c \in Commands, NEW listeners \in SUBSET Jobs, Emit(c, listeners)
      PROVE  Protocol!Next
  BY <1>1, SendSeen
<1>2. ASSUME NEW c \in Commands, Result(c)
      PROVE  Protocol!Next
  BY <1>2, RelaySeen DEF Result
<1>3. ASSUME NEW j \in Jobs, Begin(j) \/ Forward(j)
      PROVE  Protocol!Next
  BY <1>3, TakeSeen
<1>4. ASSUME NEW j \in Jobs, Touched(j)
      PROVE  Protocol!Next
  <2>1. job[j].cmd \in Commands
    BY <1>4, Runs DEF Touched, At, RelayInv, Running
  <2>. QED
    BY <1>4, <2>1, RelaySeen DEF Touched
<1>5. ASSUME NEW j \in Jobs,
             Deduped(j) \/ ChatDone(j) \/ Fail(j) \/ TouchFailed(j)
      PROVE  Protocol!Next
  BY <1>5, NothingSeen DEF Deduped, ChatDone, Fail, TouchFailed, memory, history
<1>6. ASSUME NEW c \in Commands, Expire(c) \/ \E j \in Jobs : ImageResult(j, c)
      PROVE  Protocol!Next
  BY <1>6, NothingSeen DEF Expire, ImageResult, memory
<1>7. CASE Tick \/ Link \/ Restart \/ UNCHANGED vars \/ \E u \in Users : Watch(u)
  BY <1>7, NothingSeen DEF Tick, Link, Restart, Watch, vars, memory, history
<1>. QED
  BY <1>1, <1>2, <1>3, <1>4, <1>5, <1>6, <1>7 DEF Next, Resume

\* The gateway, its gate, its listeners and its handlers implement the protocol:
\* for any commands, users, handlers and any trouble, a command with a request id
\* is taken once for each time it was sent, and only an open one is answered.
THEOREM RelayImplements == Spec => ImplementsRelay
<1>1. Init => Protocol!Init
  BY DEF Init, Protocol!Init, Known, Identified
<1>2. Init => Looking
  BY DEF Init, Looking, At, Idle
<1>3. Spec => []Looking
  BY <1>2, LookingStep, RelayCorrect, PTL DEF Spec
<1>. QED
  BY <1>1, <1>3, NextSeen, RelayCorrect, PTL DEF Spec, ImplementsRelay, Protocol!Spec

==============================================================================
