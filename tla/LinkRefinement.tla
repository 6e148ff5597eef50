--------------------------- MODULE LinkRefinement ---------------------------
(***************************************************************************)
(* The refinement mapping from DeviceLink to LinkProtocol.  The rows are   *)
(* the database's, the agents are read off the registry and socket.io, and *)
(* what is still to be done off the handlers.  Sessions and the registry's *)
(* set of sockets of a device are not seen from the outside.               *)
(***************************************************************************)
EXTENDS DeviceLink

\* What handler h still has to do: the socket to register, the device whose
\* agent left, the one found without an agent, and the news for the dashboard.
ComingOf(h) ==
    IF \/ h.pc = "auth" /\ h.ok
       \/ h.pc \in {"online", "sessions", "created"}
    THEN {h.socket} ELSE {}

LeavingOf(h) == IF h.pc = "ended" THEN {h.device} ELSE {}

AbsentOf(h) == IF h.pc = "offline" /\ h.ok THEN {h.device} ELSE {}

NewsOf(h) ==
    CASE h.pc \in {"online", "sessions", "created", "event"}
                           -> {<<h.device, "ONLINE">>}
      [] h.pc = "marked"   -> {<<h.device, "OFFLINE">>}
      [] OTHER             -> {}

Coming  == UNION {ComingOf(job[j]) : j \in Jobs}
Leaving == UNION {LeavingOf(job[j]) : j \in Jobs}
Absent  == UNION {AbsentOf(job[j]) : j \in Jobs}
News    == UNION {NewsOf(job[j]) : j \in Jobs}

Agents == {s \in Sockets : Live(s) /\ client[s] # None}

Protocol == INSTANCE LinkProtocol
               WITH coming <- Coming, agents <- Agents, leaving <- Leaving,
                    absent <- Absent, news <- News

\* The gateway keeps to the link protocol, whatever sockets come and go in
\* whatever order, with rejected queries, restarts, revocations and rotations:
\* a device is ONLINE on account of an agent that was let in, OFFLINE on account
\* of one that left and was found missing, and the dashboard learns of both.
ImplementsLink == Protocol!Spec

=============================================================================
