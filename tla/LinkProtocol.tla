---------------------------- MODULE LinkProtocol ----------------------------
(***************************************************************************)
(* What the gateway promises of a device's connection status, seen from    *)
(* the outside: a device is ONLINE because an agent was let in with its    *)
(* token, goes OFFLINE because one of its agents left and at some moment   *)
(* after that none was there (or its token was replaced), and dashboards   *)
(* are told what was written and nothing else.  What is still to be done   *)
(* may be dropped.  LinkRefinement shows that DeviceLink keeps this promise. *)
(***************************************************************************)
CONSTANTS Devices, Sockets, Agent

VARIABLES
    status,     \* status[d]: ONLINE, OFFLINE or REVOKED
    revoked,    \* revoked[d]: nobody is let in any more
    tokenHeld,  \* tokenHeld[d]: there is an agent that could be let in
    shown,      \* shown[d]: what the dashboard was told
    coming,     \* the sockets that were let in and are not registered yet
    agents,     \* the sockets that are connected and registered
    leaving,    \* the devices an agent has left, which nobody looked into yet
    absent,     \* the devices that were found without an agent after that
    news        \* <<d, s>>: d has become s, and the dashboard was not told yet

row     == <<status, revoked, tokenHeld>>
pending == <<coming, leaving, absent, news>>
vars    == <<row, shown, agents, pending>>

Init ==
    /\ status = [d \in Devices |-> "OFFLINE"]
    /\ revoked = [d \in Devices |-> FALSE]
    /\ tokenHeld = [d \in Devices |-> TRUE]
    /\ shown = [d \in Devices |-> "OFFLINE"]
    /\ coming = {} /\ agents = {} /\ leaving = {} /\ absent = {} /\ news = {}

\* One x of those to be done is done; there may be another.
Done(old, new, x) == x \in old /\ new \in {old, old \ {x}}

\* Device d is to be s, and the dashboard to be told.
Becomes(d, s) ==
    /\ status' = [status EXCEPT ![d] = s]
    /\ news' = news \cup {<<d, s>>}

\* An agent shows the token of a device that is not revoked.
Admit(s) ==
    /\ tokenHeld[Agent[s]] /\ ~revoked[Agent[s]]
    /\ coming' = coming \cup {s}
    /\ UNCHANGED <<row, shown, agents, leaving, absent, news>>

GoOnline(s) ==
    /\ s \in coming
    /\ Becomes(Agent[s], "ONLINE")
    /\ UNCHANGED <<revoked, tokenHeld, shown, agents, coming, leaving, absent>>

Enter(s) ==
    /\ Done(coming, coming', s)
    /\ agents' = agents \cup {s}
    /\ UNCHANGED <<row, shown, leaving, absent, news>>

Depart(s) ==
    /\ s \in agents
    /\ agents' = agents \ {s}
    /\ leaving' = leaving \cup {Agent[s]}
    /\ UNCHANGED <<row, shown, coming, absent, news>>

\* Nobody is there at this moment.
Miss(d) ==
    /\ Done(leaving, leaving', d)
    /\ ~revoked[d]
    /\ \A s \in agents : Agent[s] # d
    /\ absent' = absent \cup {d}
    /\ UNCHANGED <<row, shown, agents, coming, news>>

GoOffline(d) ==
    /\ Done(absent, absent', d)
    /\ Becomes(d, "OFFLINE")
    /\ UNCHANGED <<revoked, tokenHeld, shown, agents, coming, leaving>>

Tell(d, s) ==
    /\ Done(news, news', <<d, s>>)
    /\ shown' = [shown EXCEPT ![d] = s]
    /\ UNCHANGED <<row, agents, coming, leaving, absent>>

Revoke(d) ==
    /\ status' = [status EXCEPT ![d] = "REVOKED"]
    /\ revoked' = [revoked EXCEPT ![d] = TRUE]
    /\ tokenHeld' = [tokenHeld EXCEPT ![d] = FALSE]
    /\ UNCHANGED <<shown, agents, pending>>

Rotate(d) ==
    /\ status' = [status EXCEPT ![d] = "OFFLINE"]
    /\ tokenHeld' = [tokenHeld EXCEPT ![d] = TRUE]
    /\ UNCHANGED <<revoked, shown, agents, pending>>

\* An agent is back, or has gone, before its turn came; a query was rejected.
Drop ==
    /\ coming' \subseteq coming /\ leaving' \subseteq leaving
    /\ absent' \subseteq absent /\ news' \subseteq news
    /\ UNCHANGED <<row, shown, agents>>

\* All agents are gone at once and nobody follows it up.
Crash ==
    /\ agents' = {} /\ coming' = {} /\ leaving' = {} /\ absent' = {} /\ news' = {}
    /\ UNCHANGED <<row, shown>>

Next ==
    \/ \E s \in Sockets : Admit(s) \/ GoOnline(s) \/ Enter(s) \/ Depart(s)
    \/ \E d \in Devices : Miss(d) \/ GoOffline(d) \/ Revoke(d) \/ Rotate(d)
    \/ \E d \in Devices, s \in {"ONLINE", "OFFLINE"} : Tell(d, s)
    \/ Drop
    \/ Crash

Spec == Init /\ [][Next]_vars

=============================================================================
