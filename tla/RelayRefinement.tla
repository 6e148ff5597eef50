--------------------------- MODULE RelayRefinement ---------------------------
(***************************************************************************)
(* The refinement mapping from RequestRelay to RelayProtocol.  A command   *)
(* is open while its pending key is set; the gate, the listeners and the   *)
(* handlers are not seen from the outside.                                 *)
(***************************************************************************)
EXTENDS RequestRelay

\* The commands beginRequest can tell apart.
Identified == {c \in Commands : c.id # None}

Known(n) == [c \in Identified |-> n[c]]

Protocol == INSTANCE RelayProtocol
               WITH Commands <- Identified,
                    emitted <- Known(emitted),
                    taken <- Known(taken),
                    open <- pending,
                    relayed <- Known(relayed)

\* The gateway keeps to the relay protocol: through double delivery, retries,
\* answers that come twice, late or never, expired keys, disconnections and
\* restarts, a command with a request id is taken once for each time it was sent,
\* and its dashboard gets no answer but the first to a request that is open.
ImplementsRelay == Protocol!Spec

==============================================================================
