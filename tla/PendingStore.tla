----------------------------- MODULE PendingStore -----------------------------
(***************************************************************************)
(* PendingStore (common/pending/pending.store.ts): the in-process map with *)
(* expiry times behind the correlation of requests and answers, the        *)
(* sliding window that limits a client's messages and the nonces of PING.  *)
(*                                                                         *)
(* The prefixes of the keys ("rl:", "nonce:", "screen-pending:", ...) keep *)
(* the three uses apart, so the keys here are three disjoint sets.  The    *)
(* clock is that of Date.now(), taken not to be set back.                  *)
(***************************************************************************)
EXTENDS Integers, FiniteSets

CONSTANTS
    Clients,   \* keys of checkRateLimit: a device, a user or a socket
    Nonces,    \* keys of claimNonce
    Requests,  \* keys of set, get and del: requests that await their answer
    None,      \* no entry
    Max,       \* calls allowed in a window
    WindowMs,  \* length of the window
    NonceTtl,  \* how long a nonce is remembered
    Ttl,       \* Ttl[r]: how long request r awaits its answer
    Second,    \* units of the clock in a second
    MaxTime,   \* BOUND: the clock
    MaxOps     \* BOUND: operations

ASSUME PendingStoreAssumption ==
    /\ Clients \cap Nonces = {} /\ Clients \cap Requests = {}
    /\ Nonces \cap Requests = {}
    /\ {Max, WindowMs, NonceTtl, MaxTime, MaxOps} \subseteq Nat
    /\ Ttl \in [Requests -> Nat]
    /\ Second \in Nat \ {0}

VARIABLES
    now,      \* Date.now()
    map,      \* the entries
    ops,      \* operations so far; it numbers them
    called,   \* history: the calls of checkRateLimit for a client ...
    granted,  \* history: ... those it allowed,
    claimed,  \* history: the claims of a nonce that succeeded,
    asked     \* history: the last set of a request that no answer took, if any

store   == <<map, ops>>
history == <<called, granted, claimed, asked>>
vars    == <<now, store, history>>

Keys == Clients \cup Nonces \cup Requests

\* An operation; calls within one unit of time are told apart by their number.
Stamp == [at : Nat, no : Nat]

\* A bucket holds stamps; the values of the other keys are all alike here.
Entry == [value : SUBSET Stamp, expiresAt : Nat]

ASSUME NoneAssumption == None \notin Entry /\ None \notin Nat

TypeOK ==
    /\ now \in Nat
    /\ map \in [Keys -> Entry \cup {None}]
    /\ ops \in Nat
    /\ called \in [Clients -> SUBSET Stamp]
    /\ granted \in [Clients -> SUBSET Stamp]
    /\ claimed \in [Nonces -> SUBSET Stamp]
    /\ asked \in [Requests -> Nat \cup {None}]

Init ==
    /\ now = 0
    /\ map = [k \in Keys |-> None]
    /\ ops = 0
    /\ called = [c \in Clients |-> {}]
    /\ granted = [c \in Clients |-> {}]
    /\ claimed = [n \in Nonces |-> {}]
    /\ asked = [r \in Requests |-> None]

-------------------------------------------------------------------------------
\* set, get and del.

\* Mutant: the lifetime is taken off the clock.
SetBack(k, value, ttl) ==
    map' = [map EXCEPT ![k] = [value |-> value, expiresAt |-> now - ttl]]

\* set.
Set(k, value, ttl) ==
    map' = [map EXCEPT ![k] = [value |-> value, expiresAt |-> now + ttl]]

\* Mutant: the entry is gone when its time comes, not when it has passed.
FoundBefore(k) == map[k] # None /\ now < map[k].expiresAt

\* get finds an entry; one that expired it deletes instead.
Found(k) == map[k] # None /\ now <= map[k].expiresAt

Del(k) == map' = [map EXCEPT ![k] = None]

Operation == ops < MaxOps /\ ops' = ops + 1

This == [at |-> now, no |-> ops]

-------------------------------------------------------------------------------
\* checkRateLimit, claimNonce and the requests.

\* Mutant: the seconds of the window are rounded down.
FlooredTtl == (WindowMs \div Second) * Second

\* Math.ceil(windowMs / 1000) + 1 seconds.
BucketTtl == (((WindowMs + Second - 1) \div Second) + 1) * Second

\* Mutant: a call as old as the window is forgotten.
RecentOpen(c) ==
    IF Found(c) THEN {t \in map[c].value : now - t.at < WindowMs} ELSE {}

\* The stamps that still count.
Recent(c) ==
    IF Found(c) THEN {t \in map[c].value : now - t.at <= WindowMs} ELSE {}

\* Mutant: the call that reaches the limit is refused.
BelowMax(stamps) == Cardinality(stamps) < Max

Allowed(stamps) == Cardinality(stamps) <= Max

\* A call that is refused leaves its stamp too.
CheckRateLimit(c) ==
    LET stamps == Recent(c) \cup {This} IN
    /\ Operation
    /\ Set(c, stamps, BucketTtl)
    /\ called' = [called EXCEPT ![c] = @ \cup {This}]
    /\ granted' = [granted EXCEPT ![c] = IF Allowed(stamps) THEN @ \cup {This}
                                                            ELSE @]
    /\ UNCHANGED <<now, claimed, asked>>

\* Mutant: a claim that fails is remembered like one that succeeds.
ClaimRenews(n) ==
    /\ Operation
    /\ Set(n, {}, NonceTtl)
    /\ claimed' = [claimed EXCEPT ![n] = IF Found(n) THEN @ ELSE @ \cup {This}]
    /\ UNCHANGED <<now, called, granted, asked>>

\* A claim fails as long as get finds the nonce.
ClaimNonce(n) ==
    /\ Operation
    /\ \/ /\ Found(n)
          /\ UNCHANGED <<map, claimed>>
       \/ /\ ~Found(n)
          /\ Set(n, {}, NonceTtl)
          /\ claimed' = [claimed EXCEPT ![n] = @ \cup {This}]
    /\ UNCHANGED <<now, called, granted, asked>>

\* A request is sent: it awaits its answer.
Ask(r) ==
    /\ Operation
    /\ Set(r, {}, Ttl[r])
    /\ asked' = [asked EXCEPT ![r] = now]
    /\ UNCHANGED <<now, called, granted, claimed>>

\* The request could not be sent, or its answer comes: the handler gets the entry
\* and deletes what it finds, as get does with what it no longer finds.
Take(r) ==
    /\ Operation
    /\ Del(r)
    /\ asked' = [asked EXCEPT ![r] = None]
    /\ UNCHANGED <<now, called, granted, claimed>>

Tick ==
    /\ now < MaxTime
    /\ now' = now + 1
    /\ UNCHANGED <<store, history>>

Next ==
    \/ \E c \in Clients : CheckRateLimit(c)
    \/ \E n \in Nonces : ClaimNonce(n)
    \/ \E r \in Requests : Ask(r) \/ Take(r)
    \/ Tick

Spec == Init /\ [][Next]_vars

-------------------------------------------------------------------------------
\* Properties.

\* checkRateLimit: the calls it counts are exactly the client's calls of the last
\* window: the bucket, whose lifetime is in whole seconds, never goes before the
\* stamps in it.
WindowComplete ==
    \A c \in Clients :
        Recent(c) = {t \in called[c] : now - t.at <= WindowMs}

\* Whatever window one looks at, wherever it begins, no more than Max of a
\* client's messages were let through in it.
RateHeld ==
    \A c \in Clients : \A from \in 0..now :
        Cardinality({t \in granted[c] :
                        from <= t.at /\ t.at <= from + WindowMs}) <= Max

\* A message is refused only when, with it, more than Max were sent in the window
\* that ends with it - refused ones included.
RefusedOnlyFull ==
    \A c \in Clients : \A x \in called[c] \ granted[c] :
        Cardinality({t \in called[c] :
                        t.no <= x.no /\ x.at - t.at <= WindowMs}) > Max

\* claimNonce: two claims of a nonce that both succeed are more than NonceTtl
\* apart, and the nonce is refused for no longer than that.
NonceOnce ==
    \A n \in Nonces :
        /\ \A s, t \in claimed[n] : s.no < t.no => t.at - s.at > NonceTtl
        /\ Found(n) <=> \E t \in claimed[n] : now - t.at <= NonceTtl

\* A request awaits its answer until its time has passed since it was last sent,
\* whatever expired entries are still in the map.
AwaitedInTime ==
    \A r \in Requests :
        Found(r) <=> asked[r] # None /\ now - asked[r] <= Ttl[r]

===============================================================================
