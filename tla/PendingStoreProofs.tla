-------------------------- MODULE PendingStoreProofs --------------------------
(***************************************************************************)
(* What PendingStore promises, for every set of keys, every limit, window  *)
(* and lifetime: each property of the module is an invariant.  The heart   *)
(* is Buckets: every call that still counts is a stamp of its bucket, and  *)
(* the bucket outlives it.                                                 *)
(***************************************************************************)
EXTENDS PendingStore, FiniteSetTheorems, TLAPS

USE DEF Operation

-------------------------------------------------------------------------------
\* The inductive invariant.

\* A bucket holds every call that still counts, and outlives it.
Buckets ==
    \A c \in Clients :
        /\ granted[c] \subseteq called[c]
        /\ IsFiniteSet(called[c])
        /\ \A t \in called[c] : t.no < ops /\ t.at <= now
        /\ map[c] = None => called[c] = {}
        /\ map[c] # None =>
              /\ map[c].value \subseteq called[c]
              /\ \A t \in called[c] :
                    /\ now - t.at <= WindowMs => t \in map[c].value
                    /\ t.at + WindowMs <= map[c].expiresAt

\* A nonce is remembered since its last claim.
Remembered ==
    \A n \in Nonces :
        /\ \A t \in claimed[n] : t.no < ops /\ t.at <= now
        /\ map[n] = None => claimed[n] = {}
        /\ map[n] # None =>
              /\ \E t \in claimed[n] : map[n].expiresAt = t.at + NonceTtl
              /\ \A t \in claimed[n] : t.at + NonceTtl <= map[n].expiresAt

\* A request is kept since it was last sent.
Kept ==
    \A r \in Requests :
        /\ map[r] = None <=> asked[r] = None
        /\ map[r] # None => map[r].expiresAt = asked[r] + Ttl[r]

ClaimsApart ==
    \A n \in Nonces :
        \A s, t \in claimed[n] : s.no < t.no => t.at - s.at > NonceTtl

\* The invariant's three parts, one for each use of the store.
CallsInv  == Buckets /\ RateHeld /\ RefusedOnlyFull
ClaimsInv == Remembered /\ ClaimsApart
StoreInv  == TypeOK /\ CallsInv /\ ClaimsInv /\ Kept

-------------------------------------------------------------------------------
\* Lemmas on the clock and on sets of stamps.

\* Whole seconds cover the window.
LEMMA WholeSeconds ==
    ASSUME NEW w \in Nat, NEW s \in Nat \ {0}
    PROVE  /\ (w + s - 1) \div s \in Nat
           /\ ((w + s - 1) \div s) * s >= w
<1> DEFINE q == (w + s - 1) \div s
           m == (w + s - 1) % s
<1>1. w + s - 1 \in Nat
  OBVIOUS
<1>2. /\ q \in Int
      /\ m \in 0..(s - 1)
      /\ w + s - 1 = s * q + m
  BY <1>1
<1>3. s * q >= w
  BY <1>2
<1>4. q >= 0
  BY <1>2, <1>3
<1>. QED
  BY <1>2, <1>3, <1>4

\* Math.ceil(windowMs / 1000) + 1 seconds are at least the window.
LEMMA BucketOutlives == BucketTtl \in Nat /\ BucketTtl >= WindowMs
<1> DEFINE q == (WindowMs + Second - 1) \div Second
<1>1. WindowMs \in Nat /\ Second \in Nat \ {0}
  BY PendingStoreAssumption
<1>2. q \in Nat /\ q * Second >= WindowMs
  BY <1>1, WholeSeconds
<1> HIDE DEF q
<1>3. (q + 1) * Second \in Nat /\ (q + 1) * Second >= WindowMs
  BY <1>1, <1>2
<1>. QED
  BY <1>3 DEF BucketTtl, q

\* A set of stamps within a finite one has no more of them.
LEMMA NoMoreThan ==
    ASSUME NEW S, IsFiniteSet(S), NEW T \in SUBSET S
    PROVE  /\ IsFiniteSet(T)
           /\ Cardinality(T) \in Nat
           /\ Cardinality(T) <= Cardinality(S)
BY FS_Subset, FS_CardinalityType

LEMMA InitStore == Init => StoreInv
<1> SUFFICES ASSUME Init PROVE StoreInv
  OBVIOUS
<1> USE PendingStoreAssumption DEF Init
<1>1. TypeOK
  BY DEF TypeOK, Keys
<1>2. Buckets
  BY FS_EmptySet DEF Buckets, Keys
<1>3. ClaimsInv
  BY DEF ClaimsInv, Remembered, ClaimsApart, Keys
<1>4. Kept
  BY DEF Kept, Keys
<1>5. RateHeld
  <2> SUFFICES ASSUME NEW c \in Clients, NEW from \in 0..now
               PROVE  Cardinality({t \in granted[c] : from <= t.at
                                       /\ t.at <= from + WindowMs}) <= Max
    BY DEF RateHeld
  <2>1. {t \in granted[c] : from <= t.at /\ t.at <= from + WindowMs} = {}
    OBVIOUS
  <2>. QED
    BY <2>1, FS_EmptySet
<1>6. RefusedOnlyFull
  BY DEF RefusedOnlyFull
<1>. QED
  BY <1>1, <1>2, <1>3, <1>4, <1>5, <1>6 DEF StoreInv, CallsInv

-------------------------------------------------------------------------------
\* An operation on one use of the store leaves the other uses alone.

LEMMA CallsFrame ==
    ASSUME TypeOK, CallsInv, ops' \in {ops, ops + 1},
           UNCHANGED <<now, called, granted>>,
           \A c \in Clients : map'[c] = map[c]
    PROVE  CallsInv'
<1>1. Buckets'
  <2>1. ops \in Nat /\ \A c \in Clients : \A t \in called[c] : t.no \in Nat
    BY DEF TypeOK, Stamp
  <2>. QED
    BY <2>1 DEF CallsInv, Buckets
<1>2. RateHeld' /\ RefusedOnlyFull'
  BY DEF CallsInv, RateHeld, RefusedOnlyFull
<1>. QED
  BY <1>1, <1>2 DEF CallsInv

LEMMA ClaimsFrame ==
    ASSUME TypeOK, ClaimsInv, ops' \in {ops, ops + 1},
           UNCHANGED <<now, claimed>>,
           \A n \in Nonces : map'[n] = map[n]
    PROVE  ClaimsInv'
<1>1. ops \in Nat /\ \A n \in Nonces : \A t \in claimed[n] : t.no \in Nat
  BY DEF TypeOK, Stamp
<1>. QED
  BY <1>1 DEF ClaimsInv, Remembered, ClaimsApart

LEMMA KeptFrame ==
    ASSUME Kept, UNCHANGED asked, \A r \in Requests : map'[r] = map[r]
    PROVE  Kept'
BY DEF Kept

-------------------------------------------------------------------------------
\* One lemma per action.

\* checkRateLimit counts exactly the calls of the last window.
LEMMA WindowFromBuckets == TypeOK /\ Buckets => WindowComplete
<1> SUFFICES ASSUME TypeOK, Buckets, NEW c \in Clients
             PROVE  Recent(c) = {t \in called[c] : now - t.at <= WindowMs}
  BY DEF WindowComplete
<1> USE PendingStoreAssumption
<1>1. /\ now \in Nat
      /\ called[c] \subseteq Stamp
      /\ map[c] # None => map[c] \in Entry
  BY DEF TypeOK, Keys
<1>2. CASE map[c] = None
  BY <1>2 DEF Buckets, Recent, Found
<1>3. CASE map[c] # None /\ now <= map[c].expiresAt
  <2>1. Recent(c) = {t \in map[c].value : now - t.at <= WindowMs}
    BY <1>3 DEF Recent, Found
  <2>2. /\ map[c].value \subseteq called[c]
        /\ \A t \in called[c] : now - t.at <= WindowMs => t \in map[c].value
    BY <1>3 DEF Buckets
  <2>. QED
    BY <2>1, <2>2
<1>4. CASE map[c] # None /\ ~(now <= map[c].expiresAt)
  <2>1. Recent(c) = {}
    BY <1>4 DEF Recent, Found
  <2>2. ASSUME NEW t \in called[c] PROVE ~(now - t.at <= WindowMs)
    <3>1. t.at + WindowMs <= map[c].expiresAt
      BY <1>4 DEF Buckets
    <3>2. t.at \in Nat /\ map[c].expiresAt \in Nat /\ WindowMs \in Nat
      BY <1>1, <1>4 DEF Stamp, Entry
    <3>. QED
      BY <1>1, <1>4, <3>1, <3>2
  <2>. QED
    BY <2>1, <2>2
<1>. QED
  BY <1>2, <1>3, <1>4

LEMMA CheckStep ==
    ASSUME StoreInv, NEW c \in Clients, CheckRateLimit(c)
    PROVE  StoreInv'
<1> DEFINE stamps == Recent(c) \cup {This}
<1> USE PendingStoreAssumption
<1>1. /\ ops' = ops + 1 /\ now' = now
      /\ map' = [map EXCEPT ![c] = [value |-> stamps,
                                    expiresAt |-> now + BucketTtl]]
      /\ called' = [called EXCEPT ![c] = @ \cup {This}]
      /\ granted' = [granted EXCEPT ![c] = IF Allowed(stamps)
                                             THEN @ \cup {This} ELSE @]
      /\ claimed' = claimed /\ asked' = asked
  BY DEF CheckRateLimit, Set
<1>2. /\ TypeOK /\ now \in Nat /\ ops \in Nat /\ WindowMs \in Nat
      /\ BucketTtl \in Nat /\ BucketTtl >= WindowMs /\ Max \in Nat
      /\ c \in Keys
  BY BucketOutlives DEF StoreInv, TypeOK, Keys
<1>3. This \in Stamp /\ This.at = now /\ This.no = ops
  BY <1>2 DEF This, Stamp
<1>4. Recent(c) = {t \in called[c] : now - t.at <= WindowMs}
  BY WindowFromBuckets DEF StoreInv, CallsInv, WindowComplete
<1>5. /\ called[c] \subseteq Stamp
      /\ granted[c] \subseteq called[c]
      /\ IsFiniteSet(called[c])
      /\ \A t \in called[c] : t.no < ops /\ t.at <= now
  BY <1>2 DEF StoreInv, CallsInv, Buckets, TypeOK
<1>6. stamps \subseteq Stamp /\ stamps \subseteq called[c] \cup {This}
  BY <1>3, <1>4, <1>5
<1>7. IsFiniteSet(called[c] \cup {This}) /\ IsFiniteSet(stamps)
  BY <1>5, <1>6, FS_AddElement, FS_Subset
<1>8. \A k \in Keys : k # c => map'[k] = map[k]
  BY <1>1
<1>9. \A d \in Clients : d # c => /\ called'[d] = called[d]
                                   /\ granted'[d] = granted[d]
                                   /\ map'[d] = map[d]
  BY <1>1, <1>8 DEF Keys
<1>10. /\ called'[c] = called[c] \cup {This}
       /\ granted'[c] = IF Allowed(stamps) THEN granted[c] \cup {This}
                                           ELSE granted[c]
       /\ map'[c] = [value |-> stamps, expiresAt |-> now + BucketTtl]
  BY <1>1, <1>2 DEF TypeOK
<1> HIDE DEF stamps
<1>11. TypeOK'
  <2>1. [value |-> stamps, expiresAt |-> now + BucketTtl] \in Entry
    BY <1>2, <1>6 DEF Entry
  <2>2. map' \in [Keys -> Entry \cup {None}]
    BY <1>1, <1>2, <2>1 DEF TypeOK
  <2>3. called' \in [Clients -> SUBSET Stamp]
    BY <1>1, <1>2, <1>3 DEF TypeOK
  <2>4. granted' \in [Clients -> SUBSET Stamp]
    BY <1>1, <1>2, <1>3 DEF TypeOK
  <2>. QED
    BY <1>1, <1>2, <2>2, <2>3, <2>4 DEF TypeOK
<1>12. Buckets'
  <2> SUFFICES ASSUME NEW d \in Clients
               PROVE  /\ granted'[d] \subseteq called'[d]
                      /\ IsFiniteSet(called'[d])
                      /\ \A t \in called'[d] : t.no < ops' /\ t.at <= now'
                      /\ map'[d] = None => called'[d] = {}
                      /\ map'[d] # None =>
                            /\ map'[d].value \subseteq called'[d]
                            /\ \A t \in called'[d] :
                                  /\ now - t.at <= WindowMs => t \in map'[d].value
                                  /\ t.at + WindowMs <= map'[d].expiresAt
    BY <1>1 DEF Buckets
  <2>1. CASE d = c
    <3>1. map'[c] # None
      <4>1. c \in Keys /\ map'[c] \in Entry
        BY <1>2, <1>6, <1>10 DEF Entry
      <4>2. called'[c] # {}
        BY <1>10
      <4>. QED
        BY <1>10, <4>1, <4>2, NoneAssumption
    <3>2. map'[c].value = stamps /\ map'[c].expiresAt = now + BucketTtl
      BY <1>10
    <3>3. ASSUME NEW t \in called'[c]
          PROVE  /\ now - t.at <= WindowMs => t \in stamps
                 /\ t.at + WindowMs <= now + BucketTtl
      <4>1. t \in Stamp /\ t.at <= now
        BY <1>2, <1>3, <1>5, <1>10
      <4>2. t.at \in Nat
        BY <4>1 DEF Stamp
      <4>3. now - t.at <= WindowMs => t \in stamps
        BY <1>4, <1>10 DEF stamps
      <4>. QED
        BY <4>1, <4>2, <4>3, <1>2
    <3>4. \A t \in called'[c] : t.no < ops' /\ t.at <= now'
      <4>1. \A t \in called[c] : t.no \in Nat /\ t.at \in Nat
        BY <1>5 DEF Stamp
      <4>. QED
        BY <4>1, <1>1, <1>2, <1>3, <1>5, <1>10
    <3>. QED
      BY <2>1, <3>1, <3>2, <3>3, <3>4, <1>5, <1>6, <1>7, <1>10
  <2>2. CASE d # c
    <3>1. \A t \in called[d] : t.no \in Nat
      BY <1>2 DEF TypeOK, Stamp
    <3>. QED
      BY <2>2, <3>1, <1>1, <1>2, <1>9 DEF StoreInv, CallsInv, Buckets
  <2>. QED
    BY <2>1, <2>2
<1>13. RateHeld'
  <2> SUFFICES ASSUME NEW d \in Clients, NEW from \in 0..now
               PROVE  Cardinality({t \in granted'[d] : from <= t.at
                                       /\ t.at <= from + WindowMs}) <= Max
    BY <1>1 DEF RateHeld
  <2> DEFINE In(S) == {t \in S : from <= t.at /\ t.at <= from + WindowMs}
  <2>1. Cardinality(In(granted[d])) <= Max
    BY DEF StoreInv, CallsInv, RateHeld
  <2>2. CASE d # c \/ granted'[d] = granted[d]
    BY <2>1, <2>2, <1>9
  <2>3. CASE d = c /\ granted'[c] # granted[c] /\ now <= from + WindowMs
    <3>1. Cardinality(stamps) <= Max /\ granted'[c] = granted[c] \cup {This}
      BY <2>3, <1>10 DEF Allowed
    <3>2. ASSUME NEW t \in In(granted'[c]) PROVE t \in stamps
      <4>1. CASE t = This
        BY <4>1 DEF stamps
      <4>2. CASE t # This
        <5>1. t \in called[c] /\ t.at \in Nat /\ t.at <= now
          BY <4>2, <3>1, <1>5 DEF Stamp
        <5>2. now - t.at <= WindowMs
          BY <5>1, <2>3, <1>2
        <5>. QED
          BY <5>1, <5>2, <1>4 DEF stamps
      <4>. QED
        BY <4>1, <4>2
    <3>3. /\ Cardinality(In(granted'[c])) <= Cardinality(stamps)
          /\ Cardinality(In(granted'[c])) \in Nat
      BY <3>2, <1>7, NoMoreThan
    <3>4. Cardinality(stamps) \in Nat
      BY <1>7, FS_CardinalityType
    <3>5. Cardinality(In(granted'[c])) <= Max
      <4> HIDE DEF In
      <4>. QED
        BY <3>1, <3>3, <3>4, <1>2
    <3>. QED
      BY <2>3, <3>5
  <2>4. CASE d = c /\ granted'[c] # granted[c] /\ ~(now <= from + WindowMs)
    <3>1. granted'[c] = granted[c] \cup {This}
      BY <2>4, <1>10
    <3>2. In(granted'[c]) = In(granted[c])
      BY <2>4, <3>1, <1>3
    <3>. QED
      BY <2>1, <2>4, <3>2
  <2>. QED
    BY <2>2, <2>3, <2>4
<1>14. RefusedOnlyFull'
  <2> SUFFICES ASSUME NEW d \in Clients, NEW x \in called'[d] \ granted'[d]
               PROVE  Cardinality({t \in called'[d] : t.no <= x.no
                                       /\ x.at - t.at <= WindowMs}) > Max
    BY DEF RefusedOnlyFull
  <2> DEFINE Upto(S) == {t \in S : t.no <= x.no /\ x.at - t.at <= WindowMs}
  <2>1. CASE d # c
    BY <2>1, <1>9 DEF StoreInv, CallsInv, RefusedOnlyFull
  <2>2. CASE d = c /\ x # This
    <3>1. x \in called[c] \ granted[c]
      BY <2>2, <1>10
    <3>2. x.no \in Nat /\ x.no < ops
      BY <3>1, <1>5 DEF Stamp
    <3>3. ~(This.no <= x.no)
      BY <3>2, <1>2, <1>3
    <3>4. Upto(called'[c]) = Upto(called[c])
      BY <3>3, <1>10
    <3>. QED
      BY <2>2, <3>1, <3>4 DEF StoreInv, CallsInv, RefusedOnlyFull
  <2>3. CASE d = c /\ x = This
    <3>1. ~(Cardinality(stamps) <= Max)
      BY <2>3, <1>10 DEF Allowed
    <3>2. stamps \subseteq Upto(called'[c])
      <4> SUFFICES ASSUME NEW t \in stamps PROVE t \in Upto(called'[c])
        OBVIOUS
      <4>1. t \in called'[c] /\ t \in Stamp
        BY <1>6, <1>10
      <4>2. CASE t = This
        BY <4>1, <4>2, <2>3, <1>2, <1>3
      <4>3. CASE t # This
        <5>1. t \in called[c] /\ now - t.at <= WindowMs
          BY <4>3, <1>4 DEF stamps
        <5>2. t.no \in Nat /\ t.no < ops
          BY <5>1, <1>5 DEF Stamp
        <5>. QED
          BY <4>1, <5>1, <5>2, <2>3, <1>2, <1>3
      <4>. QED
        BY <4>2, <4>3
    <3>3. IsFiniteSet(Upto(called'[c]))
      BY <1>7, <1>10, FS_Subset
    <3>4. Cardinality(stamps) <= Cardinality(Upto(called'[c]))
          /\ Cardinality(stamps) \in Nat
      BY <3>2, <3>3, NoMoreThan
    <3>5. Cardinality(Upto(called'[c])) \in Nat
      BY <3>3, FS_CardinalityType
    <3>. QED
      BY <2>3, <3>1, <3>4, <3>5
  <2>. QED
    BY <2>1, <2>2, <2>3
<1>15. ClaimsInv' /\ Kept'
  <2>1. /\ \A n \in Nonces : map'[n] = map[n]
        /\ \A r \in Requests : map'[r] = map[r]
    BY <1>8 DEF Keys
  <2>. QED
    BY <2>1, <1>1, <1>2, ClaimsFrame, KeptFrame DEF StoreInv
<1>. QED
  BY <1>11, <1>12, <1>13, <1>14, <1>15 DEF StoreInv, CallsInv

LEMMA ClaimStep ==
    ASSUME StoreInv, NEW n \in Nonces, ClaimNonce(n)
    PROVE  StoreInv'
<1> USE PendingStoreAssumption
<1>1. /\ TypeOK /\ ClaimsInv
      /\ now \in Nat /\ ops \in Nat /\ NonceTtl \in Nat /\ n \in Keys
      /\ claimed[n] \subseteq Stamp
      /\ map[n] # None => map[n] \in Entry
  BY DEF StoreInv, TypeOK, Keys
<1>2. ops' = ops + 1 /\ UNCHANGED <<now, called, granted, asked>>
  BY DEF ClaimNonce
<1>3. CASE Found(n) /\ UNCHANGED <<map, claimed>>
  <2>1. TypeOK'
    BY <1>1, <1>2, <1>3 DEF TypeOK
  <2>. QED
    BY <2>1, <1>1, <1>2, <1>3, CallsFrame, ClaimsFrame, KeptFrame DEF StoreInv
<1>4. CASE /\ ~Found(n)
           /\ Set(n, {}, NonceTtl)
           /\ claimed' = [claimed EXCEPT ![n] = @ \cup {This}]
  <2> DEFINE e == [value |-> {}, expiresAt |-> now + NonceTtl]
  <2>1. This \in Stamp /\ This.at = now /\ This.no = ops
    BY <1>1 DEF This, Stamp
  <2>2. e \in Entry /\ e.expiresAt = now + NonceTtl
    BY <1>1 DEF Entry
  <2>3. map' = [map EXCEPT ![n] = e]
    BY <1>4 DEF Set
  <2> HIDE DEF e
  <2>4. map'[n] = e /\ \A k \in Keys : k # n => map'[k] = map[k]
    BY <1>1, <2>3 DEF TypeOK
  <2>5. /\ claimed'[n] = claimed[n] \cup {This}
        /\ \A m \in Nonces : m # n => claimed'[m] = claimed[m]
    BY <1>1, <1>4 DEF TypeOK
  <2>6. TypeOK'
    <3>1. map' \in [Keys -> Entry \cup {None}]
      BY <1>1, <2>2, <2>3 DEF TypeOK
    <3>2. claimed' \in [Nonces -> SUBSET Stamp]
      BY <1>1, <1>4, <2>1 DEF TypeOK
    <3>. QED
      BY <3>1, <3>2, <1>1, <1>2 DEF TypeOK
  <2>7. \A t \in claimed[n] : /\ t.at \in Nat /\ t.no \in Nat
                              /\ t.no < ops /\ t.at <= now
    BY <1>1 DEF ClaimsInv, Remembered, Stamp
  <2>8. ASSUME NEW t \in claimed[n] PROVE now - t.at > NonceTtl
    <3>1. map[n] # None /\ t.at + NonceTtl <= map[n].expiresAt
      BY <1>1 DEF ClaimsInv, Remembered
    <3>2. ~(now <= map[n].expiresAt) /\ map[n].expiresAt \in Nat
      BY <3>1, <1>1, <1>4 DEF Found, Entry
    <3>. QED
      BY <3>1, <3>2, <2>7, <1>1
  <2>9. Remembered'
    <3> SUFFICES ASSUME NEW m \in Nonces
                 PROVE  /\ \A t \in claimed'[m] : t.no < ops' /\ t.at <= now'
                        /\ map'[m] = None => claimed'[m] = {}
                        /\ map'[m] # None =>
                              /\ \E t \in claimed'[m] :
                                    map'[m].expiresAt = t.at + NonceTtl
                              /\ \A t \in claimed'[m] :
                                    t.at + NonceTtl <= map'[m].expiresAt
      BY DEF Remembered
    <3>1. CASE m = n
      <4>1. map'[n] # None /\ map'[n].expiresAt = now + NonceTtl
        BY <2>2, <2>4, NoneAssumption
      <4>2. \A t \in claimed'[n] : /\ t.no < ops + 1 /\ t.at <= now
                                   /\ t.at + NonceTtl <= now + NonceTtl
        BY <2>1, <2>5, <2>7, <1>1
      <4>3. This \in claimed'[n] /\ This.at = now
        BY <2>1, <2>5
      <4>. QED
        BY <3>1, <4>1, <4>2, <4>3, <1>2
    <3>2. CASE m # n
      <4>1. map'[m] = map[m] /\ claimed'[m] = claimed[m]
        BY <3>2, <2>4, <2>5 DEF Keys
      <4>2. \A t \in claimed[m] : t.no \in Nat
        BY <1>1 DEF TypeOK, Stamp
      <4>. QED
        BY <4>1, <4>2, <1>1, <1>2 DEF ClaimsInv, Remembered
    <3>. QED
      BY <3>1, <3>2
  <2>10. ClaimsApart'
    <3> SUFFICES ASSUME NEW m \in Nonces, NEW s \in claimed'[m],
                        NEW t \in claimed'[m], s.no < t.no
                 PROVE  t.at - s.at > NonceTtl
      BY DEF ClaimsApart
    <3>1. CASE m = n /\ t = This
      <4>1. s \in claimed[n]
        BY <3>1, <2>1, <2>5, <1>1
      <4>. QED
        BY <3>1, <4>1, <2>1, <2>8
    <3>2. CASE m = n /\ t # This
      <4>1. t \in claimed[n]
        BY <3>2, <2>5
      <4>2. s \in claimed[n]
        BY <3>2, <4>1, <2>1, <2>5, <2>7, <1>1
      <4>. QED
        BY <4>1, <4>2, <1>1 DEF ClaimsInv, ClaimsApart
    <3>3. CASE m # n
      BY <3>3, <2>5, <1>1 DEF ClaimsInv, ClaimsApart
    <3>. QED
      BY <3>1, <3>2, <3>3
  <2>11. /\ \A c \in Clients : map'[c] = map[c]
         /\ \A r \in Requests : map'[r] = map[r]
    BY <2>4 DEF Keys
  <2>12. CallsInv' /\ Kept'
    BY <2>11, <1>1, <1>2, CallsFrame, KeptFrame DEF StoreInv
  <2>. QED
    BY <2>6, <2>9, <2>10, <2>12 DEF StoreInv, ClaimsInv
<1>. QED
  BY <1>3, <1>4 DEF ClaimNonce

LEMMA RequestStep ==
    ASSUME StoreInv, NEW r \in Requests, Ask(r) \/ Take(r)
    PROVE  StoreInv'
<1> USE PendingStoreAssumption
<1>1. /\ TypeOK /\ now \in Nat /\ ops \in Nat /\ Ttl[r] \in Nat /\ r \in Keys
      /\ ops' = ops + 1 /\ UNCHANGED <<now, called, granted, claimed>>
  BY DEF StoreInv, TypeOK, Ask, Take, Keys
<1>2. PICK e \in Entry \cup {None}, a \in Nat \cup {None} :
        /\ map' = [map EXCEPT ![r] = e]
        /\ asked' = [asked EXCEPT ![r] = a]
        /\ e = None <=> a = None
        /\ e # None => e.expiresAt = a + Ttl[r]
  <2>1. CASE Ask(r)
    <3> DEFINE x == [value |-> {}, expiresAt |-> now + Ttl[r]]
    <3>1. x \in Entry /\ x # None /\ x.expiresAt = now + Ttl[r]
      BY <1>1, NoneAssumption DEF Entry
    <3>2. now \in Nat /\ now # None
      BY <1>1, NoneAssumption
    <3>3. map' = [map EXCEPT ![r] = x] /\ asked' = [asked EXCEPT ![r] = now]
      BY <2>1 DEF Ask, Set
    <3> HIDE DEF x
    <3>. QED
      BY <3>1, <3>2, <3>3
  <2>2. CASE Take(r)
    BY <2>2 DEF Take, Del
  <2>. QED
    BY <2>1, <2>2, <1>1
<1>3. /\ map'[r] = e /\ asked'[r] = a
      /\ \A k \in Keys : k # r => map'[k] = map[k]
      /\ \A q \in Requests : q # r => asked'[q] = asked[q]
  BY <1>1, <1>2 DEF TypeOK
<1>4. TypeOK'
  <2>1. map' \in [Keys -> Entry \cup {None}]
    BY <1>1, <1>2 DEF TypeOK
  <2>2. asked' \in [Requests -> Nat \cup {None}]
    BY <1>1, <1>2 DEF TypeOK
  <2>. QED
    BY <2>1, <2>2, <1>1 DEF TypeOK
<1>5. CallsInv' /\ ClaimsInv'
  <2>1. /\ \A c \in Clients : map'[c] = map[c]
        /\ \A n \in Nonces : map'[n] = map[n]
    BY <1>3 DEF Keys
  <2>. QED
    BY <2>1, <1>1, CallsFrame, ClaimsFrame DEF StoreInv
<1>6. Kept'
  BY <1>2, <1>3 DEF StoreInv, Kept, Keys
<1>. QED
  BY <1>4, <1>5, <1>6 DEF StoreInv

LEMMA TickStep == StoreInv /\ Tick => StoreInv'
<1> SUFFICES ASSUME StoreInv, Tick PROVE StoreInv'
  OBVIOUS
<1> USE PendingStoreAssumption
<1>1. /\ TypeOK /\ now \in Nat /\ now' = now + 1
      /\ WindowMs \in Nat /\ Max \in Nat
      /\ UNCHANGED <<map, ops, called, granted, claimed, asked>>
  BY DEF StoreInv, TypeOK, Tick, store, history
<1>2. TypeOK'
  BY <1>1 DEF TypeOK
<1>3. Buckets'
  <2>1. \A c \in Clients : \A t \in called[c] :
           /\ t.at \in Nat
           /\ t.at <= now => t.at <= now'
           /\ now' - t.at <= WindowMs => now - t.at <= WindowMs
    BY <1>1 DEF TypeOK, Stamp
  <2>. QED
    BY <2>1, <1>1 DEF StoreInv, CallsInv, Buckets
<1>4. RateHeld'
  <2> SUFFICES ASSUME NEW c \in Clients, NEW from \in 0..(now + 1)
               PROVE  Cardinality({t \in granted[c] : from <= t.at
                                       /\ t.at <= from + WindowMs}) <= Max
    BY <1>1 DEF RateHeld
  <2>1. CASE from \in 0..now
    BY <2>1 DEF StoreInv, CallsInv, RateHeld
  <2>2. CASE from = now + 1
    <3>1. \A t \in granted[c] : t.at \in Nat /\ t.at <= now
      BY <1>1 DEF StoreInv, CallsInv, Buckets, TypeOK, Stamp
    <3>2. {t \in granted[c] : from <= t.at /\ t.at <= from + WindowMs} = {}
      BY <2>2, <3>1, <1>1
    <3>3. Cardinality({}) = 0
      BY FS_EmptySet
    <3>4. 0 <= Max
      BY <1>1
    <3>. QED
      BY <3>2, <3>3, <3>4, Zenon
  <2>. QED
    BY <2>1, <2>2, <1>1
<1>5. RefusedOnlyFull'
  BY <1>1 DEF StoreInv, CallsInv, RefusedOnlyFull
<1>6. ClaimsInv'
  <2>1. \A n \in Nonces : \A t \in claimed[n] :
           t.at \in Nat /\ (t.at <= now => t.at <= now')
    BY <1>1 DEF TypeOK, Stamp
  <2>. QED
    BY <2>1, <1>1 DEF StoreInv, ClaimsInv, Remembered, ClaimsApart
<1>7. Kept'
  BY <1>1 DEF StoreInv, Kept
<1>. QED
  BY <1>2, <1>3, <1>4, <1>5, <1>6, <1>7 DEF StoreInv, CallsInv

LEMMA StutterStore == StoreInv /\ UNCHANGED vars => StoreInv'
BY DEF vars, store, history, StoreInv, TypeOK, CallsInv, Buckets, RateHeld,
       RefusedOnlyFull, ClaimsInv, Remembered, ClaimsApart, Kept

-------------------------------------------------------------------------------
\* The theorems.

\* The store's strengthened invariant holds in every reachable state.
THEOREM StoreInvariant == Spec => []StoreInv
<1>1. StoreInv /\ [Next]_vars => StoreInv'
  <2> SUFFICES ASSUME StoreInv, [Next]_vars PROVE StoreInv'
    OBVIOUS
  <2>1. CASE \E c \in Clients : CheckRateLimit(c)
    BY <2>1, CheckStep
  <2>2. CASE \E n \in Nonces : ClaimNonce(n)
    BY <2>2, ClaimStep
  <2>3. CASE \E r \in Requests : Ask(r) \/ Take(r)
    BY <2>3, RequestStep
  <2>4. CASE Tick
    BY <2>4, TickStep
  <2>5. CASE UNCHANGED vars
    BY <2>5, StutterStore
  <2>. QED
    BY <2>1, <2>2, <2>3, <2>4, <2>5 DEF Next
<1>. QED
  BY <1>1, InitStore, PTL DEF Spec

\* Type correctness of PendingStore.
THEOREM StoreTypes == Spec => []TypeOK
BY StoreInvariant, PTL DEF StoreInv

\* checkRateLimit counts exactly the calls of the last window, whatever the
\* window and the second: the bucket never expires before a stamp that counts.
THEOREM WindowIsComplete == Spec => []WindowComplete
<1>1. StoreInv => WindowComplete
  BY WindowFromBuckets DEF StoreInv, CallsInv
<1>. QED
  BY <1>1, StoreInvariant, PTL

\* No window, wherever it begins, lets more than Max messages of a client through.
THEOREM RateIsHeld == Spec => []RateHeld
<1>1. StoreInv => RateHeld
  BY DEF StoreInv, CallsInv
<1>. QED
  BY <1>1, StoreInvariant, PTL

\* No message is refused unless more than Max were sent in its window.
THEOREM RefusedWhenFull == Spec => []RefusedOnlyFull
<1>1. StoreInv => RefusedOnlyFull
  BY DEF StoreInv, CallsInv
<1>. QED
  BY <1>1, StoreInvariant, PTL

\* A nonce is claimed once per NonceTtl, and free again after it.
THEOREM NonceIsOnce == Spec => []NonceOnce
<1>1. ASSUME StoreInv, NEW n \in Nonces
      PROVE  Found(n) <=> \E t \in claimed[n] : now - t.at <= NonceTtl
  <2> USE PendingStoreAssumption
  <2>1. /\ now \in Nat /\ NonceTtl \in Nat
        /\ \A t \in claimed[n] : t.at \in Nat
        /\ map[n] # None => map[n].expiresAt \in Nat
    BY <1>1 DEF StoreInv, TypeOK, Keys, Stamp, Entry
  <2>2. CASE map[n] = None
    BY <2>2, <1>1 DEF Found, StoreInv, ClaimsInv, Remembered
  <2>3. CASE map[n] # None
    <3>1. PICK s \in claimed[n] : map[n].expiresAt = s.at + NonceTtl
      BY <2>3, <1>1 DEF StoreInv, ClaimsInv, Remembered
    <3>2. \A t \in claimed[n] : t.at + NonceTtl <= map[n].expiresAt
      BY <2>3, <1>1 DEF StoreInv, ClaimsInv, Remembered
    <3>. QED
      BY <2>1, <2>3, <3>1, <3>2 DEF Found
  <2>. QED
    BY <2>2, <2>3
<1>2. StoreInv => NonceOnce
  BY <1>1 DEF NonceOnce, StoreInv, ClaimsInv, ClaimsApart
<1>. QED
  BY <1>2, StoreInvariant, PTL

\* A request awaits its answer exactly until its lifetime has passed.
THEOREM AwaitsInTime == Spec => []AwaitedInTime
<1>1. ASSUME StoreInv, NEW r \in Requests
      PROVE  Found(r) <=> asked[r] # None /\ now - asked[r] <= Ttl[r]
  <2> USE PendingStoreAssumption
  <2>1. /\ now \in Nat /\ Ttl[r] \in Nat
        /\ asked[r] # None => asked[r] \in Nat
    BY <1>1 DEF StoreInv, TypeOK
  <2>. QED
    BY <2>1, <1>1 DEF Found, StoreInv, Kept
<1>2. StoreInv => AwaitedInTime
  BY <1>1 DEF AwaitedInTime
<1>. QED
  BY <1>2, StoreInvariant, PTL
===============================================================================
