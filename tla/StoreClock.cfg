SPECIFICATION Spec
CONSTANTS
    Clients = {c1, c2}
    Nonces = {n1}
    Requests = {r1}
    None = None
    Max = 2
    WindowMs = 3
    NonceTtl = 2
    Ttl <- Twos
    Second = 2
    MaxTime = 7
    MaxOps = 5
SYMMETRY Symmetry
INVARIANTS TypeOK WindowComplete RateHeld RefusedOnlyFull NonceOnce AwaitedInTime
CHECK_DEADLOCK FALSE
