SPECIFICATION FairSpec
CONSTANTS
    u1 = u1
    u2 = u2
    Commands <- EachWay
    Users = {u1, u2}
    Jobs = {j1, j2, j3}
    None = None
    MaxTime = 1
    Budget <- Retries
INVARIANTS TypeOK GateHeld ForwardedOnce AnsweredOnce
PROPERTIES GateOpens ImplementsRelay
CHECK_DEADLOCK FALSE
