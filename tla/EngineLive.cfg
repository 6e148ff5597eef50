SPECIFICATION FairSpec
CONSTANTS
    Tasks = {t1}
    Jobs = {j1, j2}
    ActionIds = {a1, a2, a3}
    RequestIds = {r1, r2}
    None = None
    MaxIterations = 2
    Plans <- PlansTwo
    EchoTaskId = {TRUE}
    Budget <- Talk
INVARIANTS NeverStranded
PROPERTIES Resolves GuardReleased
CHECK_DEADLOCK FALSE
