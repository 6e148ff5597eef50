SPECIFICATION Spec
CONSTANTS
    Tasks = {t1}
    Jobs = {j1, j2}
    ActionIds = {a1, a2, a3, a4}
    RequestIds = {r1, r2}
    None = None
    MaxIterations = 2
    Plans <- PlansMixed
    EchoTaskId = {TRUE}
    Budget <- Regular
SYMMETRY Symmetry
INVARIANTS NeverStranded
CHECK_DEADLOCK FALSE
