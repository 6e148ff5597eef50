SPECIFICATION Spec
CONSTANTS
    Tasks = {t1}
    Jobs = {j1, j2}
    ActionIds = {a1, a2}
    RequestIds = {r1, r2}
    None = None
    MaxIterations = 2
    Plans <- PlansBatch
    EchoTaskId = {TRUE}
    Budget <- Regular
SYMMETRY Symmetry
INVARIANTS IterationCap
CHECK_DEADLOCK FALSE
