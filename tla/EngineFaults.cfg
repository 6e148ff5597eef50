SPECIFICATION Spec
CONSTANTS
    Tasks = {t1}
    Jobs = {j1, j2}
    ActionIds = {a1, a2, a3}
    RequestIds = {r1, r2}
    None = None
    MaxIterations = 3
    Plans <- PlansSingle
    EchoTaskId = {TRUE, FALSE}
    Budget <- Faults
SYMMETRY Symmetry
INVARIANTS NoOverlap IterationCap MarkIsCurrent DecisionsAreFresh
PROPERTIES ImplementsProtocol
CHECK_DEADLOCK FALSE
