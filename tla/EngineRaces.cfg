SPECIFICATION Spec
CONSTANTS
    Tasks = {t1}
    Jobs = {j1, j2}
    ActionIds = {a1, a2, a3}
    RequestIds = {r1, r2}
    None = None
    MaxIterations = 2
    Plans <- PlansMixed
    EchoTaskId = {TRUE}
    Budget <- Races
SYMMETRY Symmetry
INVARIANTS TypeOK WellFormed GuardOwned SentBeforeExecuted SingleShot OnlyQuestionsStrand
PROPERTIES RecordedStays QuiescedStays
CHECK_DEADLOCK FALSE
