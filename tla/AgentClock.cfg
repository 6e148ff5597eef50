SPECIFICATION Spec
CONSTANTS
    Sockets = {s1, s2}
    Nonces = {n1}
    None = None
    Timeout = 3
    MinInterval = 2
    NonceTtl = 2
    MaxTime = 7
    MaxOps = 2
SYMMETRY Symmetry
INVARIANTS TypeOK SilenceBounded ReplayKeepsNobody
PROPERTIES DroppedWasSilent
CHECK_DEADLOCK FALSE
