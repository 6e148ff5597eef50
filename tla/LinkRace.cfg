SPECIFICATION Spec
CONSTANTS
    d1 = d1
    s1 = s1
    s2 = s2
    Devices = {d1}
    Sockets = {s1, s2}
    Jobs = {j1, j2}
    None = None
    Agent <- OneAgent
    Budget <- Calm
SYMMETRY Symmetry
PROPERTIES OfflineWhenGone
CHECK_DEADLOCK FALSE
