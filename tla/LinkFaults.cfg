SPECIFICATION FairSpec
CONSTANTS
    d1 = d1
    s1 = s1
    s2 = s2
    Devices = {d1}
    Sockets = {s1, s2}
    Jobs = {j1, j2}
    None = None
    Agent <- OneAgent
    Budget <- Faults
INVARIANTS TypeOK RegistryAgrees GoneIsOffline SessionsLive GoneIsShown
PROPERTIES RevokedIsFinal GoneGoesOffline ImplementsLink
CHECK_DEADLOCK FALSE
