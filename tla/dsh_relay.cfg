SPECIFICATION RelayFairSpec
CONSTANTS
    Sessions = {s1, s2}
    ProbeStrikes = 1
    AttachedStrikes = 2
    MaxFaults = 1
    MaxForeign = 1
    MaxCloses = 1
    MaxProcs = 2
    MaxDrivers = 2
INVARIANTS OneHostStart
PROPERTIES RespawnKeepsSubscriptions DshComesBack StartEnds
CHECK_DEADLOCK FALSE
