SPECIFICATION FairSpec
CONSTANTS
    Msg = {a, b, c}
    Barrier = {c}
    Capacity = 3
    Inbound = {i1}
    AS = {x}
    NoAS = NoAS
    MaxFails = 0
    MaxStops = 1
    MaxCloses = 0
    MaxRoutes = 0
    MaxSteers = 0
    MaxEvents = 1
PROPERTIES
    SoloQueueDrains
CHECK_DEADLOCK FALSE
