SPECIFICATION Spec
CONSTANTS
    Msg = {a, b, c}
    Barrier = {c}
    Capacity = 2
    Inbound = {i1}
    AS = {x, y}
    NoAS = NoAS
    MaxFails = 1
    MaxStops = 1
    MaxCloses = 1
    MaxRoutes = 1
    MaxSteers = 1
    MaxEvents = 2
INVARIANTS
    TypeOK
    SoloExactlyOnce
    SoloFifo
    SoloAttended
SYMMETRY Symmetry
CHECK_DEADLOCK FALSE
