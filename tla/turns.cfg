SPECIFICATION TurnsFairSpec
CONSTANTS
    Turns = {t1, t2}
    MaxStops = 1
    MaxNews = 1
    MaxItems = 2
INVARIANTS OneTurnAtATime OneDonePerTurn NarrationInOrder GuardHasRelease
PROPERTY GuardReleased
CHECK_DEADLOCK FALSE
