SPECIFICATION CodexFairSpec
CONSTANTS
    Callers = {c1}
    Announcers = {c1}
    Asks = {a1, a2}
    NumericIds = FALSE
    EventCap = 1
    MaxFrames = 2
    MaxAnswers = 1
INVARIANTS AnswersGoToLatest NobodyStranded
PROPERTY CloseTerminates
CHECK_DEADLOCK FALSE
