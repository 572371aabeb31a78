SPECIFICATION FairSpec
CONSTANTS
    Agents = {a}
    Cwds = {c1, c2}
    NoCwd = NoCwd
    None = None
    Threads = {t1, t2}
    MaxLookups = 2
    MaxCommands = 2
    MaxEvicts = 1
    MaxResets = 1
    MaxDeaths = 1
    MaxSaveFails = 1
    MaxRestarts = 1
    StartCwds = {c1}
    MaxEvents = 4
    MaxObjects = 4
INVARIANTS TypeOK SelectedMatches AnswerWasSelected OneSessionPerKey SoloDropStaysDropped OneHandler AckedSelectionSurvives
PROPERTY LookupReturns
CHECK_DEADLOCK FALSE
