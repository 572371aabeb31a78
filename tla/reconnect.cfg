\* Two losses, a refusal and a wake-up.
SPECIFICATION ReconnectFairSpec
CONSTANTS
    MaxDrops = 2
    MaxRejects = 1
    MaxKicks = 1
    MaxStreak = 2
    MaxRuns = 2
    MaxLoops = 2
    MaxLate = 1
INVARIANTS OneConnection TicksIffStarted
PROPERTY ComesBack
CHECK_DEADLOCK FALSE
CONSTRAINT NotOverlapped
