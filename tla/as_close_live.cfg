\* /close against a crash and a message, eventQueue of one.
SPECIFICATION FairSpec
CONSTANTS
  Caller = {m1}
  Dispatcher = {d}
  Closer = {c1}
  Resetter = {}
  EventCap = 1
  MaxBridges = 2
  MaxMessages = 1
  MaxCrashes = 1
  MaxCloses = 1
  MaxResets = 0
  MaxInputs = 3
PROPERTY CloseReturns
\* The inputs are bounded: when they are used up and all is quiet, nothing moves.
CHECK_DEADLOCK FALSE
