\* One crash, and a message during its recovery.
SPECIFICATION Spec
CONSTANTS
  Caller = {m1}
  Dispatcher = {d}
  Closer = {}
  Resetter = {}
  EventCap = 2
  MaxBridges = 3
  MaxMessages = 2
  MaxCrashes = 1
  MaxCloses = 0
  MaxResets = 0
  MaxInputs = 3
INVARIANT NoBridgeLeaked
\* The inputs are bounded: when they are used up and all is quiet, nothing moves.
CHECK_DEADLOCK FALSE
