\* Any three of a message, a crash with both its recoveries, a /new on a raw PTY bridge
\* and a /close.
SPECIFICATION Spec
CONSTANTS
  Caller = {m1}
  Dispatcher = {d}
  Closer = {c1}
  Resetter = {r1}
  EventCap = 1
  MaxBridges = 3
  MaxMessages = 2
  MaxCrashes = 1
  MaxCloses = 1
  MaxResets = 1
  MaxInputs = 3
INVARIANTS TypeOK ClosedStaysClosed
\* The inputs are bounded: when they are used up and all is quiet, nothing moves.
CHECK_DEADLOCK FALSE
