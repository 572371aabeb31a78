SPECIFICATION HubFairSpec
CONSTANTS
    Sessions = {s1, s2}
    WriteCap = 3
    MaxConns = 2
    MaxCalls = 2
    MaxEnds = 1
INVARIANTS StreamsHaveOneOwner NoStreamOpenedTwice FollowedUnlessAstray
PROPERTIES CloseReturns Reconnects
CHECK_DEADLOCK FALSE
