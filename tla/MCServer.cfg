\* The five kinds of server; three places for clients and two slots.
SPECIFICATION FairSpec
CONSTANTS
    Conns = {1, 2, 3}
    MaxConns = 2
    MaxAttempts = 1
    Threshold = 2
    MaxGens = 2
    MaxDue = 1
    MaxAsking = 2
    MaxFailures = 3
INVARIANTS
    TypeOK
    SlotsMatch
    StaysReachable
PROPERTIES
    StopReturns
    FailureReopens
CHECK_DEADLOCK FALSE
