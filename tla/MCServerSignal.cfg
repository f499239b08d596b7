\* The signal handler, with two clients and no rotation.
SPECIFICATION FairSpec
CONSTANTS
    Conns = {1, 2}
    MaxConns = 2
    MaxAttempts = 2
    Threshold = 2
    MaxGens = 2
    MaxDue = 0
    MaxAsking = 0
    MaxFailures = 3
PROPERTIES
    SignalStops
CHECK_DEADLOCK FALSE
