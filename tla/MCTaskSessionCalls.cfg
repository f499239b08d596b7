\* Two calls with every fault switched on.
SPECIFICATION FairSpec
CONSTANTS
    t1 = t1
    t2 = t2
    NoTask = NoTask
    Tasks = {t1, t2}
    Chunks = 1
    Cancels = TRUE
    RateLimits = TRUE
    Skews = TRUE
    Timers = TRUE
    Losses = TRUE
INVARIANTS
    TypeOK
    OkIsOwnResult
    OneReply
    JobsReply
PROPERTIES
    ImplementsService
    EveryCallReturns
