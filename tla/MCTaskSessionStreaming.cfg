\* Two calls of a server that streams, and no TASK_CANCEL.
SPECIFICATION FairSpec
CONSTANTS
    t1 = t1
    t2 = t2
    NoTask = NoTask
    Tasks = {t1, t2}
    Chunks = 2
    Cancels = FALSE
    RateLimits = TRUE
    Skews = FALSE
    Timers = TRUE
    Losses = TRUE
INVARIANTS
    NothingLeftPending
    TakenOnce
PROPERTIES
    StreamsReturn
