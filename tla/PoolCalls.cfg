\* Start, stop and restart of the pool, the last stop being the destructor.
SPECIFICATION Spec
CHECK_DEADLOCK FALSE
CONSTANTS
    Threads = {t1, t2, t3}
    MaxStarts = 2
    MaxPosts = 4
    StopTwice = FALSE
INVARIANTS
    TypeOK
    JoinSafe
    WaitsForSomebody
PROPERTIES
    PoolSpec
    StartedAll
    StopIsFinal
    CallsReturn
    RequestsRun
