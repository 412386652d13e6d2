CONSTANTS
    Caller = {c1, c2}
    PoolThread = {t1, t2}
    None = None
    Endless = {c1}
    Cancelers = {c1}
    Tags = 4096
    MaxTasks = 4
SPECIFICATION FairPoolSpec
INVARIANTS StackExact
PROPERTIES JoinReturns ShutdownEnds
