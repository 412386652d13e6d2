CONSTANTS
    Caller = {c1, c2}
    PoolThread = {t1, t2}
    None = None
    Endless = {}
    Cancelers = {c1}
    Tags = 4096
    MaxTasks = 3
SPECIFICATION PoolSpec
INVARIANT NoUseAfterFree
