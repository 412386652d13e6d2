SPECIFICATION FairSpec
CONSTANTS
    Thread = {t1, t2}
    NumWorkers = 2
    MainThread = MainThread
    NoThread = NoThread
    Spurious = TRUE
INVARIANTS ListAccounting DemotedLast ShutdownMissesNobody
PROPERTIES TerminationHonoured CancelledRetires
