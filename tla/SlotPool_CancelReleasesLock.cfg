CONSTANTS
    Worker = {w1, w2}
    Slot = {s1}
    NoSlot = NoSlot
    NoWorker = NoWorker
    Spurious = FALSE
SPECIFICATION Spec
INVARIANT CancelReleasesLock
CHECK_DEADLOCK FALSE
