CONSTANTS
    Worker = {w1, w2, w3}
    Slot = {s1, s2}
    NoSlot = NoSlot
    NoWorker = NoWorker
    Spurious = TRUE
SPECIFICATION FairSpec
INVARIANTS SlotAccounting NoLostWakeup
PROPERTIES IsResourcePool CancelFreesSlot
CHECK_DEADLOCK FALSE
