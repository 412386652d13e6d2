CONSTANTS
    t1 = t1
    t2 = t2
    t3 = t3
    Thread = {t1, t2, t3}
    Total = 3
    Greed <- MCGreed
    Spurious = TRUE
    Subject = t1
    Nodes = 2
    Mortal = {t1}
SPECIFICATION ComputeSpec
INVARIANTS CoresAccounted WaitersHaveHope NodesInOrder FrameOutlivesHelpers CoresNotOversubscribed
PROPERTIES GraphEnds CancelEnds
