CONSTANTS
    TopBit = 4
    Lanes = 2
    Worker = {w1, w2, w3}
    Burst = 1
SPECIFICATION FairBuckets
INVARIANTS CountersSound RestrictionsKickIn
PROPERTIES IsTokenBuckets Recovers
