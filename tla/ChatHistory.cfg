CONSTANTS
    Messages <- SomeMessages
    ContextSize = 8
    Batch = 2
    MaxTurns = 5
    MaxPushed = 2
SPECIFICATION Spec
INVARIANTS PositionsValid CacheIsHistory WholeTurns
PROPERTY CommandsEraseTurns
