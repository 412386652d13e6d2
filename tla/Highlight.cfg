SPECIFICATION Spec
CONSTANTS
    MaxDepth = 2
    MaxWord = 1
    Languages <- McLanguages
    Unseen <- McUnseen
INVARIANTS
    TextKept
    NoColorLeaks
    LinesStandAlone
