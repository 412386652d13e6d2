CONSTANTS
    Token = {a, b}
    Image = {img}
    ImageSize = 2
    ContextSize = 4
    Batch = 2
    HasClip = TRUE
    MaxPrompt = 4
SPECIFICATION Spec
INVARIANTS HistoryIsPrompt HistoryIsCached RecurrentCacheIsHistory
SYMMETRY TokenSymmetry
