\* Two sessions that encrypt with one pad at the same time.
SPECIFICATION Spec
CONSTANTS
    s1 = s1
    s2 = s2
    k1 = k1
    k2 = k2
    Sessions = {s1, s2}
    Keys = {k1}
    EncryptKeys = {k1}
    TotalBytes = 2
    ChunkSize = 0
    CacheKeySize <- OneCache
    NSlots = 2
    Sizes = {1}
    MaxChunkCount = 4
    MaxAttached = 3
    CallsOverlap = TRUE
    DetachMayFail = FALSE
    NoSession = NoSession
    NoKey = NoKey
    Free = Free
    Spent = Spent
    Lost = Lost
INVARIANTS
    PadUsedOnce
