\* Two sessions that share one pad of two chunks and whose calls do not overlap.
SPECIFICATION Spec
CONSTANTS
    s1 = s1
    s2 = s2
    k1 = k1
    k2 = k2
    Sessions = {s1, s2}
    Keys = {k1}
    EncryptKeys = {k1}
    TotalBytes = 4
    ChunkSize = 3
    CacheKeySize <- CacheOfTwo
    NSlots = 2
    Sizes = {1, 2}
    MaxChunkCount = 4
    MaxAttached = 3
    CallsOverlap = FALSE
    DetachMayFail = FALSE
    NoSession = NoSession
    NoKey = NoKey
    Free = Free
    Spent = Spent
    Lost = Lost
SYMMETRY Symmetry
INVARIANTS
    TypeOK
    PadUsedOnce
    TakenBytesAreExclusive
    AccountingExact
    DetachedOutsideFetch
PROPERTIES
    ImplementsOneTimePad
    RewindsOnlyUnusedBytes
