\* One session, two pads, one cache slot: SetSessionKey with bytes of the other key in
\* the cache, requests the cache has no room for, and DETACH failing after the commit.
SPECIFICATION Spec
CONSTANTS
    s1 = s1
    s2 = s2
    k1 = k1
    k2 = k2
    Sessions = {s1}
    Keys = {k1, k2}
    EncryptKeys = {k1, k2}
    TotalBytes = 3
    ChunkSize = 2
    CacheKeySize <- CacheOfTwo
    NSlots = 1
    Sizes = {1, 2}
    MaxChunkCount = 4
    MaxAttached = 3
    CallsOverlap = FALSE
    DetachMayFail = TRUE
    NoSession = NoSession
    NoKey = NoKey
    Free = Free
    Spent = Spent
    Lost = Lost
INVARIANTS
    LabelsAreTrue
PROPERTIES
    ImplementsOneTimePad
