\* Two imports from one file at the same time.
SPECIFICATION Spec
CONSTANTS
    Sessions = {s1, s2}
    ChunkIds = {1, 2}
    SourceSize = 4
    Sizes = {2}
    Offsets = {0}
    MaxReadSize = 2
    CallsOverlap = TRUE
    NoSession = NoSession
INVARIANTS
    SingleUse
