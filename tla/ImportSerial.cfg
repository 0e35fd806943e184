\* One call at a time, over two chunks; blocks shorter than what is imported.
SPECIFICATION Spec
CONSTANTS
    Sessions = {s1, s2}
    ChunkIds = {1, 2}
    SourceSize = 4
    Sizes = {1, 2, 3}
    Offsets = {0, 1}
    MaxReadSize = 2
    CallsOverlap = FALSE
    NoSession = NoSession
INVARIANTS
    TypeOK
    SingleUse
    ImportMovesTail
PROPERTIES
    LosesOnlyByFailure
