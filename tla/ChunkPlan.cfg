\* Every request of up to ten bytes in chunks of three, from any position of a
\* chunk, its end and one past it included; the longest exceed MAX_CHUNK_COUNT.
SPECIFICATION Spec
CONSTANTS
    ChunkSize = 3
    ChunkIds = {0, 1, 2}
    Offsets = {0, 1, 2, 3, 4}
    Sizes = {1, 2, 3, 4, 5, 6, 7, 8, 9, 10}
    MaxChunkCount = 4
INVARIANTS
    TypeOK
    EntriesCoverRequest
    CapacitySuffices
    FinalPosition
    PlanMatchesChunkMap
CHECK_DEADLOCK FALSE
