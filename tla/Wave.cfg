\* The module is initialized and finalized once; the system stops then.
SPECIFICATION FairSpec
CONSTANTS
    NSlots = 3
    MaxBlocks = 2
    MaxMessages = 2
INVARIANTS
    TypeOK
    LockHeldByItsUser
    BufferOutlivesThreads
    SlotsNotOverwritten
PROPERTIES
    FinalizeReturns
CHECK_DEADLOCK FALSE
