\* The life of the program, from its start to its end.
SPECIFICATION FairSpec
INVARIANTS
    TypeOK
    ResourcesOutliveThreads
PROPERTIES
    ShutdownReturns
CHECK_DEADLOCK FALSE
