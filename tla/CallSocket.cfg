\* A second dial, or an answer, while a call is on.
SPECIFICATION Spec
CONSTANTS
    NBuffers = 5
    Initial = 2
    GrowBy = 1
    MaxTries = 2
    MaxStray = 2
    DialsWhileBusy = TRUE
    SetupsOverlap = FALSE
    HangsUpAnytime = FALSE
INVARIANTS
    SocketOutlivesWorkers
