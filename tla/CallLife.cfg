\* Calls one after the other, dialed and answered, hung up also during an answer.
SPECIFICATION FairSpec
CONSTANTS
    NBuffers = 5
    Initial = 2
    GrowBy = 1
    MaxTries = 2
    MaxStray = 2
    DialsWhileBusy = FALSE
    SetupsOverlap = FALSE
    HangsUpAnytime = FALSE
INVARIANTS
    TypeOK
    SocketOutlivesWorkers
    WorkersHaveQueues
    CipherCallsExclusive
    HangupLeavesNothing
PROPERTIES
    DialReturns
    HangupReturns
