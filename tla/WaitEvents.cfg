SPECIFICATION FairSpec
CONSTANTS
    p1 = p1
    p2 = p2
    p3 = p3
    NoPid = NoPid
    Initial <- One
    Spare <- Spares
INVARIANTS TypeOK EventOnce EventUnderWay StopAnswersRequest InitialStopConsumed
PROPERTIES StopReturns ImplementsDelivery
CHECK_DEADLOCK FALSE
