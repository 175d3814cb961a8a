SPECIFICATION FairSpec
CONSTANTS
    u1 = u1
    u2 = u2
    t1 = t1
    t2 = t2
    NoUser = NoUser
    NoThread = NoThread
    Users <- OneUser
    Threads <- TwoThreads
INVARIANTS TypeOK NoInternalError EventHeldOnce NoLostSignal
PROPERTIES CommandRanBeforeReturn CommandReturns EventsProcessed
CHECK_DEADLOCK FALSE
