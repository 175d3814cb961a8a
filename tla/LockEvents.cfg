SPECIFICATION FairSpec
CONSTANTS
    t1 = t1
    t2 = t2
    t3 = t3
    b1 = b1
    NoThread = NoThread
    NoBreakpoint = NoBreakpoint
    Threads <- Three
    Breakpoints <- OneBreakpoint
    Reports <- HitsExitsSignals
    Commands <- NoCommands
INVARIANTS TypeOK OnlyOwnerRuns
CHECK_DEADLOCK FALSE
PROPERTY HandlerReturns
