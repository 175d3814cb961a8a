SPECIFICATION Spec
CONSTANTS
    t1 = t1
    t2 = t2
    t3 = t3
    b1 = b1
    NoThread = NoThread
    NoBreakpoint = NoBreakpoint
    Threads <- Two
    Breakpoints <- OneBreakpoint
    Reports <- AllReports
    Commands <- AllCommands
SYMMETRY Symmetry
INVARIANTS RegistersBalanced PendingOnce EventHasOperation NoThreadForgotten
CHECK_DEADLOCK FALSE
