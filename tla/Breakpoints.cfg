SPECIFICATION Spec
CONSTANTS
    t1 = t1
    t2 = t2
    a1 = a1
    h1 = h1
    h2 = h2
    w1 = w1
    NoAddress = NoAddress
    NoHandle = NoHandle
    ChildThread = ChildThread
    Threads <- Two
    Addresses <- OneAddress
    AddressHandles <- OneHandle
    FunctionHandles <- OneFunction
    WatchHandles <- OneWatch
    NonGlobal <- OneHandle
    DebugRegs = 1
    TableSize = 3
    MaxId = 3
SYMMETRY Symmetry
INVARIANTS TypeOK ReadsOriginal EnabledIsPatched OwnersCounted LetGoClean
CHECK_DEADLOCK FALSE
