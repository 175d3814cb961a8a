SPECIFICATION FairSpec
CONSTANTS
    t1 = t1
    t2 = t2
    t3 = t3
    u1 = u1
    p1 = p1
    p2 = p2
    NoThread = NoThread
    Threads = {t1, t2, t3}
    Processes = {p1}
    ProcessOf <- ProcessOfThread
    MainOf <- MainThread
    Live = {t1, t2, t3}
    Daemons = {}
    Parkable = {}
    Reports = {"stop"}
    Models = {"process", "global"}
    Commands = {"stop"}
    MaxResults = 3
INVARIANTS Carried AnyThreadStops NeverHung
PROPERTIES CompletedSignalled ImplementsCommand
CHECK_DEADLOCK FALSE
