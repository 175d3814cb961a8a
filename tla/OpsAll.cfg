SPECIFICATION Spec
CONSTANTS
    t1 = t1
    t2 = t2
    t3 = t3
    u1 = u1
    p1 = p1
    p2 = p2
    NoThread = NoThread
    Threads = {t1, t2, u1}
    Processes = {p1, p2}
    ProcessOf <- ProcessOfThread
    MainOf <- MainThread
    Live = {t1}
    Daemons = {}
    Parkable = {t2}
    Reports = {"unknown", "exit", "spawn"}
    Models = {"resume", "process", "global"}
    Commands = {"abort"}
    MaxResults = 1
INVARIANTS TypeOK StoppedIsQuiet SignalledIsDone
CHECK_DEADLOCK FALSE
