SPECIFICATION FairSpec
CONSTANTS
    t1 = t1
    t2 = t2
    t3 = t3
    u1 = u1
    p1 = p1
    p2 = p2
    NoThread = NoThread
    Threads = {t1, t2}
    Processes = {p1}
    ProcessOf <- ProcessOfThread
    MainOf <- MainThread
    Live = {t1, t2}
    Daemons = {}
    Parkable = {}
    Reports = {"stop", "exit"}
    Models = {"process"}
    Commands = {}
    MaxResults = 1
PROPERTIES CompletedSignalled
CHECK_DEADLOCK FALSE
