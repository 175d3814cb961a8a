SPECIFICATION Spec
CONSTANTS
    u1 = u1
    u2 = u2
    t1 = t1
    t2 = t2
    NoUser = NoUser
    NoThread = NoThread
    Users <- TwoUsers
    Threads <- OneThread
PROPERTY CommandRanBeforeReturn
CHECK_DEADLOCK FALSE
