SPECIFICATION Spec
CONSTANTS
    c1 = c1  c2 = c2  c3 = c3  t1 = t1  t2 = t2
    None = None
    Conns <- MCConns
    IOThreads <- MCThreads
    Home <- MCHome
    Rand <- MCRand
    HALF = 4
    RandLen = 4
    FirstTime = 2
    MaxTime = 3
INVARIANT UniqueDnid
CHECK_DEADLOCK FALSE
