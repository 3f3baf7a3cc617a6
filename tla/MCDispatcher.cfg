SPECIFICATION Spec
CONSTANTS
    t1 = t1  t2 = t2
    c1 = c1  c2 = c2
    move = move  fight = fight
    Logic = Logic  None = None
    IOThreads <- MCThreads
    Conns <- MCConns
    Home <- MCHome
    Types <- MCTypes
    Bound <- MCBound
    MaxPacks = 2
INVARIANTS NothingLost PopFindsPack ConnectionOrder
PROPERTIES Delivered FifoDispatchSpec
CHECK_DEADLOCK FALSE
