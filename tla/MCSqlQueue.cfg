SPECIFICATION Spec
CONSTANTS
    p1 = p1  p2 = p2  Sql = Sql  None = None
    Producers <- MCProducers
    Kinds <- MCKinds
    MaxPacks = 2
INVARIANTS NothingLost SomeoneWillNotice
PROPERTIES PrepareReturns FifoDispatchSpec
