SPECIFICATION Spec
CONSTANTS
    Producers = {p1, p2}
    Consumers = {c1, c2}
    Observers = {o}
    None = None
    maxSize = 2
    MaxItems = 2
INVARIANTS HolderExact PutIsTake
PROPERTY EveryItemTaken
CHECK_DEADLOCK FALSE
