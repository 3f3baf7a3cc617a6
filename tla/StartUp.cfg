SPECIFICATION Spec
CONSTANTS
    Null = Null
    MaxRows = 2
    MaxTasks = 3
    Handlers = {chat, move, login}
INVARIANTS ResultsFreedOnce LoginAnswer ReadyBeforeUse
PROPERTY FailedStartEnds
CHECK_DEADLOCK FALSE
