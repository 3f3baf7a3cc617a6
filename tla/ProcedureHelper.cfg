SPECIFICATION Spec
CONSTANTS
    MAX_PARAM_COUNT = 3
    MaxCalls = 2
INVARIANTS ParsedAsDeclared OutsBound NoLeak
PROPERTIES CallEnds
CHECK_DEADLOCK FALSE
