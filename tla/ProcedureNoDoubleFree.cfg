SPECIFICATION Spec
CONSTANTS
    MAX_PARAM_COUNT = 3
    MaxCalls = 2
INVARIANT NoDoubleFree
CHECK_DEADLOCK FALSE
