SPECIFICATION Spec
CONSTANTS
    U = 2
    FRAME = 2
    BUDGET = 3
    WORD64 = 1024
    HANDLER = 2
    DELAYS = {1, 5}
    JUMPS <- MCJumps
    MaxReal = 28
INVARIANT DispatchBounded
PROPERTY FrameLength
