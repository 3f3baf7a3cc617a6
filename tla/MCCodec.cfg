SPECIFICATION Spec
CONSTANTS
    HEADMSGLEN = 4
    MAXLEN = 2
    MaxFrames = 3
    Lens <- MCLens
    ReadSizes <- MCReadSizes
INVARIANTS TypeOK Reassembly NothingLeftBehind
PROPERTIES RefusedForGood OnMessageReturns FrameChannelSpec
CHECK_DEADLOCK FALSE
