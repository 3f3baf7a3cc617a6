SPECIFICATION BufferSpec
CONSTANTS
    Base = 2
    Widths = {1, 2}
    kCheapPrepend = 2
    kInitialSize = 1
    kBlock = 2
    CR = 0
    LF = 1
    MaxSize = 5
    MaxLen = 2
PROPERTIES HeaderRoom GrowsOnlyWhenFull ByteQueueSpec
CHECK_DEADLOCK FALSE
