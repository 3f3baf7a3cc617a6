SPECIFICATION RoutingSpec
CONSTANTS
    Bytes <- MCBytes
    MaxText = 3
    MaxBeyond = 2
INVARIANTS ParseSplits AccountOrigin RoutedToCase
CHECK_DEADLOCK FALSE
