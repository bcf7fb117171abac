SPECIFICATION Spec
CONSTANTS
    c1 = c1
    c2 = c2
    Client = {c1, c2}
    MaxInt = 2
    Requests <- MCRequests
INVARIANTS
    TypeOK
    RoutedRight
    RangesRight
    CleanExit
    NeverHangs
PROPERTIES
    SignalStops
    WindsDown
CHECK_DEADLOCK FALSE
