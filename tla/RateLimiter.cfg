\* Two addresses; a bucket expires exactly when it is full again.
CONSTANTS
    IPs = {a, b}
    Rate = 1
    One = 2
    Burst = 5
    TicksPerSecond = 3
    MAX_AGE = 1
    CLEANUP_PERIOD = 1
    Absent = Absent
    MaxTime = 12
    MaxRequests = 7
SPECIFICATION Spec
SYMMETRY Symmetry
CHECK_DEADLOCK FALSE
INVARIANT TypeOK
PROPERTY ImplementsTokenBucket
