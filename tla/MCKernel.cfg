SPECIFICATION Spec
CONSTANTS
    ClosePeriod = 1
    MinAdaBuffer = 1
    s1 = s1
    s2 = s2
    s3 = s3
INVARIANTS
    CountsEachChequeOnce
    PendingsSettleOneByOne
CHECK_DEADLOCK FALSE
