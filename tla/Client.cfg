SPECIFICATION FairSpec
CONSTANTS
    ClosePeriod = 2
    MinAdaBuffer = 1
    MaxUnsquashed = 2
    MaxExclude = 2
    Clients = {"cli", "browser"}
    Secret = {s1, s2}
    Price = 1
    RelativeTimeout = 1
    AdaptorTimeDelta = 0
    Grace = 1
    Deposit = 4
    MaxIndexSigned = 2
    MaxTime = 2
    MaxFaults = 1
INVARIANTS
    SquashesAreOwed
    ListHoldsLocked
PROPERTIES
    UnlockedIsSquashed
CHECK_DEADLOCK FALSE
