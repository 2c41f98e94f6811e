SPECIFICATION FairSpec
CONSTANTS
    s1 = s1
    s2 = s2
    p = p
    q = q
    Slot = {p}
    Secret = {s1}
    ClosePeriod = 2
    MinAdaBuffer = 1
    MaxUnsquashed = 2
    MaxExclude = 2
    Msat = 1
    RouteFees = {1}
    Rates <- Even
    FeePlaceholder = 1
    AdaptorTimeDelta = 2
    Word = 64
    PayAmounts = {3}
    Timeouts = {9}
    MaxIndexSigned = 2
    Deposit = 5
    MaxTopUp = 1
    Upper = 1
    MinSingle = 1
    MaxFaults = 1
INVARIANTS
    CommitmentsCovered
PROPERTIES
    SquashIsClaimed
CHECK_DEADLOCK FALSE
