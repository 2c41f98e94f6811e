SPECIFICATION Spec
CONSTANTS
    s1 = s1
    s2 = s2
    p = p
    q = q
    Slot = {p, q}
    Secret = {s1, s2}
    ClosePeriod = 2
    MinAdaBuffer = 1
    MaxUnsquashed = 2
    MaxExclude = 2
    Msat = 1
    RouteFees = {1}
    Rates <- Moving
    FeePlaceholder = 1
    AdaptorTimeDelta = 2
    Word = 64
    PayAmounts = {3}
    Timeouts = {9}
    MaxIndexSigned = 2
    Deposit = 8
    MaxTopUp = 0
    Upper = 1
    MinSingle = 1
    MaxFaults = 0
INVARIANTS
    ChequesAreKept
    
    QuoteIsHonoured
SYMMETRY Symmetry
CHECK_DEADLOCK FALSE
