SPECIFICATION FairSpec
CONSTANTS
    Secret = {s1, s2}
    ClosePeriod = 2
    MinAdaBuffer = 1
    MaxUnsquashed = 2
    MaxExclude = 2
    Amounts = {1, 2}
    Timeouts = {2}
    Deposits = {2}
    MaxTopUp = 3
    MaxCheques = 3
    MaxTime = 4
    Ahead = 1
    Behind = 0
    MinSingle = 1
    Strict = TRUE
INVARIANTS
    OwedIsEarned
    ProposalIsSound
    BuiltVerifies
PROPERTIES
    ClosedEnds
    SquashedIsTaken
CHECK_DEADLOCK FALSE
