CONSTANTS
    p1 = p1  p2 = p2  own = own
    Lock <- MCLock
    Own <- MCOwn
    MaxCacheSize = 2
    BlockTime = 2
    Margin = 8
    Delta = 2
    MaxFound = 3
    MaxSent = 3
    MaxFaults = 1
SPECIFICATION FairSpec
INVARIANTS AnswersAreTrue QuoteIsRoutable
 
CHECK_DEADLOCK FALSE
