SPECIFICATION Spec
CONSTANTS
    s1 = s1
    s2 = s2
    Secret = {s1, s2}
    Offers <- TwoOffers
    ClosePeriod = 1
    MinAdaBuffer = 1
    MaxAmount = 2
    MaxTime = 2
    Slack = 0
    MaxList = 1
    MaxSquashes = 1
    MaxGift = 0
INVARIANT
    ResponseTakesOnlyOwed
CHECK_DEADLOCK FALSE
