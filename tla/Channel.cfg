SPECIFICATION FairSpec
CONSTANTS
    s1 = s1
    s2 = s2
    Secret = {s1}
    Offers <- RetryOffers
    ClosePeriod = 1
    MinAdaBuffer = 1
    MaxAmount = 3
    MaxTime = 3
    Slack = 1
    MaxList = 2
    MaxSquashes = 2
    MaxGift = 1
INVARIANTS
    TypeOK
    SubbedIsTaken
    NeverOverpaid
    PendingsAreSigned
PROPERTIES
    ImplementsPromise
    ResponseWindow
    PendingsStayFunded
    PendingsLeaveInTime
    ConsumerExits
CHECK_DEADLOCK FALSE
