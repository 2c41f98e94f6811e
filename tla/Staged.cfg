SPECIFICATION Spec
CONSTANTS
    c1 = c1
    c2 = c2
    c3 = c3
    a1 = a1
    b1 = b1
    a2 = a2
    b2 = b2
    w = w
    s1 = s1
    s2 = s2
    s3 = s3
    s4 = s4
    Assets = 1
    Channel = {c1, c2, c3}
    Terms <- Keys
    Offers <- Cheques
    Receipts <- Files
    Filed = {c2}
    WalletKey = w
    Keyring = {w, a1, b2}
    Chains <- Begin
    Window = 2
    Targets <- Asked
    AddAmount = 1500000
    ClosePeriod = 2
    MinAdaBuffer = 2000000
    MaxUnsquashed = 10
    MaxExclude = 3
    MaxTime = 4
    MaxMade = 7
INVARIANTS
    WalletKeepsBooks
    BuiltIsTaken
    FailsForCause
    CoversWhenItCan
CHECK_DEADLOCK FALSE
