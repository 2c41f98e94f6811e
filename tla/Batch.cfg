SPECIFICATION Spec
CONSTANTS
    c1 = c1
    c2 = c2
    s1 = s1
    Stray = Stray
    None = None
    Channel = {c1, c2}
    Layouts <- TwoLayouts
    Offers <- OneCheque
    ClosePeriod = 1
    MinAdaBuffer = 0
    MaxAmount = 1
    MaxTime = 1
    MaxGift = 0
    MaxInputs = 2
INVARIANTS
    ChannelsAreBacked
    BuiltBatchHolds
PROPERTIES
    EachKeepsPromise
CHECK_DEADLOCK FALSE
