SPECIFICATION Spec
CONSTANTS
    PageSize = 1
    IntTop = 2
    WordTop = 100
    Worlds <- AllWorlds
    Chain <- ShortChain
    Made <- MayBeMade
    Commands <- Asked
    Amount = 1
    MaxAttempts = 2
    MaxRuns = 2
    MaxEvents = 1
INVARIANTS
    
    SessionFits
PROPERTY
    RunsEnd
CHECK_DEADLOCK FALSE
