SPECIFICATION Spec
CONSTANTS
    MaxU64 = 7
    MaxExclude = 2
    ChunkSize = 64
INVARIANTS
    EncodersAgree
    ReadersAgree
    SignedAlike
CHECK_DEADLOCK FALSE
