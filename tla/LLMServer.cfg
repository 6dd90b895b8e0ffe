SPECIFICATION FairPlainSpec
CONSTANTS
    r1 = r1
    r2 = r2
    Nobody = Nobody
    Garbled = Garbled
    Request = {r1, r2}
    MaxChars = 2
    Plain = {r2}
    Streaming = TRUE
INVARIANTS
    TypeOK
    BusyHasOwner
    NormalHasRun
    RunUnderLock
    OwnText
PROPERTIES
    DrainedIsWhole
    RequestsEnd
    BusyEnds
CHECK_DEADLOCK FALSE
