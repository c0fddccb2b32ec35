CONSTANTS
    Threads = {t1, t2}
    Windows <- MCWindows
    Offsets <- MCOffsets
    Size <- MCSize
    MaxBytes = 2
    Ttl = 2
SPECIFICATION FairSpec
INVARIANTS
    ClosedStaysEmpty
    AnswersAreDetections
PROPERTIES
    FixedExpiry
    FindingsReleased
