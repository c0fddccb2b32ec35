CONSTANTS
    Threads = {t1, t2}
    Requests <- MCRequests
    Size = 8
    Overlap = 3
    Floor = 4
    HalfOverlap = 2
    MaxCalls = 3
    Capacity = 1
    ShortSpan = 2
SPECIFICATION FairSpec
INVARIANTS
    ShortSpansWhole
    PermitsReturned
    CallsBounded
PROPERTY
    AnalysesEnd
