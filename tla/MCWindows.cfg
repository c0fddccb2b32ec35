CONSTANTS
    SpacyProfiles <- MCProfiles
    KServeProfiles <- MCKServeProfiles
    ModelLengths = {1, 3, 5, 6}
    Reserve = 1
    WindowCap = 4
    OverlapCap = 2
    CutOverlap = 2
    MaxLength = 10
    MaxTokenLength = 5
    MaxTokens = 5
SPECIFICATION FairSpec
INVARIANTS
    ShortEntitiesReported
PROPERTIES
    CuttingEnds
CHECK_DEADLOCK FALSE
