\* One adapter and two Studio requests competing for one slot.
CONSTANTS
    a1 = a1
    a2 = a2
    s1 = s1
    s2 = s2
    Requests <- MCLiveRequests
    Studio <- MCStudio
    Evaluations <- MCEvaluations
    MaxConcurrent = 1
    MaxQueued = 2
    StudioMax = 1
SPECIFICATION FairSpec
PROPERTIES
    EveryRequestAnswered
    BackgroundDrains
    StudioImplementsCapacity
    SlotsImplementCapacity
