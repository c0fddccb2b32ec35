\* Two adapter and two Studio requests compete for two slots, two places in
\* the queue and one Studio permit.
CONSTANTS
    a1 = a1
    a2 = a2
    s1 = s1
    s2 = s2
    Requests <- MCRequests
    Studio <- MCStudio
    Evaluations <- MCEvaluations
    MaxConcurrent = 2
    MaxQueued = 2
    StudioMax = 1
SPECIFICATION Spec
INVARIANTS
    PermitsConserved
    CountersExact
    NoStrandedPermit
    NoOrphanedTask
    WorkersBounded
SYMMETRY MCSymmetry
