\* Two jobs, never on the same bundle at once, and an engine that is moved
\* between two bundles.
CONSTANTS
    j1 = j1
    j2 = j2
    e1 = e1
    b1 = b1
    b2 = b2
    None = None
    Jobs <- MCJobs
    Engines <- MCEngines
    Bundles <- MCBundles
    Overlap = FALSE
SPECIFICATION FairSpec
INVARIANTS
    ReferenceComplete
    LoadsWholeBundle
PROPERTIES
    CompletedNeverMutated
    SelectedBundleActivates
    EnginesComeUp
