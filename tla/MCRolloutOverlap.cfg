\* Two jobs, which may overlap on one bundle.
CONSTANTS
    j1 = j1
    j2 = j2
    e1 = e1
    b1 = b1
    b2 = b2
    None = None
    Jobs <- MCJobs
    Engines <- MCEngines
    Bundles <- MCBundles
    Overlap = TRUE
SPECIFICATION RolloutSpec
PROPERTIES
    CompletedNeverMutated
