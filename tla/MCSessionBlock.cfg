CONSTANTS
    r1 = r1
    r2 = r2
    k1 = k1
    local = local
    audit = audit
    None = None
    Requests <- MCRequests
    Sessions <- MCSessions
    Routes <- MCRoutes
SPECIFICATION Spec
INVARIANTS
    BlockIsSticky
