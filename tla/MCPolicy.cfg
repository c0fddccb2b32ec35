CONSTANTS
    A = A
    B = B
    Local = Local
    Vault = Vault
    None = None
    Class = Class
    Entities = {A, B}
    Routes = {Local, Vault}
    DefaultTarget = Local
    MaxTextLeaves = 2
    MaxTypes = 3
    MaxCount = 2
    Policies <- MCPolicies
    Requests <- MCRequests
SPECIFICATION Spec
INVARIANTS
    TypeOK
    NoSelfRejection
    StrictestDecides
    NoLeafForwardedRaw
    RouteHonoured
PROPERTY
    EvidenceKept
