CONSTANTS
    Connections = {c1, c2}
    Certificates = {"adapter", "studio"}
    Enforcing = {"p1"}
    Calls <- MCCalls
    MaxBytes = 1
    MaxEmptyChunks = 1
    MaxResponse = 1
    MaxDigests = 2
    Ttl = 2
SPECIFICATION Spec
SYMMETRY Symmetry
INVARIANTS
    HandledAsSent
    LimitFactsTrue
PROPERTIES
    ReceiptAnswersTrue
