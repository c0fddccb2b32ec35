\* Masking is what becomes of a reroute with mask_on_reroute, here the last
\* character; the other actions rewrite like "replace".
CONSTANTS
    x = x
    y = y
    Entities <- MCEntities
    Inputs <- MCInputs
    PolicyActions = {"pass", "redact", "replace", "reroute", "block"}
    TextLength = 4
    NewLength = 2
    CharsToMask = 1
    FromEnd = TRUE
SPECIFICATION Spec
INVARIANTS
    StrictestWins
    RegionsSound
    TextFollowsPlan
    BlockDecides
SYMMETRY MCSymmetry
