CONSTANTS
    i1 = i1
    i2 = i2
    i3 = i3
    h1 = h1
    h2 = h2
    Issues = {i1, i2, i3}
    Handles = {h1, h2}
    NoHandle = NoHandle
    Views = {"todo", "held", "unlabelled", "other"}
    Limits = {2}
    StateLimit <- TodoLimit
    Rank <- MCRank
    MaxAttempt = 1
    UntypedErrors = FALSE
    DiskMayFail = FALSE
SYMMETRY HandleSymmetry
SPECIFICATION Spec
INVARIANTS NoOrphanClaim
PROPERTIES SlotsRespected
