CONSTANTS
    i1 = i1
    i2 = i2
    i3 = i3
    h1 = h1
    h2 = h2
    Issues = {i1, i2}
    Handles = {h1, h2}
    NoHandle = NoHandle
    Views = {"progress", "closed", "gone"}
    Limits = {1, 2}
    StateLimit <- NoStateLimit
    Rank <- MCRank
    MaxAttempt = 2
    UntypedErrors = TRUE
    DiskMayFail = FALSE
SYMMETRY HandleSymmetry
SPECIFICATION Spec
INVARIANTS RetryStateIsInMemory
