CONSTANTS
    i1 = i1
    i2 = i2
    i3 = i3
    h1 = h1
    h2 = h2
    Issues = {i1, i2}
    Handles = {h1, h2}
    NoHandle = NoHandle
    Views = {"progress", "todo", "held", "closed", "gone"}
    Limits = {1, 2}
    StateLimit <- TodoLimit
    Rank <- MCRank
    MaxAttempt = 1
    UntypedErrors = TRUE
    DiskMayFail = FALSE
SYMMETRY HandleSymmetry
SPECIFICATION Spec
INVARIANTS ExclusiveOwner HandlerPopsOwnEntry RetryHasItsTimer
PROPERTIES SlotsRespected BlockedStaysBlocked RefinesLifecycle
