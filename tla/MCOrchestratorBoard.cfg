CONSTANTS
    i1 = i1
    i2 = i2
    h1 = h1
    h2 = h2
    Issues = {i1}
    Handles = {h1, h2}
    NoHandle = NoHandle
    Views = {"progress", "unlabelled", "closed", "other", "gone"}
    Limits = {1, 2}
    StateLimit <- NoStateLimit
    Rank <- MCRank
    MaxAttempt = 2
    UntypedErrors = FALSE
    DiskMayFail = TRUE
SPECIFICATION BoardSpec
INVARIANTS NoOrphanClaim
PROPERTIES LeftIssueIsReleased ReadyIssueIsWorkedOn BackoffNeverShrinks
