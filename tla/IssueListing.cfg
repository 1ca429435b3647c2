CONSTANTS
    IssueCount = 3
    PageSize = 1
    MaxMoves = 2
SPECIFICATION ListingSpec
INVARIANTS ListingTypeOK AnswerIsUsable
