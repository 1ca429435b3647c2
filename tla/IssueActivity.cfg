CONSTANTS
    MaxRuns = 2
    MaxTasks = 3
    MaxRevision = 2
    MaxTokens = 1
    Window = 1
SPECIFICATION ActivitySpec
INVARIANTS ActivityTypeOK PendingIsTrue TokensCountOnce
PROPERTIES StopEndsSummaries
