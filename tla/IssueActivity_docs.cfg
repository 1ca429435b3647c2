CONSTANTS
    MaxRuns = 2
    MaxTasks = 1
    MaxRevision = 1
    MaxTokens = 0
    Window = 1
SPECIFICATION ActivitySpec
INVARIANTS CardShowsOwnRun
