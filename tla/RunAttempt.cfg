CONSTANTS
    MaxTurns = 2
    MaxLosses = 2
    MaxMisses = 1
SPECIFICATION Spec
INVARIANTS AppServerIsReaped WorkpadsAreAccounted
PROPERTIES HandoffIsDocumented CancelEndsWork AttemptEnds
