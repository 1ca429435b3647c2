CONSTANTS
    MaxTurns = 2
    Msgs = {"m1", "m2"}
    PipeBound = 3
SPECIFICATION Spec
INVARIANTS NobodyIsLeftWaiting TextIsFaithful
PROPERTIES TurnIsReal CompletionIsSeen TurnEnds
