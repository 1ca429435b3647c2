CONSTANTS
    MaxTurns = 2
    MaxLosses = 0
    MaxMisses = 1
SPECIFICATION Spec
INVARIANTS OneWorkpadOnly
