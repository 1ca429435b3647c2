CONSTANTS
    Attempts = 3
SPECIFICATION Spec
INVARIANTS RunsAreAccounted
PROPERTIES CallEnds
