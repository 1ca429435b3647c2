CONSTANTS
    c1 = c1
    c2 = c2
    Clients = {c1, c2}
SPECIFICATION Spec
INVARIANTS RefreshIsNotLost StoppedIsStill
PROPERTIES StopEnds
