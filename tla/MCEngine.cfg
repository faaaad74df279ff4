CONSTANTS
    Scores = {1, 2, 3}
    TTL = 1
    MaxDetected = 2
    MaxOpps = 5
    Horizon = 3
    Nothing = Nothing
SPECIFICATION Spec
INVARIANTS
    IndexIsPosition
PROPERTY ImplementsQueue
