CONSTANTS
    Callers = {a, b}
    RotationAge = 1
    BufferSize = 2
    MaxTime = 3
    MaxEvents = 3
    MaxLives = 2
    MaxFailures = 1
SPECIFICATION Spec
SYMMETRY Symmetry
CHECK_DEADLOCK FALSE
INVARIANTS
    OrderKept
    VerdictSound
    HashChainMatches
