SPECIFICATION Spec
CONSTANTS
    Poll = {p1, p2, p3}
    None = None
    MaxChunks = 3
    MaxLosses = 2
INVARIANTS
    TypeOK
    ExactlyOnce
    StopsWithEverything
    NoLostWakeup
PROPERTY LoopEnds
