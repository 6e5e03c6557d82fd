CONSTANTS
    Keys = {k1, k2}
    Configs = {f1}
    Chans = {c1, c2, c3, c4, c5}
    Goroutines = {g1, g2}
    Callers = {p1, p2}
    None = None
SPECIFICATION Spec
SYMMETRY Symmetry
CONSTRAINT OneKeyMoves
\* A caller, and the manager with it, can block for good on a second stop.
CHECK_DEADLOCK FALSE
INVARIANTS
    TypeOK
    OneWorkerPerKey
    LiveWorkerRegistered
    ExitOkNeverBlocks
    AnswerMatchesRequest
    ConnReturned
    NoCrossTalk
PROPERTY ImplementsControl
