CONSTANTS
    Keys = {k1}
    Configs = {f1}
    Chans = {c1, c2, c3}
    Goroutines = {g1}
    Callers = {p1}
    None = None
SPECIFICATION LiveSpec
\* A caller, and the manager with it, can block for good on a second stop.
CHECK_DEADLOCK FALSE
PROPERTIES
    StopHonoured
    AnsweredUnlessStopPending
    WorkerConsumes
