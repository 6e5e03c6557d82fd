CONSTANTS
    Clients = {p1, p2, a1}
    Publishers = {p1, p2}
    NilPutters = {a1}
    Conns = {c1, c2, c3}
    InitialCap = 1
    MaxCap = 2
    Nil = Nil
    Msgs = {m1, m2}
    None = None
SPECIFICATION FairSpec
INVARIANTS
    TypeOK
    NeverShared
    NoneLeaked
    NilNeverHandedOut
    AcceptedRoutedUnlessBroken
    UncommittedOnlyInHands
PROPERTIES
    MutexSoonFree
    Answered
