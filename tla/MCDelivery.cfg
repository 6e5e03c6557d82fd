CONSTANTS
    Msgs = {m1, f1}
    Foreign = {f1}
    Configs = {f, g}
    Chans = {c1, c2}
    None = None
SPECIFICATION FairSpec
INVARIANTS
    TypeOK
    AtLeastOnce
    HandledInOrder
    StaleOnce
    InHandStillQueued
PROPERTIES
    ImplementsQueue
    Drains
