CONSTANTS
    x = x
    y = y
    a = a
    direct = direct
    topic = topic
    red = red
    Names = {x, y}
    Ids = {a, b}
    Modes = {direct, topic}
    Routes = {red, blue}
    Api = Api
    None = None
    MaxRequests = 2
    MaxFaults = 1
SPECIFICATION MCSpec
INVARIANTS
    TypeOK
    InForce
    QueueWanted
PROPERTIES
    Controlled
    OperationsAdvance
    Served
    OperationsEnd
CHECK_DEADLOCK FALSE
