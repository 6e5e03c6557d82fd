CONSTANTS
    Names = {a, b}
    Attrs = {x}
    Handlers = {h1, h2}
    Kinds = {"add", "delete"}
    MaxMessages = 3
    None = None
    Shared = Shared
    Torn = Torn
SPECIFICATION Spec
SYMMETRY Symmetry
INVARIANTS
    TypeOK
    FoundWasThere
    MissedOnlyIfShifted
PROPERTIES
    ImplementsList
    TouchesNamedOnly
