CONSTANTS
    Names = {a, b}
    Attrs = {x}
    Handlers = {h1, h2}
    Kinds = {"add", "delete", "consumer"}
    MaxMessages = 2
    None = None
    Shared = Shared
    Torn = Torn
SPECIFICATION Spec
SYMMETRY Symmetry
INVARIANT PositionInRange
