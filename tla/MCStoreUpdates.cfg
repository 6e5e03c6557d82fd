CONSTANTS
    Names = {a}
    Attrs = {x, y}
    Handlers = {h1, h2}
    Kinds = {"add", "update", "consumer", "delete", "publish"}
    MaxMessages = 2
    None = None
    Shared = Shared
    Torn = Torn
SPECIFICATION Spec
SYMMETRY Symmetry
PROPERTIES
    ImplementsList
    AcknowledgedIsStored
