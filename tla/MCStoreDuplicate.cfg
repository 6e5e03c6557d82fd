CONSTANTS
    Names = {a}
    Attrs = {x}
    Handlers = {h1, h2}
    Kinds = {"add"}
    MaxMessages = 2
    None = None
    Shared = Shared
    Torn = Torn
SPECIFICATION Spec
SYMMETRY Symmetry
INVARIANT NamesUnique
