SPECIFICATION Spec
SYMMETRY Symmetry
CONSTANTS
    Client = {c1, c2}
    Blob = {b1, b2, b3}
    Object = {o1}
    TagsOf <- OneFile
    Keep = 1
    MinHold = 2
    MaxNow = 3
    SameTick = FALSE
    Ops = {"put", "name", "prune", "delete"}
    Faulty = {c1, c2}
    None = None
INVARIANTS
    TypeOK
    NewestKept
    PruneCaps
PROPERTY HoldRespected
