SPECIFICATION Spec
SYMMETRY Symmetry
CONSTANTS
    Client = {c1}
    Blob = {b1, b2, b3}
    Object = {o1}
    TagsOf <- OneFile
    Keep = 1
    MinHold = 0
    MaxNow = 2
    SameTick = FALSE
    Ops = {"put", "name", "prune", "delete"}
    Faulty = {c1}
    None = None
INVARIANT PruneLeavesRestorable
