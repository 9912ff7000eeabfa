SPECIFICATION Spec
SYMMETRY Symmetry
CONSTANTS
    Client = {c1, c2, c3}
    Blob = {b1, b2, b3, b4, b5}
    Size = {1, 3}
    MaxBytes = 4
    MaxObjects = 2
    U64Max = 255
    None = None
INVARIANTS
    ObjectOvershoot
    ByteOvershoot
