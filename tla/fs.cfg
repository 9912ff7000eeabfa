SPECIFICATION Spec
SYMMETRY Symmetry
CONSTANTS
    Writer = {w1, w2}
    Deleter = {d1}
    Inode = {i1, i2, i3, i4}
    Chunks = 3
    None = None
INVARIANTS
    AtomicAlone
    SettledWhole
