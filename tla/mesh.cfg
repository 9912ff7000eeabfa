SPECIFICATION Spec
SYMMETRY Symmetry
CONSTANTS
    n1 = n1
    n2 = n2
    s1 = s1
    Node = {n1, n2}
    Entry = {n1, n2}
    Anchor = {n1, n2}
    AnchorOf <- OwnAnchors
    Peers <- FirstToSecond
    N = 2
    K = 1
    MinHold = 0
    MaxNow = 0
    MaxDamage = 2
    Blob = {b1}
    Client = {c1, c2}
    Sweeper = {}
    SweepNode <- SweepOnFirst
    Ops = {"put", "get", "delete", "repair"}
    Faulty = {}
    None = None
INVARIANTS
    ManifestIsTrue
    OriginalBytesOnly
    RestorableWithinParity
