SPECIFICATION Spec
SYMMETRY Symmetry
CONSTANTS
    n1 = n1
    n2 = n2
    s1 = s1
    Node = {n1}
    Entry = {n1}
    Anchor = {n1}
    AnchorOf <- OneBucket
    Peers <- NoPeers
    N = 3
    K = 2
    MinHold = 1
    MaxNow = 1
    MaxDamage = 2
    Blob = {b1}
    Client = {c1, c2}
    Sweeper = {}
    SweepNode <- SweepOnFirst
    Ops = {"put", "get", "delete", "repair", "name"}
    Faulty = {c1, c2}
    None = None
INVARIANTS
    ManifestIsTrue
    AckedIsListed
    OriginalBytesOnly
    RestorableWithinParity
PROPERTIES
    HoldRespected
    DeleteSettles
