SPECIFICATION SFairSpec
CONSTANTS
    n1 = n1
    s1 = s1
    Node = {n1}
    Entry = {n1}
    Anchor = {n1}
    AnchorOf <- OneBucket
    Peers <- NoPeers
    N = 3
    K = 2
    MinHold = 0
    MaxNow = 0
    MaxDamage = 2
    Blob = {b1, b2}
    Client = {c1}
    Sweeper = {s1}
    SweepNode <- SweepOnFirst
    Ops = {"put", "get"}
    Faulty = {}
    ListFaulty = {s1}
    None = None
INVARIANT HealsAreCounted
PROPERTIES
    SweepHeals
    UnrepairableShows
