SPECIFICATION Spec
SYMMETRY Symmetry
CONSTANTS
    Req = {r1, r2}
    Fp = {f1, f2}
    BlockAfter = 2
    SimCap = 2
    MaxArrivals = 4
    None = None
INVARIANTS
    BlockedExactly
    LedgerCountsStrikes
    BlockHasEvidence
    TamperEvident
    ViewCoherent
