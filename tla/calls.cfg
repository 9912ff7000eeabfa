SPECIFICATION Spec
SYMMETRY Symmetry
CONSTANTS
    b1 = b1
    b2 = b2
    Caller = {c1, c2}
    Blob = {b1}
    Index <- Indices
    Value <- Payloads
    Upload <- Small
    KeyBytes <- Bytes
    MaxFrame = 5
    Hold = TRUE
    MaxAsks = 2
    MaxOwn = 2
    MaxCalls = 2
    Ttl = 1
    MaxNow = 1
    MaxRestarts = 1
    None = None
INVARIANTS
    TypeOK
    RefusedMeansUndone
    AckedPutStands
    NotFoundIsFinal
PROPERTY PortKept
CHECK_DEADLOCK FALSE
