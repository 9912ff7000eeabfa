SPECIFICATION Spec
SYMMETRY Symmetry
CONSTANTS
    App = {a1, a2}
    Namespace = {n1, n2}
    Op = {"Put", "Get"}
    Node = {m1}
    Client = {c1, c2}
    MaxTtl = 2
    Attempts = 2
    MaxTime = 3
    MaxLife = 2
    MaxTokens = 1
    None = None
INVARIANTS
    IssuedToOwner
    AdmittedByIssuer
    AdmittedWithinTtl
    SoundTokenAdmitted
