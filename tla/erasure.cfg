SPECIFICATION Spec
CONSTANTS
    Blob = {b1}
    Coders = {"rs", "copies"}
    MaxParam = 3
    Namespace = {"ns1", "ns2"}
    NonceLen = 1
    Nonce <- Nonces
    Text <- Texts
    Raw <- Others
    Aead <- Toy
    None = None
INVARIANTS
    TypeOK
    RestoredIsOriginal
    AnyKRestore
    RepairIsExact
    UniformShards
    OpensWithOwnKeyOnly
