SPECIFICATION Spec
CONSTANTS
    d1 = d1
    d2 = d2
    piece = piece
    Namespace = {n1}
    Digest = {d1}
    NoNamespace = NoNamespace
    NoDigest = NoDigest
    MediaType = {}
    NoMediaType = NoMediaType
    Subject <- MCSubject
    Upload = {u1}
    NoUploadID = NoUploadID
    Piece = {piece}
    Content <- MCContent
    MaxUploadLength = 2
    VacuumRunning = TRUE
    BlobRequest = {r1, r2}
    BlobOps = {"Get", "Monolithic"}
    ManifestRequest = {}
    ManifestOps = {}
    NamespaceOps = {"Create", "Delete"}
    Faults = {"metastore"}
SYMMETRY Symmetric
INVARIANTS
    RegisteredHasBytes
