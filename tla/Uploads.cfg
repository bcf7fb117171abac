SPECIFICATION Spec
CONSTANTS
    d1 = d1
    d2 = d2
    piece = piece
    Namespace = {n1}
    Digest = {d1}
    NoNamespace = NoNamespace
    NoDigest = NoDigest
    MediaType = {}
    NoMediaType = NoMediaType
    Subject <- MCSubject
    Upload = {u1}
    NoUploadID = NoUploadID
    Piece = {piece}
    Content <- MCContent
    MaxUploadLength = 3
    VacuumRunning = FALSE
    BlobRequest = {r1, r2}
    BlobOps = {"Mount", "Head", "Get", "Range", "Monolithic", "Initiate", "Append", "Commit", "Status", "Cancel"}
    ManifestRequest = {}
    ManifestOps = {}
    NamespaceOps = {"Create", "Delete"}
    Faults = {"metastore", "disk", "disconnect", "crash"}
SYMMETRY Symmetric
INVARIANTS
    TypeOK
    ForeignKeys
    RegisteredHasBytes
PROPERTIES
    ImplementsCatalog
    SessionsKept
