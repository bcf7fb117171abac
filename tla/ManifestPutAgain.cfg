SPECIFICATION Spec
CONSTANTS
    d1 = d1
    d2 = d2
    piece = piece
    Namespace = {n1}
    Digest = {d1, d2}
    NoNamespace = NoNamespace
    NoDigest = NoDigest
    MediaType = {m1, m2}
    NoMediaType = NoMediaType
    Subject <- MCSubject
    Upload = {}
    NoUploadID = NoUploadID
    Piece = {piece}
    Content <- MCContent
    MaxUploadLength = 0
    VacuumRunning = TRUE
    BlobRequest = {}
    BlobOps = {}
    ManifestRequest = {r1, r2}
    ManifestOps = {"PutManifest", "GetManifest", "HeadManifest", "DeleteManifest", "ListReferrers"}
    NamespaceOps = {"Create", "Delete"}
    Faults = {}
SYMMETRY Symmetric
PROPERTIES
    PutManifestIsReadable
