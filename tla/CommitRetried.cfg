SPECIFICATION FsSpec
CONSTANTS
    d1 = d1
    piece = piece
    Namespace = {n1}
    Digest = {d1}
    NoNamespace = NoNamespace
    NoDigest = NoDigest
    Upload = {u1}
    Temp = {f1}
    NoFile = NoFile
    Piece = {piece}
    Content <- MCContent
    MaxLength = 3
    VacuumRunning = FALSE
    Thread = {t1, t2}
    Exclusive = TRUE
    LateAppends = TRUE
    Faults = {"crash"}
INVARIANTS
    CommittedContent
