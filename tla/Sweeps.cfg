CONSTANTS
    Caller = {c1, c2}
    NoCaller = NoCaller
    Controller = {ct1}
    Worker = {w1, w2}
    k1 = k1
    d1 = d1
    s1 = s1
    BlobPath <- OneBlob
    StagingDir <- OneDir
    MaxPools = 1
    Faults = {"disk"}
SPECIFICATION Spec
SYMMETRY Symmetric
PROPERTIES
    ImplementsDeletion
