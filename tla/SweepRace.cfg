CONSTANTS
    Caller = {c1}
    NoCaller = NoCaller
    Controller = {ct1}
    Worker = {w1}
    k1 = k1
    d1 = d1
    s1 = s1
    BlobPath <- NoBlob
    StagingDir <- OneDir
    MaxPools = 1
    Faults = {}
SPECIFICATION Spec
PROPERTIES
    RemovesOnlyStale
