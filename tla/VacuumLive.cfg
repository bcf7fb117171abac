CONSTANTS
    Caller = {c1, c2}
    NoCaller = NoCaller
    Controller = {ct1}
    Worker = {w1}
    k1 = k1
    d1 = d1
    s1 = s1
    BlobPath <- OneBlob
    StagingDir <- NoDir
    MaxPools = 2
    Faults = {"disk"}
SPECIFICATION FairSpec
PROPERTIES
    CallsReturn
    StopReturns
