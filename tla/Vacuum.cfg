CONSTANTS
    Caller = {c1, c2}
    NoCaller = NoCaller
    Controller = {ct1, ct2}
    Worker = {w1}
    k1 = k1
    d1 = d1
    s1 = s1
    BlobPath <- OneBlob
    StagingDir <- NoDir
    MaxPools = 2
    Faults = {"disk", "cancel"}
SPECIFICATION Spec
SYMMETRY Symmetric
INVARIANTS
    TypeOK
    SendOnOpen
    StopReachable
    NoWorkerLeft
    NoCommandLost
    NoDeadlock
