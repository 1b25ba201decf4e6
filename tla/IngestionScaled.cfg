SPECIFICATION Spec
CONSTANTS
    f1 = f1
    f2 = f2
    r1 = r1
    r2 = r2
    r3 = r3
    Files = {f1}
    Checksum <- OneFile
    Requests = {r1, r2, r3}
    Operations <- FileRequests
    Workers = {w1, w2}
    MaxRetries = 0
    MaxVersion = 2
    Faults = {"put", "erase", "transient", "content", "interrupt", "crash", "enqueue", "request"}
    NoFile = NoFile
    NoMessage = NoMessage
SYMMETRY Processes
INVARIANTS
    ActiveGenerationStored
PROPERTIES
    DeletedForGood
    ImplementsDocumentIndex
