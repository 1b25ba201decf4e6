SPECIFICATION FairSpec
CONSTANTS
    f1 = f1
    f2 = f2
    r1 = r1
    r2 = r2
    r3 = r3
    Files = {f1, f2}
    Checksum <- SameBytes
    Requests = {r1, r2, r3}
    Operations <- UploadAndTwo
    Workers = {w1}
    MaxRetries = 1
    MaxVersion = 2
    Faults = {"commit", "transient", "crash"}
    NoFile = NoFile
    NoMessage = NoMessage
INVARIANTS
    TypeOK
    LiveChecksumsUnique
    NoStrandedFile
    StoresAgree
PROPERTIES
    EveryFileSettles
    GoodGenerationsReturn
