SPECIFICATION Spec
CONSTANTS
    f1 = f1
    f2 = f2
    r1 = r1
    r2 = r2
    r3 = r3
    Files = {f1}
    Checksum <- OneFile
    Requests = {r1, r2}
    Operations <- FileRequests
    Workers = {w1}
    MaxRetries = 2
    MaxVersion = 1
    Faults = {}
    NoFile = NoFile
    NoMessage = NoMessage
PROPERTIES
    DeletedStaysDeleted
