CONSTANTS
    Requests = {r1, r2, r3}
    Databases = {d1, d2}
    Tables = {n1, n2}
    AllowPrivate = FALSE
    Nobody = Nobody
SPECIFICATION Spec
CHECK_DEADLOCK FALSE
INVARIANTS TypeOK OneDiscovery PendingHidesTables RunningIsSomeones
PROPERTIES DeletedStaysDeleted RequestsEnd
