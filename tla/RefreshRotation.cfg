SPECIFICATION FairSpec
CONSTANTS
    Tokens = {t1, t2, t3, t4}
    Calls = {c1, c2, c3, c4}
    NoToken = NoToken
INVARIANTS
    TypeOK
    OneLivePerFamily
    RotationIsAChain
PROPERTIES
    RotationKeepsSession
    EveryCallEnds
