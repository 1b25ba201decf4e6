SPECIFICATION Spec
CONSTANTS
    Tokens = {t1, t2, t3, t4}
    Calls = {c1, c2, c3, c4}
    NoToken = NoToken
SYMMETRY Interchangeable
PROPERTIES
    ReplayRevokesFamily
