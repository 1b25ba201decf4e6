SPECIFICATION Spec
CONSTANTS
    Turns = {t1}
    MaxRetries = 0
INVARIANTS
    NoTurnLeftPending
