SPECIFICATION Spec
CONSTANTS
    Users = {1, 2}
    Requests = {r1, r2, r3}
SYMMETRY Interchangeable
INVARIANTS
    TypeOK
PROPERTIES
    CountedAdministratorIsKept
    DeactivationIsNotUndone
