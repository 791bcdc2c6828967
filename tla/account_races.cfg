SPECIFICATION Spec
CONSTANTS
    Null = Null
    Users = {u1, u2}
    Emails = {e1, e2, e3}
    Phones = {p1, p2}
    Codes = {c1, c2}
    Threads = {t1, t2}
SYMMETRY Symmetry
INVARIANTS
    TypeOK
PROPERTIES
    RegistryContract
    RefusalsAreTrue
CHECK_DEADLOCK FALSE
