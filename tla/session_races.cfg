SPECIFICATION Spec
CONSTANTS
    Null = Null
    Users = {u1}
    Sessions = {s1, s2, s3}
    Tokens = {k1, k2, k3, k4}
    Passwords = {p0, p1, p2}
    First = p0
    Threads = {t1, t2}
SYMMETRY Symmetry
INVARIANTS
    TypeOK
    StaleBounded
    AcceptedBounded
PROPERTIES
    RevokedForGood
CHECK_DEADLOCK FALSE
