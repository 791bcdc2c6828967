SPECIFICATION FairSpec
CONSTANTS
    Null = Null
    Users = {u1}
    Ids = {a1, a2, a3}
    Threads = {t1, t2}
    MAX_ADDRESSES_PER_USER = 2
INVARIANTS
    TypeOK
    LimitOvershoot
    DefaultsBounded
PROPERTIES
    DefaultRepaired
    RequestsEnd
CHECK_DEADLOCK FALSE
