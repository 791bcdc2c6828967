SPECIFICATION Spec
CONSTANTS
    Null = Null
    Services = {s1}
    ItemTypes = {i1}
    Prices = {1, 2}
    Versions = {v1, v2}
    Numbers = {n1, n2}
    MaxTries = 3
    MaxLines = 2
    Threads = {t1, t2}
SYMMETRY Symmetry
INVARIANTS
    TypeOK
    LinesWereOffered
    AddressIsRecent
PROPERTIES
    ActivationWitnessed
CHECK_DEADLOCK FALSE
