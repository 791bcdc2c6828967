SPECIFICATION ReducedFairSpec
CONSTANTS
    Null = Null
    Orders = {o1, o2}
    LegacyOrders = {}
    Users = {customer}
    RoleOf <- RoleOfUser
    Amounts = {1}
    Threads = {t1, t2}
    EventLoop = loop
    RzpOrders = {r1, r2}
    Attempts = {a1, a2}
INVARIANTS
    TypeOK
    ReceiptsMatch
    SettlementBacked
PROPERTIES
    CaptureSettles
    AckRecordsCapture
CHECK_DEADLOCK FALSE
