SPECIFICATION Spec
CONSTANTS
    Null = Null
    Orders = {o1}
    LegacyOrders = {}
    Users = {customer}
    RoleOf <- RoleOfUser
    Amounts = {1}
    Threads = {t1}
    EventLoop = loop
    RzpOrders = {r1}
    Attempts = {a1, a2}
PROPERTIES
    FailureNeverDowngrades
CHECK_DEADLOCK FALSE
