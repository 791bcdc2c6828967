SPECIFICATION Spec
CONSTANTS
    Null = Null
    admin = admin
    Orders = {o1, o2}
    LegacyOrders = {o2}
    agent = agent
    staff = staff
    Users = {admin}
    RoleOf <- RoleOfUser
    Amounts = {1}
    Threads = {t1}
    EventLoop = loop
    RzpOrders = {r1}
    Attempts = {a1, a2}
    MaxHistory = 5
SYMMETRY Symmetry
VIEW WithoutOwners
INVARIANTS
    WorkBackedByMoney
PROPERTIES
    LifecycleContract
CHECK_DEADLOCK FALSE
