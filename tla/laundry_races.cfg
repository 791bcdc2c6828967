SPECIFICATION Spec
CONSTANTS
    Null = Null
    admin = admin
    Orders = {o1}
    LegacyOrders = {}
    agent = agent
    staff = staff
    Users = {agent, staff}
    RoleOf <- RoleOfUser
    Amounts = {0, 1}
    Threads = {t1, t2}
    EventLoop = loop
    RzpOrders = {r1, r2}
    Attempts = {a1, a2}
    MaxHistory = 5
SYMMETRY Symmetry
VIEW WithoutOwners
INVARIANTS
    WorkBackedByMoney
    FreeOrdersStay
    PaidNamesCapture
    AckedIsRecorded
    LifecycleLegal
PROPERTIES
    LifecycleContract
CHECK_DEADLOCK FALSE
