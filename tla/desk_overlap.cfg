SPECIFICATION Spec
CONSTANTS
    customer = customer
    staff = staff
    agent1 = agent1
    agent2 = agent2
    admin = admin
    Null = Null
    Orders = {o1}
    LegacyOrders = {}
    Users = {customer, agent1}
    RoleOf <- RoleOfUser
    Amounts = {1}
    Threads = {t1, t2}
    EventLoop = loop
    MaxHistory = 3
INVARIANTS
    LifecycleLegal
CHECK_DEADLOCK FALSE
