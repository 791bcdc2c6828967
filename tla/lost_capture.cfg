SPECIFICATION FairSpec
CONSTANTS
    Null = Null
    Orders = {o1}
    LegacyOrders = {}
    Users = {customer}
    RoleOf <- RoleOfUser
    Amounts = {1}
    Threads = {t1}
    EventLoop = loop
    RzpOrders = {r1, r2}
    Attempts = {a1}
PROPERTIES
    WebhookFinalizes
CHECK_DEADLOCK FALSE
