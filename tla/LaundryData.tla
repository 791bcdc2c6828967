---------------------------- MODULE LaundryData ----------------------------
(***************************************************************************)
(* The rows of the database that the order desk and the online payments    *)
(* share, and the one operation that inserts them, POST /orders/.          *)
(*                                                                         *)
(* PostgreSQL runs every session at its default isolation level, READ      *)
(* COMMITTED, and every handler reads with plain SELECTs: a read sees the  *)
(* rows committed at that moment, and what a handler does with them later  *)
(* is not protected against the commits of other requests in between.      *)
(* So a request is a sequence of steps, one per database access.           *)
(*                                                                         *)
(* Endpoints that are plain functions run on the threads of a pool.  The   *)
(* only coroutine among the endpoints, the webhook, runs on the event loop *)
(* of the one server process, one delivery at a time.  An instance with    *)
(* Threads = {EventLoop} is a server that serves one request at a time.    *)
(*                                                                         *)
(* Here and in the modules that build on this one, a definition marked     *)
(* Mutant is wrong on purpose and used nowhere in the model: it is the     *)
(* definition that follows it with a plausible mistake, which the          *)
(* properties must notice.                                                 *)
(***************************************************************************)
EXTENDS OrderWorkflow, Naturals, Sequences

CONSTANTS
    Orders,       \* ids of orders
    LegacyOrders, \* the orders that are older than the payments table
    Users,        \* ids of users
    RoleOf,       \* RoleOf[u] is the role u signed up with; it never changes
    Amounts,      \* the totals an order may come to
    Threads,      \* the threads that serve requests
    EventLoop,    \* the thread that serves webhooks
    Null          \* SQL NULL

ASSUME DataAssumption ==
    /\ LegacyOrders \subseteq Orders
    /\ RoleOf \in [Users -> UserRole]
    /\ Amounts \subseteq Nat
    /\ Null \notin Users

Workers == Threads \cup {EventLoop}

VARIABLES
    orders,   \* orders[o] is the row of order o
    payments, \* payments[o] is the row of its payment (the columns that do
              \* not concern Razorpay)
    history   \* history[o] lists its order_status_history rows as committed

dataVars == <<orders, payments, history>>

OrderRow ==
    [user           : Users \cup {Null},
     status         : OrderStatus \cup {"NONE"},
     pickup_agent   : Users \cup {Null},
     delivery_agent : Users \cup {Null}]

PaymentRow ==
    [method : PaymentMethod \cup {"NONE"},
     status : PaymentStatus \cup {"NONE"},
     amount : Nat]

\* The place of a row in history[o] is that of its commit.  The table itself
\* has no column that tells: created_at is when the transaction began, and
\* no query orders by it.
HistoryRow == [status : OrderStatus, by : Users]

\* There is no such row.
NoOrder ==
    [user |-> Null, status |-> "NONE",
     pickup_agent |-> Null, delivery_agent |-> Null]

NoPayment == [method |-> "NONE", status |-> "NONE", amount |-> 0]

OrderExists(o) == orders[o].status # "NONE"

PaymentExists(o) == payments[o].method # "NONE"

\* Mutant: the order starts with the status of a payment.
NewOrder_PaymentStatus(u) == [NoOrder EXCEPT !.user = u, !.status = "PENDING"]

NewOrder(u) == [NoOrder EXCEPT !.user = u, !.status = "PENDING_PICKUP"]

FirstHistory(u) == <<[status |-> "PENDING_PICKUP", by |-> u]>>

DataTypeOK ==
    /\ orders \in [Orders -> OrderRow]
    /\ payments \in [Orders -> PaymentRow]
    /\ history \in [Orders -> Seq(HistoryRow)]

\* The database after the migration that added payments: the orders placed
\* before it have none.  They start here at their first status, which they
\* leave by the same requests, ungated, before the migration and after it.
DataInit ==
    \E owner \in [LegacyOrders -> Users] :
        /\ orders = [o \in Orders |-> IF o \in LegacyOrders
                                      THEN NewOrder(owner[o]) ELSE NoOrder]
        /\ history = [o \in Orders |-> IF o \in LegacyOrders
                                       THEN FirstHistory(owner[o]) ELSE <<>>]
        /\ payments = [o \in Orders |-> NoPayment]

(***************************************************************************)
(* POST /orders/: one commit inserts the order, its first history row and  *)
(* its payment.  Any user may order.  The prices, the address snapshot and *)
(* the search for a free order number come before that commit and only     *)
(* decide whether it happens and for which amount.                         *)
(***************************************************************************)
CreateOrder(o, u, method, amount) ==
    /\ ~OrderExists(o)
    /\ orders' = [orders EXCEPT ![o] = NewOrder(u)]
    /\ history' = [history EXCEPT ![o] = FirstHistory(u)]
    /\ payments' = [payments EXCEPT ![o] =
                       [method |-> method, status |-> "PENDING", amount |-> amount]]
=============================================================================
