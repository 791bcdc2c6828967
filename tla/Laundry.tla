------------------------------ MODULE Laundry ------------------------------
(***************************************************************************)
(* The order desk and the online payments on one database.  A thread       *)
(* serves one request at a time, of whichever kind; the requests of        *)
(* different threads and the webhooks of the event loop interleave.        *)
(***************************************************************************)
EXTENDS LaundryData

CONSTANTS MaxHistory, RzpOrders, Attempts

ASSUME LaundryAssumption ==
    /\ MaxHistory \in Nat
    /\ Null \notin Orders \cup RzpOrders \cup Attempts

VARIABLES
    desk,
    rzp, pay, receipt, handed, attempt, acked,
    contested \* history: the orders with a row that was committed from a
              \* stale read; no action depends on it

Desk   == INSTANCE OrderDesk
Online == INSTANCE OnlinePayment

onlineVars  == <<rzp, pay, receipt, handed, attempt, acked>>
laundryVars == <<dataVars, desk, onlineVars, contested>>

Init ==
    /\ DataInit
    /\ desk = [t \in Threads |-> Desk!Idle]
    /\ Online!OnlineInit
    /\ contested = {}

DeskFree(w) == w \in Threads => desk[w] = Desk!Idle

-----------------------------------------------------------------------------
(***************************************************************************)
(* Nothing in the code keeps the requests for an order apart: no lock, no  *)
(* version, no condition in the UPDATE.  Most overlaps do no harm, since   *)
(* what a request writes agrees with what the row says by then.  Harm can  *)
(* begin only in a commit that changes the row of the order, or of its     *)
(* payment, after the columns that the request has judged by have changed. *)
(***************************************************************************)

\* The commit of a status change: the order has another status by now than
\* the one whose transition was checked.
StaleStatus(t) ==
    history' # history /\ orders[desk[t].order].status # desk[t].seen

\* The commit of a checkout, a verification or a webhook: the payment has
\* another status or another payment id by now than was read, or it names
\* another Razorpay order than the one the attempt was checked against.
StalePayment(w) ==
    LET p == pay[w] IN
    /\ <<payments, rzp>>' # <<payments, rzp>>
    /\ \/ payments[p.order].status # p.seen
       \/ rzp[p.order].payment # p.seen_id
       \/ p.step = "settle" /\ rzp[p.order].order # attempt[p.attempt].rzp

Contested(stale, o) ==
    contested' = IF stale THEN contested \cup {o} ELSE contested

-----------------------------------------------------------------------------
PlaceOrder(o, u, method, amount) ==
    /\ CreateOrder(o, u, method, amount)
    /\ UNCHANGED <<desk, onlineVars, contested>>

\* A step of a request at the desk, by a thread that serves no payment.
AtTheDesk(t) ==
    /\ pay[t] = Online!Free
    /\ Desk!ThreadStep(t)
    /\ Contested(StaleStatus(t), desk[t].order)
    /\ UNCHANGED onlineVars

Claim(u, o) ==
    /\ Desk!ClaimPickup(u, o) \/ Desk!ClaimDelivery(u, o)
    /\ UNCHANGED <<onlineVars, contested>>

\* A step of a payment request, by a thread that serves no one at the desk.
OfAPayment(w) ==
    /\ DeskFree(w)
    /\ (w \in Threads /\ Online!Serve(w)) \/ Online!Work(w)
    /\ Contested(StalePayment(w), pay[w].order)
    /\ UNCHANGED desk

OfAWebhook ==
    /\ DeskFree(EventLoop)
    /\ Online!Webhook
    /\ UNCHANGED <<desk, contested>>

AtRazorpay == Online!Razorpay /\ UNCHANGED <<desk, contested>>

Next ==
    \/ \E o \in Orders, u \in Users, method \in PaymentMethod, amount \in Amounts :
          PlaceOrder(o, u, method, amount)
    \/ \E t \in Threads : AtTheDesk(t)
    \/ \E u \in Users, o \in Orders : Claim(u, o)
    \/ \E w \in Workers : OfAPayment(w)
    \/ OfAWebhook
    \/ AtRazorpay

Spec == Init /\ [][Next]_laundryVars

-----------------------------------------------------------------------------
\* Nobody's laundry is washed for free, however requests and webhooks
\* interleave: an online order is recorded as picked up only if Razorpay
\* has captured money for it, and a delivered order is older than the
\* payments or paid in cash or captured.
WorkBackedByMoney ==
    \A o \in Orders :
        /\ Desk!HasBeen(o, "PICKED_UP") /\ payments[o].method = "RAZORPAY"
              => Online!CapturedFor(o)
        /\ Desk!HasBeen(o, "DELIVERED") =>
              \/ o \in LegacyOrders
              \/ payments[o].method = "COD" /\ payments[o].status = "PAID"
              \/ Online!CapturedFor(o)

\* An online order that comes to nothing can only be cancelled: its checkout
\* is refused ("Invalid payment amount", start_checkout), and nothing else
\* lets it through the gate of the pickup.
FreeOrdersStay ==
    \A o \in Orders :
        payments[o].method = "RAZORPAY" /\ payments[o].amount = 0
            => orders[o].status \in {"PENDING_PICKUP", "CANCELLED"}

\* The desk sees of the online payments no more than its environment
\* OnlineSettlement does, so its theorems hold here.
DeskContract == Desk!Spec

-----------------------------------------------------------------------------
(***************************************************************************)
(* What every order keeps until a commit writes it from a stale read, that *)
(* is, however requests, webhooks and collections overlap otherwise.  The  *)
(* runs of desk_overlap and late_failure show such commits.                *)
(***************************************************************************)

\* The service keeps what OrderLifecycle promises of every order; of one that
\* is contested, no more than how it is paid.
Lifecycle ==
    INSTANCE OrderLifecycle WITH
        stage   <- [o \in Orders |-> IF o \in contested THEN "CONTESTED"
                                                       ELSE orders[o].status],
        method  <- [o \in Orders |-> payments[o].method],
        settled <- {o \in Orders \ contested : payments[o].status = "PAID"}

LifecycleContract == Lifecycle!Spec

\* The laundry never works unpaid: what the gates of update_order_status have
\* read before the commit is not taken back later (start_checkout,
\* verify_payment, handle_payment_failed).
NoUnpaidWork == Lifecycle!NoUnpaidWork

\* An online payment that is PAID stays PAID, whatever attempts fail,
\* checkouts are asked for and webhooks come late: only a commit from a
\* stale read takes it back (start_checkout, verify_payment,
\* handle_payment_failed).
PaidIsFinal ==
    [][\A o \in Orders \ contested' :
          Online!OnlinePaid(o) => payments'[o].status = "PAID"]_laundryVars

\* A payment that is PAID names the attempt whose money was captured and the
\* Razorpay order it was captured for.
PaidNamesCapture == \A o \in Orders \ contested : Online!NamesCapture(o)

\* No capture is acknowledged to Razorpay and lost (handle_payment_captured).
AckedIsRecorded == \A o \in Orders \ contested : Online!AckRecorded(o)

\* The status changes of an order follow the two tables of workflow.py, each
\* made by a role that may make it (update_order_status).
LifecycleLegal == \A o \in Orders \ contested : Desk!TrailLegal(o)
=============================================================================
