--------------------------- MODULE OnlinePayment ---------------------------
(***************************************************************************)
(* The online payment of an order through Razorpay: the owner starts a     *)
(* checkout, pays at Razorpay, his browser calls back to verify, and       *)
(* Razorpay reports the outcome by webhook.  Checkout, verification and    *)
(* webhook read the payment, most of them then talk to Razorpay, and they  *)
(* write what they concluded without looking again; pay[t] is what the     *)
(* worker t carries in between.                                            *)
(*                                                                         *)
(* Razorpay itself is modelled as far as the code relies on it: an order   *)
(* of Razorpay takes any number of payment attempts, of which at most one  *)
(* is captured; a webhook is repeated until it is acknowledged, may be     *)
(* duplicated after that, and overtakes other webhooks freely.             *)
(***************************************************************************)
EXTENDS LaundryData

CONSTANTS
    RzpOrders, \* ids of Razorpay orders
    Attempts   \* ids of Razorpay payments, the attempts to pay an order

ASSUME OnlineAssumption == Null \notin Orders \cup RzpOrders \cup Attempts

VARIABLES
    rzp,     \* rzp[o] holds the two Razorpay columns of the payment of o
    pay,     \* pay[t] is the request that worker t is serving
    receipt, \* receipt[r] is the order that Razorpay order r was created for
    handed,  \* the Razorpay orders whose id was returned to the browser
    attempt, \* attempt[a] is what Razorpay knows of attempt a
    acked    \* the attempts whose outcome was reported and acknowledged

requestVars  == <<rzp, pay>>
razorpayVars == <<receipt, handed, attempt, acked>>
onlineVars   == <<requestVars, razorpayVars>>
paymentVars  == <<dataVars, onlineVars>>

PayStep == {"idle", "create", "store", "fetch", "settle"}

AttemptState == {"none", "created", "authorized", "captured", "failed"}

(***************************************************************************)
(* seen and seen_id are the status and the razorpay_payment_id that the    *)
(* row had when it was read; outcome is the status to be written.          *)
(***************************************************************************)
PayRequest ==
    [step    : PayStep,
     webhook : BOOLEAN,
     order   : Orders \cup {Null},
     rzp     : RzpOrders \cup {Null},
     attempt : Attempts \cup {Null},
     seen    : PaymentStatus \cup {"NONE"},
     seen_id : Attempts \cup {Null},
     outcome : PaymentStatus \cup {"NONE"}]

Free == [step |-> "idle", webhook |-> FALSE, order |-> Null, rzp |-> Null,
         attempt |-> Null, seen |-> "NONE", seen_id |-> Null,
         outcome |-> "NONE"]

OnlineTypeOK ==
    /\ rzp \in [Orders -> [order   : RzpOrders \cup {Null},
                           payment : Attempts \cup {Null}]]
    /\ pay \in [Workers -> PayRequest]
    /\ receipt \in [RzpOrders -> Orders \cup {Null}]
    /\ handed \subseteq RzpOrders
    /\ attempt \in [Attempts -> [rzp   : RzpOrders \cup {Null},
                                 state : AttemptState]]
    /\ acked \subseteq Attempts

TypeOK == DataTypeOK /\ OnlineTypeOK

OnlineInit ==
    /\ rzp = [o \in Orders |-> [order |-> Null, payment |-> Null]]
    /\ pay = [t \in Workers |-> Free]
    /\ receipt = [r \in RzpOrders |-> Null]
    /\ handed = {}
    /\ attempt = [a \in Attempts |-> [rzp |-> Null, state |-> "none"]]
    /\ acked = {}

Init == DataInit /\ OnlineInit

-----------------------------------------------------------------------------
(***************************************************************************)
(* The session writes a column only if the value assigned differs from the *)
(* value it has read; another value that was committed meanwhile is        *)
(* overwritten in the first case, and kept in the second.                  *)
(***************************************************************************)
NetWrite(current, seen, new) == IF new = seen THEN current ELSE new

\* PaymentRepository.update by a request p, with its commit.
UpdatePayment(p, status, id) ==
    /\ payments' = [payments EXCEPT ![p.order].status =
                       NetWrite(@, p.seen, status)]
    /\ rzp' = [rzp EXCEPT ![p.order].payment = NetWrite(@, p.seen_id, id)]

Load(t, o, request) ==
    pay' = [pay EXCEPT ![t] = [request EXCEPT !.order   = o,
                                              !.seen    = payments[o].status,
                                              !.seen_id = rzp[o].payment]]

Respond(t) == pay' = [pay EXCEPT ![t] = Free]

\* The payments that the checkout and the verification accept.
Payable(o) ==
    /\ PaymentExists(o)
    /\ payments[o].method = "RAZORPAY"
    /\ payments[o].status # "PAID"

-----------------------------------------------------------------------------
(***************************************************************************)
(* POST /payments/orders/{id}/checkout.                                    *)
(***************************************************************************)

\* Mutant: an order that costs nothing gets a checkout.
LoadForCheckout_AnyAmount(t, o) ==
    /\ pay[t] = Free
    /\ Payable(o)
    /\ Load(t, o, [Free EXCEPT !.step = "create"])
    /\ UNCHANGED <<dataVars, rzp, razorpayVars>>

LoadForCheckout(t, o) ==
    /\ pay[t] = Free
    /\ Payable(o)
    /\ payments[o].amount > 0
    /\ Load(t, o, [Free EXCEPT !.step = "create"])
    /\ UNCHANGED <<dataVars, rzp, razorpayVars>>

\* The call of Razorpay's API.
CreateRzpOrder(t, r) ==
    /\ pay[t].step = "create"
    /\ receipt[r] = Null
    /\ receipt' = [receipt EXCEPT ![r] = pay[t].order]
    /\ pay' = [pay EXCEPT ![t].step = "store", ![t].rzp = r]
    /\ UNCHANGED <<dataVars, rzp, handed, attempt, acked>>

\* The new Razorpay order replaces the one of an earlier checkout, the
\* payment is PENDING again, and the browser gets the new id.
StoreCheckout(t) ==
    LET p == pay[t] IN
    /\ p.step = "store"
    /\ payments' = [payments EXCEPT ![p.order].status =
                       NetWrite(@, p.seen, "PENDING")]
    /\ rzp' = [rzp EXCEPT ![p.order] =
                  [order |-> p.rzp, payment |-> NetWrite(@.payment, p.seen_id, Null)]]
    /\ handed' = handed \cup {p.rzp}
    /\ Respond(t)
    /\ UNCHANGED <<orders, history, receipt, attempt, acked>>

-----------------------------------------------------------------------------
(***************************************************************************)
(* POST /payments/orders/{id}/verify.                                      *)
(***************************************************************************)

\* Mutant: the Razorpay order is not compared with the one on record.
Presentable_AnyOrder(o, a) ==
    attempt[a].state \in {"authorized", "captured", "failed"}

\* The browser presents an attempt.  Its Razorpay order must be the one the
\* payment has now, and the signature must be Razorpay's; Razorpay signs an
\* attempt that got beyond "created".
Presentable(o, a) ==
    /\ attempt[a].state \in {"authorized", "captured", "failed"}
    /\ rzp[o].order = attempt[a].rzp

LoadForVerify(t, o, a) ==
    /\ pay[t] = Free
    /\ Payable(o)
    /\ Presentable(o, a)
    /\ Load(t, o, [Free EXCEPT !.step = "fetch", !.attempt = a])
    /\ UNCHANGED <<dataVars, rzp, razorpayVars>>

\* Mutant: money that is only authorized counts as paid.
FetchOutcome_Authorized(state) ==
    CASE state \in {"authorized", "captured"} -> "PAID"
      [] state = "failed"                     -> "FAILED"
      [] OTHER                                -> "NONE"

FetchOutcome(state) ==
    CASE state = "captured" -> "PAID"
      [] state = "failed"   -> "FAILED"
      [] OTHER              -> "NONE"

\* Ask Razorpay for the state of the attempt.  One that is neither captured
\* nor failed leaves the payment alone.
FetchPayment(t) ==
    LET outcome == FetchOutcome(attempt[pay[t].attempt].state) IN
    /\ pay[t].step = "fetch"
    /\ IF outcome = "NONE"
       THEN Respond(t)
       ELSE pay' = [pay EXCEPT ![t].step = "settle", ![t].outcome = outcome]
    /\ UNCHANGED <<dataVars, rzp, razorpayVars>>

-----------------------------------------------------------------------------
(***************************************************************************)
(* POST /payments/webhooks/razorpay.  The endpoint is a coroutine without  *)
(* an await after it has its body: requests overlap it, other webhooks do  *)
(* not.                                                                    *)
(***************************************************************************)
PaymentsOf(r) == {o \in Orders : rzp[o].order = r}

\* Mutant: a capture cannot rescue a payment that FAILED.
Applies_OnlyPending(state, status) ==
    state \in {"captured", "failed"} /\ status = "PENDING"

\* Does the event about an attempt still apply to a payment in this status?
\* A capture counts unless the payment is settled for good, a failure only
\* while the payment is PENDING.
Applies(state, status) ==
    \/ state = "captured" /\ status \notin {"PAID", "REFUNDED"}
    \/ state = "failed" /\ status = "PENDING"

WebhookOutcome(state) == IF state = "captured" THEN "PAID" ELSE "FAILED"

\* The delivery of the event payment.captured or payment.failed of attempt a
\* to a payment it applies to.
LoadForWebhook(a) ==
    /\ pay[EventLoop] = Free
    /\ attempt[a].state \in {"captured", "failed"}
    /\ \E o \in PaymentsOf(attempt[a].rzp) :
          /\ Applies(attempt[a].state, payments[o].status)
          /\ Load(EventLoop, o,
                  [Free EXCEPT !.step = "settle", !.webhook = TRUE, !.attempt = a,
                               !.outcome = WebhookOutcome(attempt[a].state)])
    /\ UNCHANGED <<dataVars, rzp, razorpayVars>>

\* The delivery of an event that concerns no payment, or one it does not
\* apply to: acknowledged and dropped.
DropWebhook(a) ==
    /\ pay[EventLoop] = Free
    /\ attempt[a].state \in {"captured", "failed"}
    /\ \A o \in PaymentsOf(attempt[a].rzp) :
          ~Applies(attempt[a].state, payments[o].status)
    /\ acked' = acked \cup {a}
    /\ UNCHANGED <<dataVars, rzp, pay, receipt, handed, attempt>>

\* The commit of a verification or of a webhook.
Settle(t) ==
    LET p == pay[t] IN
    /\ p.step = "settle"
    /\ UpdatePayment(p, p.outcome, p.attempt)
    /\ acked' = IF p.webhook THEN acked \cup {p.attempt} ELSE acked
    /\ Respond(t)
    /\ UNCHANGED <<orders, history, receipt, handed, attempt>>

-----------------------------------------------------------------------------
\* Razorpay, the database or the process fails between two steps; an
\* interrupted webhook is not acknowledged.
AbortPay(t) ==
    /\ pay[t] # Free
    /\ Respond(t)
    /\ UNCHANGED <<dataVars, rzp, razorpayVars>>

(***************************************************************************)
(* Razorpay and the customer's browser.                                    *)
(***************************************************************************)
Captured(r) == \E a \in Attempts : attempt[a] = [rzp |-> r, state |-> "captured"]

StartAttempt(a, r) ==
    /\ r \in handed
    /\ attempt[a].state = "none"
    /\ ~Captured(r)
    /\ attempt' = [attempt EXCEPT ![a] = [rzp |-> r, state |-> "created"]]
    /\ UNCHANGED <<dataVars, requestVars, receipt, handed, acked>>

AttemptMoves(a, from, to) ==
    /\ attempt[a].state \in from
    /\ attempt' = [attempt EXCEPT ![a].state = to]
    /\ UNCHANGED <<dataVars, requestVars, receipt, handed, acked>>

AuthorizeAttempt(a) == AttemptMoves(a, {"created"}, "authorized")
FailAttempt(a)      == AttemptMoves(a, {"created", "authorized"}, "failed")
CaptureAttempt(a)   ==
    ~Captured(attempt[a].rzp) /\ AttemptMoves(a, {"authorized"}, "captured")

-----------------------------------------------------------------------------
Serve(t) ==
    \/ \E o \in Orders : LoadForCheckout(t, o)
    \/ \E r \in RzpOrders : CreateRzpOrder(t, r)
    \/ StoreCheckout(t)
    \/ \E o \in Orders, a \in Attempts : LoadForVerify(t, o, a)
    \/ FetchPayment(t)

Work(w) == Settle(w) \/ AbortPay(w)

Webhook == \E a \in Attempts : LoadForWebhook(a) \/ DropWebhook(a)

Razorpay ==
    \E a \in Attempts :
        \/ \E r \in RzpOrders : StartAttempt(a, r)
        \/ AuthorizeAttempt(a)
        \/ FailAttempt(a)
        \/ CaptureAttempt(a)

PlaceOrder(o, u, method, amount) ==
    CreateOrder(o, u, method, amount) /\ UNCHANGED onlineVars

Next ==
    \/ \E t \in Threads : Serve(t)
    \/ \E w \in Workers : Work(w)
    \/ Webhook
    \/ Razorpay
    \/ \E o \in Orders, u \in Users, method \in PaymentMethod, amount \in Amounts :
          PlaceOrder(o, u, method, amount)

Spec == Init /\ [][Next]_paymentVars

(***************************************************************************)
(* Razorpay repeats a webhook until it is acknowledged, and the event loop *)
(* serves what has arrived: a delivery that is possible again and again    *)
(* takes place, and one that gets to its commit again and again commits    *)
(* in the end.  Nothing forces a customer or a browser to do anything.     *)
(***************************************************************************)
Deliver(a) ==
    a \notin acked /\ (LoadForWebhook(a) \/ DropWebhook(a))

CommitWebhook == pay[EventLoop].webhook /\ Settle(EventLoop)

Fairness ==
    /\ \A a \in Attempts : SF_paymentVars(Deliver(a))
    /\ SF_paymentVars(CommitWebhook)

FairSpec == Spec /\ Fairness

-----------------------------------------------------------------------------
(***************************************************************************)
(* What holds however requests, webhooks and Razorpay interleave.          *)
(***************************************************************************)

\* The attempts to pay for an order, through whichever checkout.
AttemptsFor(o) ==
    {a \in Attempts : attempt[a].rzp # Null /\ receipt[attempt[a].rzp] = o}

CapturedFor(o) == \E a \in AttemptsFor(o) : attempt[a].state = "captured"

\* The columns of a payment name Razorpay orders and attempts of that order,
\* so a webhook finds at most one payment and never another customer's.
ReceiptsMatch ==
    \A o \in Orders :
        /\ rzp[o].order # Null => receipt[rzp[o].order] = o
        /\ rzp[o].payment # Null => rzp[o].payment \in AttemptsFor(o)

\* A payment is PAID only if Razorpay really has captured money for that
\* order, and FAILED only if an attempt to pay for that order really failed,
\* whatever was read, replaced or delivered late in between.
SettlementBacked ==
    \A o \in Orders : payments[o].method = "RAZORPAY" =>
        /\ payments[o].status = "PAID" => CapturedFor(o)
        /\ payments[o].status = "FAILED" =>
              \E a \in AttemptsFor(o) : attempt[a].state = "failed"

\* Razorpay is told that a capture has arrived only by the commit that makes
\* its payment PAID, or when the payment is PAID already, unless a checkout
\* has replaced the Razorpay order (razorpay_webhook, handle_payment_captured).
AckRecordsCapture ==
    [][\A a \in acked' \ acked, o \in Orders :
          attempt[a] = [rzp |-> rzp[o].order, state |-> "captured"]
              => payments'[o].status = "PAID"]_paymentVars

\* A capture that Razorpay still reports reaches the payment, also after a
\* failed attempt ("must still be able to rescue a payment stuck FAILED",
\* razorpay_webhook_handlers.py) and after interrupted or overtaking
\* deliveries, unless a new checkout has replaced the Razorpay order.
CaptureSettles ==
    \A a \in Attempts :
        attempt[a].state = "captured" /\ a \notin acked
        ~> \E o \in Orders : /\ a \in AttemptsFor(o)
                             /\ \/ payments[o].status = "PAID"
                                \/ rzp[o].order # attempt[a].rzp

-----------------------------------------------------------------------------
(***************************************************************************)
(* What the comments of the code say of all executions, and what holds of  *)
(* a payment until a commit writes it from a stale read (module Laundry).  *)
(***************************************************************************)

OnlinePaid(o) == payments[o].method = "RAZORPAY" /\ payments[o].status = "PAID"

\* "a failed attempt must never downgrade a payment that's already PAID"
\* (handle_payment_failed).
FailureNeverDowngrades ==
    [][\A o \in Orders : OnlinePaid(o) => payments'[o].status # "FAILED"]_paymentVars

\* The razorpay_payment_id of a PAID payment is the attempt whose money was
\* captured, through the Razorpay order that the payment names.
NamesCapture(o) ==
    OnlinePaid(o) =>
        \E a \in Attempts :
            /\ rzp[o].payment = a
            /\ attempt[a] = [rzp |-> rzp[o].order, state |-> "captured"]

\* Once Razorpay has its acknowledgement it does not report a capture again:
\* the payment that names the Razorpay order of an acknowledged capture is
\* PAID (handle_payment_captured).
AckRecorded(o) ==
    \A a \in acked :
        attempt[a] = [rzp |-> rzp[o].order, state |-> "captured"]
            => payments[o].status = "PAID"

\* A verification that finds an attempt authorized leaves the payment
\* PENDING: "the webhook will finalize once captured" (verify_payment).
WebhookFinalizes ==
    \A a \in Attempts, t \in Threads :
        [](/\ pay[t].step = "fetch" /\ pay[t].attempt = a
           /\ attempt[a].state = "authorized"
           /\ <>(attempt[a].state = "captured")
           => <>(\E o \in Orders : a \in AttemptsFor(o) /\ OnlinePaid(o)))
=============================================================================
