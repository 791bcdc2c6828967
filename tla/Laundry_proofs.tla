--------------------------- MODULE Laundry_proofs ---------------------------
(***************************************************************************)
(* The desk and the online payments together, for any number of orders,    *)
(* users and threads.  What OrderDesk_proofs and OnlinePayment_proofs show *)
(* of each alone is used here step by step: a step of either keeps the     *)
(* invariants of both.  The last part tells of an order before a commit    *)
(* has written it from a stale read: it keeps what OrderLifecycle promises *)
(* in every execution, since every other commit writes what still fits.    *)
(***************************************************************************)
EXTENDS Laundry, TLAPS

D == INSTANCE OrderDesk_proofs
P == INSTANCE OnlinePayment_proofs

-----------------------------------------------------------------------------
(***************************************************************************)
(* The inductive invariant.                                                *)
(***************************************************************************)

\* Only an online order is paid for at Razorpay.
OnlineOnly ==
    /\ \A o \in Orders : rzp[o].order # Null => payments[o].method = "RAZORPAY"
    /\ \A w \in Workers :
          pay[w].step # "idle" => payments[pay[w].order].method = "RAZORPAY"

\* Only the orders that are older than the payments have none.
LegacyOnly ==
    \A o \in Orders : OrderExists(o) /\ payments[o].method = "NONE" => o \in LegacyOrders

\* The stages of an order that the laundry has taken in.
InHand == OrderStatus \ {"PENDING_PICKUP", "CANCELLED"}

\* Laundry that was worked on has been picked up, and an online order that
\* was picked up, or is about to be, is paid with captured money.
TakenIn ==
    \A o \in Orders : \A i \in DOMAIN history[o] :
        history[o][i].status \in InHand => D!HasBeen(o, "PICKED_UP")

PickedUpBacked ==
    \A o \in Orders :
        D!HasBeen(o, "PICKED_UP") /\ payments[o].method = "RAZORPAY" => P!CapturedFor(o)

PickupsBacked ==
    \A t \in Threads :
        /\ desk[t].step = "commit"
        /\ D!Transition(desk[t]) = D!Pickup
        /\ payments[desk[t].order].method = "RAZORPAY"
        => P!CapturedFor(desk[t].order)

\* Razorpay is asked for money only where there is some to pay.
Priced ==
    /\ \A r \in RzpOrders :
          receipt[r] # Null => receipt[r] \in Orders /\ payments[receipt[r]].amount > 0
    /\ \A w \in Workers :
          pay[w].step = "create" => payments[pay[w].order].amount > 0

IInv ==
    /\ D!IInv
    /\ P!IInv
    /\ OnlineOnly
    /\ LegacyOnly
    /\ TakenIn
    /\ PickedUpBacked
    /\ PickupsBacked
    /\ Priced

-----------------------------------------------------------------------------
(***************************************************************************)
(* The steps of Laundry as steps of its parts.                             *)
(***************************************************************************)
LEMMA DeskKeeps ==
    ASSUME D!IInv, [D!Next]_D!deskVars
    PROVE  D!IInv'
BY D!InvStep, DataAssumption, LaundryAssumption DEF D!UserRole, UserRole

LEMMA OnlineKeeps ==
    ASSUME P!IInv, [P!Next]_P!paymentVars
    PROVE  P!IInv'
BY P!InvariantStep, DataAssumption, LaundryAssumption DEF P!UserRole, UserRole

LEMMA SameThreadStep ==
    ASSUME NEW t \in Threads, Desk!ThreadStep(t)
    PROVE  D!ThreadStep(t)
BY DEF Desk!ThreadStep, D!ThreadStep, Desk!LoadOrderForUpdate, D!LoadOrderForUpdate,
       Desk!CheckPaymentGate, D!CheckPaymentGate, Desk!CommitStatus, D!CommitStatus,
       Desk!LoadOrderForCollect, D!LoadOrderForCollect, Desk!LoadPaymentForCollect,
       D!LoadPaymentForCollect,
       Desk!MarkPaidIfPending, D!MarkPaidIfPending, Desk!ReportCollected, D!ReportCollected,
       Desk!AbortDesk, D!AbortDesk, Desk!Idle, D!Idle, Desk!OrderExists, D!OrderExists,
       Desk!Permitted, D!Permitted,
       Desk!OwnsTransition, D!OwnsTransition, Desk!GateOpen, D!GateOpen, Desk!Transition,
       D!Transition,
       Desk!Continue, D!Continue, Desk!Finish, D!Finish, Desk!HistoryEntry, D!HistoryEntry,
       Desk!Collectable, D!Collectable, Desk!AgentOrAdmin, D!AgentOrAdmin, Desk!dataVars,
       D!dataVars,
       Desk!OrderStatus, D!OrderStatus, Desk!ValidOrderTransitions, D!ValidOrderTransitions,
       Desk!TransitionPermissions, D!TransitionPermissions, Desk!Pickup, D!Pickup,
       Desk!Delivery, D!Delivery,
       Desk!AgentOwnershipTransitions, D!AgentOwnershipTransitions, Desk!StaffTransitions,
       D!StaffTransitions

LEMMA SameClaim ==
    ASSUME NEW u \in Users, NEW o \in Orders
    PROVE  /\ Desk!ClaimPickup(u, o) => D!ClaimPickup(u, o)
           /\ Desk!ClaimDelivery(u, o) => D!ClaimDelivery(u, o)
BY DEF Desk!ClaimPickup, D!ClaimPickup, Desk!ClaimDelivery, D!ClaimDelivery,
       Desk!AgentOrAdmin, D!AgentOrAdmin

LEMMA SameServe ==
    ASSUME NEW t \in Threads, Online!Serve(t)
    PROVE  P!Serve(t)
BY DEF Online!Serve, P!Serve, Online!LoadForCheckout, P!LoadForCheckout,
       Online!CreateRzpOrder, P!CreateRzpOrder, Online!StoreCheckout, P!StoreCheckout,
       Online!LoadForVerify, P!LoadForVerify, Online!FetchPayment, P!FetchPayment,
       Online!Payable, P!Payable, Online!PaymentExists, P!PaymentExists,
       Online!Load, P!Load, Online!Free, P!Free, Online!Respond, P!Respond,
       Online!Presentable, P!Presentable, Online!FetchOutcome, P!FetchOutcome,
       Online!NetWrite, P!NetWrite, Online!dataVars, P!dataVars,
       Online!razorpayVars, P!razorpayVars

LEMMA SameWork ==
    ASSUME NEW w \in Workers, Online!Work(w)
    PROVE  P!Work(w)
BY DEF Online!Work, P!Work, Online!Settle, P!Settle, Online!AbortPay, P!AbortPay,
       Online!UpdatePayment, P!UpdatePayment, Online!Free, P!Free, Online!Respond, P!Respond,
       Online!NetWrite, P!NetWrite, Online!dataVars, P!dataVars,
       Online!razorpayVars, P!razorpayVars

LEMMA SameWebhook ==
    ASSUME Online!Webhook
    PROVE  P!Webhook
BY DEF Online!Webhook, P!Webhook, Online!LoadForWebhook, P!LoadForWebhook,
       Online!DropWebhook, P!DropWebhook, Online!PaymentsOf, P!PaymentsOf,
       Online!Applies, P!Applies, Online!WebhookOutcome, P!WebhookOutcome,
       Online!Load, P!Load, Online!Free, P!Free, Online!dataVars, P!dataVars,
       Online!razorpayVars, P!razorpayVars

LEMMA SameRazorpay ==
    ASSUME Online!Razorpay
    PROVE  P!Razorpay
BY DEF Online!Razorpay, P!Razorpay, Online!StartAttempt, P!StartAttempt,
       Online!AuthorizeAttempt, P!AuthorizeAttempt, Online!FailAttempt, P!FailAttempt,
       Online!CaptureAttempt, P!CaptureAttempt, Online!AttemptMoves, P!AttemptMoves,
       Online!Captured, P!Captured, Online!dataVars, P!dataVars,
       Online!requestVars, P!requestVars
-----------------------------------------------------------------------------
AtDesk ==
    /\ \/ \E t \in Threads : D!ThreadStep(t)
       \/ \E u \in Users, o \in Orders : D!ClaimPickup(u, o) \/ D!ClaimDelivery(u, o)
    /\ UNCHANGED onlineVars

AtPayments ==
    /\ \/ \E t \in Threads : P!Serve(t)
       \/ \E w \in Workers : P!Work(w)
       \/ P!Webhook
       \/ P!Razorpay
    /\ UNCHANGED desk

Placed ==
    \E o \in Orders, u \in Users, method \in PaymentMethod, amount \in Amounts :
        PlaceOrder(o, u, method, amount)

LEMMA Steps ==
    ASSUME [Next]_laundryVars
    PROVE  AtDesk \/ AtPayments \/ Placed \/ UNCHANGED laundryVars
<1>1. CASE \E t \in Threads : AtTheDesk(t)
    BY <1>1, SameThreadStep DEF AtTheDesk, AtDesk
<1>2. CASE \E u \in Users, o \in Orders : Claim(u, o)
    BY <1>2, SameClaim DEF Claim, AtDesk
<1>3. CASE \E w \in Workers : OfAPayment(w)
    BY <1>3, SameServe, SameWork DEF OfAPayment, AtPayments
<1>4. CASE OfAWebhook
    BY <1>4, SameWebhook DEF OfAWebhook, AtPayments
<1>5. CASE AtRazorpay
    BY <1>5, SameRazorpay DEF AtRazorpay, AtPayments
<1> QED
    BY <1>1, <1>2, <1>3, <1>4, <1>5 DEF Next, Placed

\* What a payment request is in the middle of.
LEMMA PayingFact ==
    ASSUME P!IInv, OnlineOnly, NEW w \in Workers, pay[w].step # "idle"
    PROVE  /\ pay[w].order \in Orders
           /\ payments[pay[w].order].method = "RAZORPAY"
           /\ pay[w].step = "settle" => pay[w].outcome \in {"PAID", "FAILED"}
BY DEF P!IInv, P!RequestsValid, P!RequestValid, P!Workers, Workers, OnlineOnly

\* The payments move the status of an online payment, and nothing else that
\* the desk sees.
LEMMA OnlineEffect ==
    ASSUME P!IInv, OnlineOnly, AtPayments
    PROVE  /\ UNCHANGED <<orders, history, desk>>
           /\ \/ UNCHANGED payments
              \/ \E o \in Orders, s \in {"PENDING", "PAID", "FAILED"} :
                    /\ payments[o].method = "RAZORPAY"
                    /\ payments' = [payments EXCEPT ![o].status = s]
<1>1. payments \in [Orders -> PaymentRow]
    BY DEF P!IInv, P!TypeOK, P!DataTypeOK, P!PaymentRow, PaymentRow, P!PaymentMethod,
           PaymentMethod, P!PaymentStatus, PaymentStatus
<1>2. ASSUME NEW w \in Workers, NEW new \in {"PENDING", "PAID", "FAILED"},
             pay[w].step # "idle",
             payments' = [payments EXCEPT ![pay[w].order].status =
                             P!NetWrite(@, pay[w].seen, new)]
      PROVE  \/ UNCHANGED payments
             \/ \E o \in Orders, s \in {"PENDING", "PAID", "FAILED"} :
                   /\ payments[o].method = "RAZORPAY"
                   /\ payments' = [payments EXCEPT ![o].status = s]
    <2> DEFINE o == pay[w].order
    <2>1. o \in Orders /\ payments[o].method = "RAZORPAY"
        BY <1>2, PayingFact
    <2>2. CASE new = pay[w].seen
        <3>1. payments[o] \in PaymentRow
            BY <1>1, <2>1
        <3>2. [payments[o] EXCEPT !.status = payments[o].status] = payments[o]
            BY <3>1 DEF PaymentRow
        <3>3. payments' = [payments EXCEPT ![o].status = payments[o].status]
            BY <1>2, <2>2 DEF P!NetWrite
        <3> QED
            BY <1>1, <3>2, <3>3
    <2>3. CASE new # pay[w].seen
        <3>1. payments' = [payments EXCEPT ![o].status = new]
            BY <1>2, <2>3 DEF P!NetWrite
        <3> QED
            BY <2>1, <3>1
    <2> QED
        BY <2>2, <2>3
<1>3. ASSUME NEW t \in Threads, P!StoreCheckout(t)
      PROVE  /\ UNCHANGED <<orders, history>>
             /\ \/ UNCHANGED payments
                \/ \E o \in Orders, s \in {"PENDING", "PAID", "FAILED"} :
                      /\ payments[o].method = "RAZORPAY"
                      /\ payments' = [payments EXCEPT ![o].status = s]
    BY <1>2, <1>3 DEF P!StoreCheckout, Workers
<1>4. ASSUME NEW w \in Workers, P!Settle(w)
      PROVE  /\ UNCHANGED <<orders, history>>
             /\ \/ UNCHANGED payments
                \/ \E o \in Orders, s \in {"PENDING", "PAID", "FAILED"} :
                      /\ payments[o].method = "RAZORPAY"
                      /\ payments' = [payments EXCEPT ![o].status = s]
    <2>1. pay[w].step = "settle" /\ pay[w].outcome \in {"PAID", "FAILED"}
        BY <1>4, PayingFact DEF P!Settle
    <2>2. payments' = [payments EXCEPT ![pay[w].order].status =
                          P!NetWrite(@, pay[w].seen, pay[w].outcome)]
        BY <1>4 DEF P!Settle, P!UpdatePayment
    <2>3. UNCHANGED <<orders, history>>
        BY <1>4 DEF P!Settle
    <2> QED
        BY <1>2, <2>1, <2>2, <2>3
<1>5. ASSUME NEW t \in Threads, P!Serve(t), ~P!StoreCheckout(t)
      PROVE  UNCHANGED dataVars
    BY <1>5 DEF P!Serve, P!LoadForCheckout, P!CreateRzpOrder, P!LoadForVerify,
                P!FetchPayment, P!dataVars, dataVars
<1>6. ASSUME NEW w \in Workers, P!AbortPay(w) PROVE UNCHANGED dataVars
    BY <1>6 DEF P!AbortPay, P!dataVars, dataVars
<1>7. ASSUME P!Webhook \/ P!Razorpay PROVE UNCHANGED dataVars
    BY <1>7 DEF P!Webhook, P!LoadForWebhook, P!DropWebhook, P!Razorpay, P!StartAttempt,
                P!AuthorizeAttempt, P!FailAttempt, P!CaptureAttempt, P!AttemptMoves,
                P!dataVars, dataVars
<1> QED
    BY <1>3, <1>4, <1>5, <1>6, <1>7 DEF AtPayments, P!Work, dataVars

\* So every step of the whole is one that OrderDesk allows.
LEMMA AsDesk ==
    ASSUME P!IInv, OnlineOnly, [Next]_laundryVars
    PROVE  [D!Next]_D!deskVars
<1>1. CASE AtDesk
    BY <1>1 DEF AtDesk, D!Next, D!DeskStepOfUser
<1>2. CASE AtPayments
    BY <1>2, OnlineEffect DEF D!Next, D!OnlineSettlement, D!deskVars
<1>3. CASE Placed
    BY <1>3 DEF Placed, PlaceOrder, CreateOrder, OrderExists, NewOrder, NoOrder, FirstHistory,
                PaymentMethod, D!Next, D!DeskStepOfUser, D!PlaceOrder, D!CreateOrder,
                D!OrderExists, D!NewOrder, D!NoOrder, D!FirstHistory, D!PaymentMethod
<1>4. CASE UNCHANGED laundryVars
    BY <1>4 DEF laundryVars, dataVars, D!deskVars
<1> QED
    BY <1>1, <1>2, <1>3, <1>4, Steps
-----------------------------------------------------------------------------
(***************************************************************************)
(* What a step keeps.                                                      *)
(***************************************************************************)

\* An order that exists keeps its history and how it is paid.
LEMMA Kept ==
    ASSUME IInv, [Next]_laundryVars, NEW o \in Orders, OrderExists(o)
    PROVE  /\ payments'[o].method = payments[o].method
           /\ payments'[o].amount = payments[o].amount
           /\ \A s : D!HasBeen(o, s) => D!HasBeen(o, s)'
<1>1. D!Stable(o)
    BY AsDesk, D!Stability, DataAssumption, LaundryAssumption
       DEF IInv, D!IInv, OrderExists, D!OrderExists, D!UserRole, UserRole
<1> QED
    BY <1>1 DEF D!Stable, D!HasBeen

\* What is so at Razorpay stays so, also while the desk is at work.
LEMMA CapturedKept ==
    ASSUME IInv, [Next]_laundryVars, NEW o \in Orders, P!CapturedFor(o)
    PROVE  P!CapturedFor(o)'
<1>1. CASE UNCHANGED onlineVars
    BY <1>1 DEF onlineVars, P!CapturedFor, P!AttemptsFor
<1>2. CASE AtPayments
    <2>1. P!Next
        BY <1>2 DEF AtPayments, P!Next, P!Workers, Workers
    <2>2. P!AttemptsFor(o) \subseteq P!AttemptsFor(o)'
        BY <2>1, P!AttemptsForGrow, DataAssumption, LaundryAssumption
           DEF IInv, P!IInv, P!UserRole, UserRole
    <2>3. \A a \in Attempts : attempt[a].state = "captured" => attempt'[a].state = "captured"
        BY <2>1, P!Monotone, DataAssumption, LaundryAssumption
           DEF IInv, P!IInv, P!UserRole, UserRole
    <2> QED
        BY <2>2, <2>3 DEF P!CapturedFor, P!AttemptsFor
<1> QED
    BY <1>1, <1>2, Steps DEF AtDesk, Placed, PlaceOrder, laundryVars, onlineVars

\* The desk marks cash payments only.
LEMMA DeskPayments ==
    ASSUME D!IInv, AtDesk, NEW o \in Orders, payments[o].method # "COD"
    PROVE  payments'[o] = payments[o]
<1>1. ASSUME NEW t \in Threads, D!MarkPaidIfPending(t)
      PROVE  payments'[o] = payments[o]
    BY <1>1 DEF D!MarkPaidIfPending, D!IInv, D!RequestsValid, D!RequestValid, D!TypeOK,
                D!DataTypeOK
<1> QED
    BY <1>1 DEF AtDesk, D!ThreadStep, D!LoadOrderForUpdate, D!CheckPaymentGate, D!CommitStatus,
                D!LoadOrderForCollect, D!LoadPaymentForCollect, D!ReportCollected, D!AbortDesk,
                D!ClaimPickup, D!ClaimDelivery, D!dataVars

LEMMA MethodsKept ==
    ASSUME IInv, AtDesk \/ AtPayments, NEW o \in Orders
    PROVE  payments'[o].method = payments[o].method
<1>1. payments \in [Orders -> PaymentRow]
    BY DEF IInv, P!IInv, P!TypeOK, P!DataTypeOK, P!PaymentRow, PaymentRow, P!PaymentMethod,
           PaymentMethod, P!PaymentStatus, PaymentStatus
<1>2. CASE AtDesk
    <2>1. ASSUME NEW t \in Threads, D!MarkPaidIfPending(t)
          PROVE  payments'[o].method = payments[o].method
        BY <1>1, <2>1 DEF D!MarkPaidIfPending, PaymentRow
    <2> QED
        BY <1>2, <2>1 DEF AtDesk, D!ThreadStep, D!LoadOrderForUpdate, D!CheckPaymentGate,
                          D!CommitStatus,
                D!LoadOrderForCollect, D!LoadPaymentForCollect, D!ReportCollected, D!AbortDesk,
                D!ClaimPickup, D!ClaimDelivery, D!dataVars
<1>3. CASE AtPayments
    BY <1>1, <1>3, OnlineEffect DEF IInv, PaymentRow
<1> QED
    BY <1>2, <1>3

\* Orders come into being when they are placed.
LEMMA NoNewOrders ==
    ASSUME IInv, AtDesk \/ AtPayments, NEW o \in Orders, ~OrderExists(o)
    PROVE  ~OrderExists(o)'
<1>1. CASE AtDesk
    <2>1. ASSUME NEW t \in Threads, D!CommitStatus(t)
          PROVE  ~OrderExists(o)'
        <3>1. desk[t].order # o
            BY <2>1 DEF IInv, D!IInv, D!CommitStatus, D!RequestsValid, D!RequestValid,
                        D!OrderExists, OrderExists
        <3> QED
            BY <2>1, <3>1 DEF D!CommitStatus, OrderExists, IInv, D!IInv, D!TypeOK, D!DataTypeOK
    <2>2. ASSUME NEW u \in Users, NEW p \in Orders, D!ClaimPickup(u, p) \/ D!ClaimDelivery(u, p)
          PROVE  ~OrderExists(o)'
        BY <2>2 DEF D!ClaimPickup, D!ClaimDelivery, OrderExists, IInv, D!IInv, D!TypeOK,
                    D!DataTypeOK,
                    D!OrderRow
    <2> QED
        BY <1>1, <2>1, <2>2 DEF AtDesk, D!ThreadStep, D!LoadOrderForUpdate, D!CheckPaymentGate,
                D!LoadOrderForCollect, D!LoadPaymentForCollect, D!ReportCollected, D!AbortDesk,
                D!MarkPaidIfPending, D!dataVars, OrderExists
<1>2. CASE AtPayments
    BY <1>2, OnlineEffect DEF IInv, OrderExists
<1> QED
    BY <1>1, <1>2

\* An order that does not exist has no payment.
LEMMA NoneFact ==
    ASSUME IInv, NEW o \in Orders, ~OrderExists(o)
    PROVE  payments[o].method = "NONE" /\ payments[o].amount = 0 /\ history[o] = <<>>
BY DEF IInv, D!IInv, D!StatusIsLatest, D!OrderExists, OrderExists, D!NoPayment

LEMMA PlacedRows ==
    ASSUME IInv, NEW o \in Orders, NEW u \in Users, NEW m \in PaymentMethod, NEW n \in Amounts,
           PlaceOrder(o, u, m, n), NEW p \in Orders
    PROVE  /\ p # o => /\ payments'[p] = payments[p]
                       /\ orders'[p] = orders[p]
                       /\ history'[p] = history[p]
           /\ payments'[o].method = m /\ payments'[o].status = "PENDING"
           /\ ~OrderExists(o)
BY DEF PlaceOrder, CreateOrder, IInv, D!IInv, D!TypeOK, D!DataTypeOK
-----------------------------------------------------------------------------
(***************************************************************************)
(* The invariants, one by one.                                             *)
(***************************************************************************)
LEMMA OnlineInvStep ==
    ASSUME IInv, D!IInv', [Next]_laundryVars
    PROVE  P!IInv'
<1>1. CASE AtPayments
    BY <1>1, OnlineKeeps DEF AtPayments, P!Next, P!Workers, Workers, IInv
<1>2. CASE Placed
    <2>1. P!Next
        BY <1>2 DEF Placed, PlaceOrder, CreateOrder, OrderExists, NewOrder, NoOrder,
                    FirstHistory,
                    PaymentMethod, onlineVars, P!Next, P!PlaceOrder, P!CreateOrder,
                    P!OrderExists, P!NewOrder, P!NoOrder, P!FirstHistory, P!PaymentMethod,
                    P!onlineVars, P!requestVars, P!razorpayVars
    <2> QED
        BY <2>1, OnlineKeeps DEF IInv
<1>3. CASE UNCHANGED laundryVars
    BY <1>3, OnlineKeeps DEF IInv, laundryVars, dataVars, onlineVars, P!paymentVars,
       P!dataVars, P!onlineVars, P!requestVars, P!razorpayVars
<1>4. CASE AtDesk
    <2>1. UNCHANGED onlineVars
        BY <1>4 DEF AtDesk
    <2>2. P!DataTypeOK'
        BY DEF D!IInv, D!TypeOK, D!DataTypeOK, P!DataTypeOK, D!OrderRow, P!OrderRow,
               D!PaymentRow, P!PaymentRow, D!HistoryRow, P!HistoryRow, D!OrderStatus,
               P!OrderStatus, D!PaymentMethod, P!PaymentMethod, D!PaymentStatus,
               P!PaymentStatus
    <2>3. P!TypeOK'
        BY <2>1, <2>2 DEF IInv, P!IInv, P!TypeOK, P!OnlineTypeOK, onlineVars
    <2>4. P!AttemptsValid' /\ P!RequestsValid' /\ P!ReceiptsMatch'
        BY <2>1 DEF IInv, P!IInv, P!AttemptsValid, P!RequestsValid, P!RequestValid,
                    P!ReceiptsMatch, P!AttemptsFor, onlineVars
    <2>5. P!SettlementBacked'
        <3> SUFFICES ASSUME NEW o \in Orders, payments'[o].method = "RAZORPAY"
                     PROVE  (/\ payments[o].status = "PAID" => P!CapturedFor(o)
                             /\ payments[o].status = "FAILED" =>
                                   \E a \in P!AttemptsFor(o) : attempt[a].state = "failed")'
            BY DEF P!SettlementBacked
        <3>1. payments'[o] = payments[o]
            BY <1>4, MethodsKept, DeskPayments DEF IInv
        <3> QED
            BY <2>1, <3>1 DEF IInv, P!IInv, P!SettlementBacked, P!CapturedFor, P!AttemptsFor,
                              onlineVars
    <2>6. P!CheckoutsFresh' /\ P!SeenUnpaid' /\ P!AckedFinal'
        BY <2>1 DEF IInv, P!IInv, P!CheckoutsFresh, P!SeenUnpaid, P!AckedFinal, onlineVars
    <2>7. P!NeverRefunded'
        <3> SUFFICES ASSUME NEW o \in Orders PROVE payments'[o].status # "REFUNDED"
            BY DEF P!NeverRefunded
        <3>1. payments[o].status # "REFUNDED" /\ payments \in [Orders -> P!PaymentRow]
            BY DEF IInv, P!IInv, P!NeverRefunded, P!TypeOK, P!DataTypeOK
        <3>2. ASSUME NEW t \in Threads, D!MarkPaidIfPending(t)
              PROVE  payments'[o].status # "REFUNDED"
            BY <3>1, <3>2 DEF D!MarkPaidIfPending, P!PaymentRow
        <3> QED
            BY <1>4, <3>1, <3>2
               DEF AtDesk, D!ThreadStep, D!LoadOrderForUpdate, D!CheckPaymentGate,
                   D!CommitStatus, D!LoadOrderForCollect, D!LoadPaymentForCollect,
                   D!ReportCollected, D!AbortDesk, D!ClaimPickup, D!ClaimDelivery, D!dataVars
    <2> QED
        BY <2>3, <2>4, <2>5, <2>6, <2>7 DEF P!IInv
<1> QED
    BY <1>1, <1>2, <1>3, <1>4, Steps

\* The payments keep what is true of them whatever the desk does.
LEMMA OnlineInvStepAtPayments ==
    ASSUME P!IInv, AtPayments
    PROVE  P!IInv'
BY OnlineKeeps DEF AtPayments, P!Next, P!Workers, Workers

\* A request is for an online payment from the step that loads it on.
LEMMA RequestsOnline ==
    ASSUME P!IInv, OnlineOnly, AtPayments
    PROVE  \A v \in Workers :
              pay'[v].step # "idle" => payments[pay'[v].order].method = "RAZORPAY"
<1> DEFINE Good == \A v \in Workers :
                      pay'[v].step # "idle" => payments[pay'[v].order].method = "RAZORPAY"
<1>pay. pay \in [Workers -> P!PayRequest] /\ P!TypeOK
    BY DEF P!IInv, P!TypeOK, P!OnlineTypeOK, P!Workers, Workers
<1>old. \A v \in Workers : pay[v].step # "idle" => payments[pay[v].order].method = "RAZORPAY"
    BY DEF OnlineOnly
<1>free. P!Free.step = "idle"
    BY DEF P!Free
<1>1. ASSUME UNCHANGED pay PROVE Good
    BY <1>1, <1>old
<1>2. ASSUME NEW w \in Workers, P!Respond(w) PROVE Good
    BY <1>2, <1>pay, <1>old, <1>free DEF P!Respond
<1>3. ASSUME NEW w \in Workers, NEW o \in Orders, NEW r, P!Load(w, o, r), r \in P!PayRequest,
             payments[o].method = "RAZORPAY"
      PROVE  Good
    <2>1. pay'[w].order = o
        BY <1>3, <1>pay DEF P!Load, P!PayRequest
    <2>2. \A v \in Workers \ {w} : pay'[v] = pay[v]
        BY <1>3, <1>pay DEF P!Load
    <2> QED
        BY <1>3, <1>old, <2>1, <2>2
<1>4. ASSUME NEW w \in Workers, pay[w].step # "idle", NEW r \in P!PayRequest,
             r.order = pay[w].order, pay' = [pay EXCEPT ![w] = r]
      PROVE  Good
    BY <1>4, <1>pay, <1>old
<1>5. ASSUME NEW t \in Threads, NEW r \in RzpOrders, P!CreateRzpOrder(t, r) PROVE Good
    <2> DEFINE q == [pay[t] EXCEPT !.step = "store", !.rzp = r]
    <2>1. pay[t] \in P!PayRequest /\ pay[t].step # "idle"
        BY <1>5, <1>pay DEF P!CreateRzpOrder, Workers
    <2>2. q \in P!PayRequest /\ q.order = pay[t].order
        BY <2>1 DEF P!PayRequest, P!PayStep
    <2>3. pay' = [pay EXCEPT ![t] = q]
        BY <1>5, <1>pay DEF P!CreateRzpOrder
    <2> HIDE DEF q
    <2> QED
        BY <1>4, <2>1, <2>2, <2>3 DEF Workers
<1>6. ASSUME NEW t \in Threads, P!FetchPayment(t) PROVE Good
    <2> DEFINE outcome == P!FetchOutcome(attempt[pay[t].attempt].state)
               q == [pay[t] EXCEPT !.step = "settle", !.outcome = outcome]
    <2>1. pay[t] \in P!PayRequest /\ pay[t].step # "idle" /\ t \in Workers
        BY <1>6, <1>pay DEF P!FetchPayment, Workers
    <2>2. outcome \in {"PAID", "FAILED", "NONE"}
        BY DEF P!FetchOutcome
    <2>3. CASE outcome = "NONE"
        BY <1>2, <1>6, <2>1, <2>3 DEF P!FetchPayment
    <2>4. CASE outcome # "NONE"
        <3>1. pay' = [pay EXCEPT ![t] = q]
            BY <1>6, <1>pay, <2>4 DEF P!FetchPayment
        <3> HIDE DEF outcome
        <3>2. q \in P!PayRequest /\ q.order = pay[t].order
            BY <2>1, <2>2 DEF P!PayRequest, P!PayStep, P!PaymentStatus
        <3> HIDE DEF q
        <3> QED
            BY <1>4, <2>1, <3>1, <3>2
    <2> QED
        BY <2>3, <2>4
<1>7. ASSUME NEW t \in Threads, NEW o \in Orders, P!LoadForCheckout(t, o) PROVE Good
    <2>1. [P!Free EXCEPT !.step = "create"] \in P!PayRequest
        BY DEF P!Free, P!PayRequest, P!PayStep
    <2> QED
        BY <1>3, <1>7, <2>1 DEF P!LoadForCheckout, P!Payable, Workers
<1>8. ASSUME NEW t \in Threads, NEW o \in Orders, NEW a \in Attempts, P!LoadForVerify(t, o, a)
      PROVE  Good
    <2>1. [P!Free EXCEPT !.step = "fetch", !.attempt = a] \in P!PayRequest
        BY DEF P!Free, P!PayRequest, P!PayStep
    <2> QED
        BY <1>3, <1>8, <2>1 DEF P!LoadForVerify, P!Payable, Workers
\* The payment has a Razorpay order, so it is an online one.
<1>9. ASSUME NEW a \in Attempts, P!LoadForWebhook(a) PROVE Good
    <2> DEFINE outcome == P!WebhookOutcome(attempt[a].state)
               q == [P!Free EXCEPT !.step = "settle", !.webhook = TRUE, !.attempt = a,
                                   !.outcome = outcome]
    <2>1. PICK o \in Orders : P!Load(EventLoop, o, q) /\ rzp[o].order = attempt[a].rzp
        BY <1>9 DEF P!LoadForWebhook, P!PaymentsOf
    <2>2. attempt[a].rzp # Null
        BY <1>9 DEF P!LoadForWebhook, P!IInv, P!AttemptsValid
    <2>3. payments[o].method = "RAZORPAY"
        BY <2>1, <2>2 DEF OnlineOnly
    <2>4. outcome \in {"PAID", "FAILED"}
        BY DEF P!WebhookOutcome
    <2> HIDE DEF outcome
    <2>5. q \in P!PayRequest
        BY <2>4 DEF P!Free, P!PayRequest, P!PayStep, P!PaymentStatus
    <2> HIDE DEF q
    <2> QED
        BY <1>3, <2>1, <2>3, <2>5 DEF Workers
<1>10. ASSUME NEW t \in Threads, P!Serve(t) PROVE Good
    <2>1. P!StoreCheckout(t) => P!Respond(t) /\ t \in Workers
        BY DEF P!StoreCheckout, Workers
    <2> QED
        BY <1>2, <1>5, <1>6, <1>7, <1>8, <1>10, <2>1 DEF P!Serve
<1>11. ASSUME NEW w \in Workers, P!Work(w) PROVE Good
    BY <1>2, <1>11 DEF P!Work, P!Settle, P!AbortPay
<1>12. ASSUME P!Webhook PROVE Good
    <2>1. \A a \in Attempts : P!DropWebhook(a) => UNCHANGED pay
        BY DEF P!DropWebhook
    <2> QED
        BY <1>1, <1>9, <1>12, <2>1 DEF P!Webhook
<1>13. ASSUME P!Razorpay PROVE UNCHANGED pay
    BY <1>13 DEF P!Razorpay, P!StartAttempt, P!AuthorizeAttempt, P!FailAttempt,
                 P!CaptureAttempt, P!AttemptMoves, P!requestVars
<1> QED
    BY <1>1, <1>10, <1>11, <1>12, <1>13 DEF AtPayments

LEMMA OnlineOnlyStep ==
    ASSUME IInv, [Next]_laundryVars
    PROVE  OnlineOnly'
<1> USE DEF OnlineOnly
<1>rzp. rzp \in [Orders -> [order : RzpOrders \cup {Null}, payment : Attempts \cup {Null}]]
    BY DEF IInv, P!IInv, P!TypeOK, P!OnlineTypeOK
<1>pay. pay \in [Workers -> P!PayRequest]
    BY DEF IInv, P!IInv, P!TypeOK, P!OnlineTypeOK, P!Workers, Workers
<1>busy. \A w \in Workers : pay[w].step # "idle" => pay[w].order \in Orders
    BY DEF IInv, P!IInv, P!RequestsValid, P!RequestValid, P!Workers, Workers
<1>1. CASE UNCHANGED laundryVars
    BY <1>1 DEF IInv, laundryVars, dataVars, onlineVars
<1>2. CASE AtDesk
    BY <1>2, <1>busy, MethodsKept DEF IInv, AtDesk, onlineVars
<1>3. CASE Placed
    <2>1. PICK o \in Orders, u \in Users, m \in PaymentMethod, n \in Amounts : PlaceOrder(o, u, m, n)
        BY <1>3 DEF Placed
    <2>2. payments[o].method = "NONE"
        BY <2>1, PlacedRows, NoneFact
    <2>3. UNCHANGED <<rzp, pay>>
        BY <2>1 DEF PlaceOrder, onlineVars
    <2>4. \A p \in Orders : p # o => payments'[p].method = payments[p].method
        BY <2>1, PlacedRows
    <2> QED
        BY <2>2, <2>3, <2>4, <1>busy DEF IInv
<1>4. CASE AtPayments
    <2>1. \A o \in Orders : payments'[o].method = payments[o].method
        BY <1>4, MethodsKept
    <2>2. ASSUME NEW o \in Orders, rzp'[o].order # rzp[o].order
          PROVE  payments[o].method = "RAZORPAY"
        <3>1. PICK w \in Workers : /\ pay[w].step # "idle" /\ pay[w].order = o
                                   /\ P!StoreCheckout(w) \/ P!Settle(w)
            BY <1>4, <1>rzp, <1>busy, <2>2
               DEF AtPayments, P!Serve, P!Work, P!Webhook, P!Razorpay, P!LoadForCheckout,
                   P!CreateRzpOrder,
                   P!StoreCheckout, P!LoadForVerify, P!FetchPayment, P!Settle,
                   P!UpdatePayment, P!AbortPay,
                   P!LoadForWebhook, P!DropWebhook, P!StartAttempt, P!AuthorizeAttempt,
                   P!FailAttempt, P!CaptureAttempt, P!AttemptMoves, P!requestVars, Workers
        <3> QED
            BY <3>1 DEF IInv
    <2>3. \A v \in Workers : pay'[v].step # "idle" => payments[pay'[v].order].method = "RAZORPAY"
        BY <1>4, RequestsOnline DEF IInv
    <2>4. \A v \in Workers : pay'[v].step # "idle" => pay'[v].order \in Orders
        <3>1. P!IInv'
            BY OnlineInvStepAtPayments, <1>4 DEF IInv
        <3> QED
            BY <3>1 DEF P!IInv, P!RequestsValid, P!RequestValid, P!Workers, Workers
    <2> QED
        BY <2>1, <2>2, <2>3, <2>4 DEF IInv
<1> QED
    BY <1>1, <1>2, <1>3, <1>4, Steps

LEMMA LegacyStep ==
    ASSUME IInv, [Next]_laundryVars
    PROVE  LegacyOnly'
<1>1. CASE AtDesk \/ AtPayments
    BY <1>1, MethodsKept, NoNewOrders DEF IInv, LegacyOnly
<1>2. CASE Placed
    <2>1. PICK o \in Orders, u \in Users, m \in PaymentMethod, n \in Amounts : PlaceOrder(o, u, m, n)
        BY <1>2 DEF Placed
    <2> QED
        BY <2>1, PlacedRows DEF IInv, LegacyOnly, OrderExists, PaymentMethod
<1>3. CASE UNCHANGED laundryVars
    BY <1>3 DEF IInv, LegacyOnly, OrderExists, laundryVars, dataVars
<1> QED
    BY <1>1, <1>2, <1>3, Steps

\* The rows of the audit trail after a step: those before it, the first of a
\* new order, and that of a status change.
LEMMA Rows ==
    ASSUME IInv, [Next]_laundryVars, NEW o \in Orders, NEW i \in DOMAIN history'[o]
    PROVE  \/ OrderExists(o) /\ i \in DOMAIN history[o] /\ history'[o][i] = history[o][i]
           \/ history'[o][i].status = "PENDING_PICKUP"
           \/ \E t \in Threads : /\ D!CommitStatus(t)
                                 /\ o = desk[t].order
                                 /\ history'[o][i].status = desk[t].new
                                 /\ D!Transition(desk[t]) \in D!ValidOrderTransitions
                                 /\ OrderExists(o)
                                 /\ D!HasBeen(o, desk[t].seen)
<1>1. \/ OrderExists(o) /\ i \in DOMAIN history[o] /\ history'[o][i] = history[o][i]
      \/ \E u \in Users : history'[o][i] = [status |-> "PENDING_PICKUP", by |-> u]
      \/ \E t \in Threads : /\ D!CommitStatus(t)
                            /\ o = desk[t].order
                            /\ history'[o][i] = D!HistoryEntry(desk[t])
    BY AsDesk, D!RowsOfStep, DataAssumption, LaundryAssumption
       DEF IInv, D!IInv, D!OrderExists, OrderExists, D!UserRole, UserRole
<1>2. ASSUME NEW t \in Threads, D!CommitStatus(t)
      PROVE  /\ D!Transition(desk[t]) \in D!ValidOrderTransitions
             /\ OrderExists(desk[t].order)
             /\ D!HasBeen(desk[t].order, desk[t].seen)
    BY <1>2 DEF D!CommitStatus, IInv, D!IInv, D!RequestsValid, D!RequestValid, D!OrderExists,
                OrderExists
<1>3. \A t \in Threads : D!HistoryEntry(desk[t]).status = desk[t].new
    BY DEF D!HistoryEntry
<1>4. CASE \E u \in Users : history'[o][i] = [status |-> "PENDING_PICKUP", by |-> u]
    BY <1>4
<1>5. CASE \E t \in Threads : /\ D!CommitStatus(t)
                             /\ o = desk[t].order
                             /\ history'[o][i] = D!HistoryEntry(desk[t])
    BY <1>2, <1>3, <1>5
<1> QED
    BY <1>1, <1>4, <1>5

LEMMA WaysIn ==
    ASSUME NEW from, NEW to, <<from, to>> \in D!ValidOrderTransitions, to \in InHand
    PROVE  (to = "PICKED_UP" /\ <<from, to>> = D!Pickup) \/ from \in InHand
BY DEF D!ValidOrderTransitions, D!Pickup, D!Delivery, InHand, OrderStatus

LEMMA TakenInStep ==
    ASSUME IInv, [Next]_laundryVars
    PROVE  TakenIn'
<1> SUFFICES ASSUME NEW o \in Orders, NEW i \in DOMAIN history'[o],
                    history'[o][i].status \in InHand
             PROVE  D!HasBeen(o, "PICKED_UP")'
    BY DEF TakenIn
<1>1. CASE OrderExists(o) /\ i \in DOMAIN history[o] /\ history'[o][i] = history[o][i]
    BY <1>1, Kept DEF IInv, TakenIn
<1>2. ASSUME NEW t \in Threads, o = desk[t].order, history'[o][i].status = desk[t].new,
             D!Transition(desk[t]) \in D!ValidOrderTransitions, OrderExists(o),
             D!HasBeen(o, desk[t].seen)
      PROVE  D!HasBeen(o, "PICKED_UP")'
    <2>1. desk[t].new = "PICKED_UP" \/ desk[t].seen \in InHand
        BY <1>2, WaysIn DEF D!Transition
    <2>2. CASE desk[t].new = "PICKED_UP"
        BY <1>2, <2>2 DEF D!HasBeen
    <2>3. CASE desk[t].seen \in InHand
        <3>1. D!HasBeen(o, "PICKED_UP")
            BY <1>2, <2>3 DEF IInv, TakenIn, D!HasBeen
        <3> QED
            BY <1>2, <3>1, Kept
    <2> QED
        BY <2>1, <2>2, <2>3
<1>3. history'[o][i].status # "PENDING_PICKUP"
    BY DEF InHand
<1> QED
    BY <1>1, <1>2, <1>3, Rows

LEMMA PickedUpStep ==
    ASSUME IInv, [Next]_laundryVars
    PROVE  PickedUpBacked'
<1> SUFFICES ASSUME NEW o \in Orders, NEW i \in DOMAIN history'[o],
                    history'[o][i].status = "PICKED_UP", payments'[o].method = "RAZORPAY"
             PROVE  P!CapturedFor(o)'
    BY DEF PickedUpBacked, D!HasBeen
<1>1. CASE OrderExists(o) /\ i \in DOMAIN history[o] /\ history'[o][i] = history[o][i]
    BY <1>1, Kept, CapturedKept DEF IInv, PickedUpBacked, D!HasBeen
<1>2. ASSUME NEW t \in Threads, D!CommitStatus(t), o = desk[t].order,
             desk[t].new = "PICKED_UP", OrderExists(o),
             D!Transition(desk[t]) \in D!ValidOrderTransitions
      PROVE  P!CapturedFor(o)'
    <2>1. D!Transition(desk[t]) = D!Pickup
        BY <1>2 DEF D!Transition, D!ValidOrderTransitions, D!Pickup, D!Delivery
    <2>2. P!CapturedFor(o)
        BY <1>2, <2>1, Kept DEF IInv, PickupsBacked, D!CommitStatus
    <2> QED
        BY <2>2, CapturedKept
<1> QED
    BY <1>1, <1>2, Rows

\* How a request gets to the steps at which something that it has read is
\* still to be used.
LEMMA DeskMoves ==
    ASSUME IInv, [Next]_laundryVars, NEW t \in Threads
    PROVE  \/ desk'[t] = desk[t]
           \/ desk'[t].step \in {"idle", "gate", "report"}
           \/ /\ D!CheckPaymentGate(t)
              /\ D!GateOpen(D!Transition(desk[t]), payments[desk[t].order])
              /\ desk'[t] = [desk[t] EXCEPT !.step = "commit"]
           \/ \E u \in Users, o \in Orders :
                 /\ D!LoadOrderForCollect(t, u, o)
                 /\ desk'[t].step = "load_payment" /\ desk'[t].order = o
                 /\ desk'[t].seen = orders[o].status
           \/ /\ D!LoadPaymentForCollect(t)
              /\ D!Collectable(desk[t], payments[desk[t].order])
              /\ payments[desk[t].order].status = "PENDING"
              /\ desk'[t] = [desk[t] EXCEPT !.step = "mark"]
<1>desk. desk \in [Threads -> D!DeskRequest]
    BY DEF IInv, D!IInv, D!TypeOK, D!DeskTypeOK
<1>1. CASE UNCHANGED desk
    BY <1>1
<1>2. ASSUME NEW w \in Threads, D!ThreadStep(w), w # t
      PROVE  desk'[t] = desk[t]
    BY <1>desk, <1>2 DEF D!ThreadStep, D!LoadOrderForUpdate, D!CheckPaymentGate,
                         D!CommitStatus, D!LoadOrderForCollect, D!LoadPaymentForCollect,
                         D!MarkPaidIfPending, D!ReportCollected, D!AbortDesk, D!Continue,
                         D!Finish
<1>3. ASSUME D!Finish(t) PROVE desk'[t].step = "idle"
    BY <1>desk, <1>3 DEF D!Finish, D!Idle
<1>4. ASSUME NEW step, D!Continue(t, step)
      PROVE  desk'[t] = [desk[t] EXCEPT !.step = step] /\ desk'[t].step = step
    <2>1. desk'[t] = [desk[t] EXCEPT !.step = step] /\ desk[t] \in D!DeskRequest
        BY <1>desk, <1>4 DEF D!Continue
    <2> QED
        BY <2>1 DEF D!DeskRequest
<1>5. ASSUME NEW u, NEW o, NEW new, D!LoadOrderForUpdate(t, u, o, new)
      PROVE  desk'[t].step = "gate"
    BY <1>desk, <1>5 DEF D!LoadOrderForUpdate
<1>6. ASSUME NEW u, NEW o, D!LoadOrderForCollect(t, u, o)
      PROVE  /\ desk'[t].step = "load_payment" /\ desk'[t].order = o
             /\ desk'[t].seen = orders[o].status
    BY <1>desk, <1>6 DEF D!LoadOrderForCollect
<1>7. CASE D!CheckPaymentGate(t)
    BY <1>3, <1>4, <1>7 DEF D!CheckPaymentGate
<1>8. CASE D!LoadPaymentForCollect(t)
    BY <1>3, <1>4, <1>8 DEF D!LoadPaymentForCollect
<1>9. CASE D!MarkPaidIfPending(t)
    BY <1>4, <1>9 DEF D!MarkPaidIfPending
<1>10. CASE D!CommitStatus(t) \/ D!ReportCollected(t) \/ D!AbortDesk(t)
    BY <1>3, <1>10 DEF D!CommitStatus, D!ReportCollected, D!AbortDesk
<1>11. CASE D!ThreadStep(t)
    BY <1>5, <1>6, <1>7, <1>8, <1>9, <1>10, <1>11 DEF D!ThreadStep
<1>12. CASE AtDesk
    BY <1>1, <1>2, <1>11, <1>12 DEF AtDesk, D!ClaimPickup, D!ClaimDelivery
<1> QED
    BY <1>1, <1>12, Steps DEF AtPayments, Placed, PlaceOrder, laundryVars

LEMMA PickupsStep ==
    ASSUME IInv, [Next]_laundryVars
    PROVE  PickupsBacked'
<1> SUFFICES ASSUME NEW t \in Threads, desk'[t].step = "commit",
                    D!Transition(desk'[t]) = D!Pickup,
                    payments'[desk'[t].order].method = "RAZORPAY"
             PROVE  P!CapturedFor(desk[t].order)'
    BY DEF PickupsBacked
<1> DEFINE o == desk[t].order
<1>1. \/ desk'[t] = desk[t]
      \/ /\ D!CheckPaymentGate(t) /\ desk'[t] = [desk[t] EXCEPT !.step = "commit"]
         /\ D!GateOpen(D!Transition(desk[t]), payments[o])
    <2>1. [desk[t] EXCEPT !.step = "mark"].step = "mark"
        BY DEF IInv, D!IInv, D!TypeOK, D!DeskTypeOK, D!DeskRequest
    <2> QED
        BY <2>1, DeskMoves
<1>2. /\ desk'[t].order = o /\ desk[t].step \in {"gate", "commit"}
      /\ D!Transition(desk[t]) = D!Pickup
    BY <1>1 DEF D!Transition, D!CheckPaymentGate, IInv, D!IInv, D!TypeOK, D!DeskTypeOK,
                D!DeskRequest
<1>3. o \in Orders /\ OrderExists(o)
    BY <1>2 DEF IInv, D!IInv, D!RequestsValid, D!RequestValid, D!OrderExists, OrderExists
<1>4. payments[o].method = "RAZORPAY"
    BY <1>2, <1>3, Kept
<1>5. P!CapturedFor(o)
    <2>1. CASE desk'[t] = desk[t]
        BY <2>1, <1>2, <1>4 DEF IInv, PickupsBacked
    <2>2. CASE D!GateOpen(D!Transition(desk[t]), payments[o])
        <3>1. payments[o].status = "PAID"
            BY <1>2, <1>4, <2>2 DEF D!GateOpen
        <3> QED
            BY <1>3, <1>4, <3>1 DEF IInv, P!IInv, P!SettlementBacked
    <2> QED
        BY <1>1, <2>1, <2>2
<1> QED
    BY <1>2, <1>3, <1>5, CapturedKept

\* A request that asks Razorpay for an order is one of the checkout.
LEMMA CheckoutsPriced ==
    ASSUME P!IInv, Priced, AtPayments
    PROVE  \A v \in Workers : pay'[v].step = "create" =>
              pay'[v].order \in Orders /\ payments[pay'[v].order].amount > 0
<1> DEFINE Good == \A v \in Workers : pay'[v].step = "create" =>
                      pay'[v].order \in Orders /\ payments[pay'[v].order].amount > 0
<1>pay. pay \in [Workers -> P!PayRequest] /\ P!TypeOK
    BY DEF P!IInv, P!TypeOK, P!OnlineTypeOK, P!Workers, Workers
<1>old. \A v \in Workers : pay[v].step = "create" =>
           pay[v].order \in Orders /\ payments[pay[v].order].amount > 0
    BY DEF Priced, P!IInv, P!RequestsValid, P!RequestValid, P!Workers, Workers
<1>1. ASSUME NEW w \in Workers, NEW r, pay' = [pay EXCEPT ![w] = r],
             r.step = "create" => r.order \in Orders /\ payments[r.order].amount > 0
      PROVE  Good
    BY <1>1, <1>pay, <1>old
<1>2. ASSUME NEW w \in Workers, NEW o, NEW r \in P!PayRequest, r.step # "create", P!Load(w, o, r)
      PROVE  Good
    <2> DEFINE q == [r EXCEPT !.order = o, !.seen = payments[o].status,
                              !.seen_id = rzp[o].payment]
    <2>1. q.step # "create"
        BY <1>2 DEF P!PayRequest
    <2>2. pay' = [pay EXCEPT ![w] = q]
        BY <1>2 DEF P!Load
    <2> HIDE DEF q
    <2> QED
        BY <1>1, <2>1, <2>2
<1>3. ASSUME NEW w \in Workers, P!Respond(w) PROVE Good
    BY <1>1, <1>3 DEF P!Respond, P!Free
<1>4. ASSUME NEW t \in Threads, NEW o \in Orders, P!LoadForCheckout(t, o) PROVE Good
    <2> DEFINE r == [P!Free EXCEPT !.step = "create"]
               q == [r EXCEPT !.order = o, !.seen = payments[o].status,
                              !.seen_id = rzp[o].payment]
    <2>1. q.order = o /\ pay' = [pay EXCEPT ![t] = q] /\ payments[o].amount > 0
        BY <1>4 DEF P!LoadForCheckout, P!Load, P!Free
    <2> HIDE DEF q
    <2> QED
        BY <1>1, <2>1 DEF Workers
<1>5. ASSUME NEW t \in Threads, NEW r \in RzpOrders, P!CreateRzpOrder(t, r) PROVE Good
    <2> DEFINE q == [pay[t] EXCEPT !.step = "store", !.rzp = r]
    <2>1. q.step # "create"
        BY <1>pay DEF P!PayRequest, Workers
    <2>2. pay' = [pay EXCEPT ![t] = q]
        BY <1>5, <1>pay DEF P!CreateRzpOrder, Workers
    <2> HIDE DEF q
    <2> QED
        BY <1>1, <2>1, <2>2 DEF Workers
<1>6. ASSUME NEW t \in Threads, P!FetchPayment(t) PROVE Good
    <2> DEFINE outcome == P!FetchOutcome(attempt[pay[t].attempt].state)
               q == [pay[t] EXCEPT !.step = "settle", !.outcome = outcome]
    <2>1. CASE outcome = "NONE"
        BY <1>3, <1>6, <2>1 DEF P!FetchPayment, Workers
    <2>2. CASE outcome # "NONE"
        <3>1. pay' = [pay EXCEPT ![t] = q]
            BY <1>6, <1>pay, <2>2 DEF P!FetchPayment, Workers
        <3>2. q.step # "create"
            BY <1>pay DEF P!PayRequest, Workers
        <3> HIDE DEF q
        <3> QED
            BY <1>1, <3>1, <3>2 DEF Workers
    <2> QED
        BY <2>1, <2>2
<1>7. ASSUME NEW t \in Threads, NEW o \in Orders, NEW a \in Attempts, P!LoadForVerify(t, o, a)
      PROVE  Good
    <2>1. /\ [P!Free EXCEPT !.step = "fetch", !.attempt = a] \in P!PayRequest
          /\ [P!Free EXCEPT !.step = "fetch", !.attempt = a].step # "create"
        BY DEF P!Free, P!PayRequest, P!PayStep
    <2> QED
        BY <1>2, <1>7, <2>1 DEF P!LoadForVerify, Workers
<1>8. ASSUME NEW a \in Attempts, P!LoadForWebhook(a) PROVE Good
    <2> DEFINE outcome == P!WebhookOutcome(attempt[a].state)
               q == [P!Free EXCEPT !.step = "settle", !.webhook = TRUE, !.attempt = a,
                                   !.outcome = outcome]
    <2>1. PICK o \in Orders : P!Load(EventLoop, o, q)
        BY <1>8 DEF P!LoadForWebhook, P!PaymentsOf
    <2>2. outcome \in {"PAID", "FAILED"}
        BY DEF P!WebhookOutcome
    <2> HIDE DEF outcome
    <2>3. q \in P!PayRequest /\ q.step # "create"
        BY <2>2 DEF P!Free, P!PayRequest, P!PayStep, P!PaymentStatus
    <2> HIDE DEF q
    <2> QED
        BY <1>2, <2>1, <2>3 DEF Workers
<1>9. ASSUME UNCHANGED pay PROVE Good
    BY <1>9, <1>old
<1>10. ASSUME NEW t \in Threads, P!Serve(t) PROVE Good
    <2>1. P!StoreCheckout(t) => P!Respond(t) /\ t \in Workers
        BY DEF P!StoreCheckout, Workers
    <2> QED
        BY <1>3, <1>4, <1>5, <1>6, <1>7, <1>10, <2>1 DEF P!Serve
<1>11. ASSUME NEW w \in Workers, P!Work(w) PROVE Good
    BY <1>3, <1>11 DEF P!Work, P!Settle, P!AbortPay
<1>12. ASSUME P!Webhook \/ P!Razorpay PROVE Good
    <2>1. \A a \in Attempts : P!DropWebhook(a) => UNCHANGED pay
        BY DEF P!DropWebhook
    <2>2. P!Razorpay => UNCHANGED pay
        BY DEF P!Razorpay, P!StartAttempt, P!AuthorizeAttempt, P!FailAttempt,
               P!CaptureAttempt, P!AttemptMoves, P!requestVars
    <2> QED
        BY <1>8, <1>9, <1>12, <2>1, <2>2 DEF P!Webhook
<1> QED
    BY <1>10, <1>11, <1>12 DEF AtPayments

LEMMA PricedStep ==
    ASSUME IInv, [Next]_laundryVars
    PROVE  Priced'
<1>kept. \A o \in Orders : payments[o].amount > 0 => payments'[o].amount = payments[o].amount
    BY Kept, NoneFact
<1>busy. \A w \in Workers : pay[w].step # "idle" => pay[w].order \in Orders
    BY DEF IInv, P!IInv, P!RequestsValid, P!RequestValid, P!Workers, Workers
<1>1. CASE UNCHANGED onlineVars
    BY <1>1, <1>kept, <1>busy DEF IInv, Priced, onlineVars
<1>2. CASE AtPayments
    <2>1. \A v \in Workers : pay'[v].step = "create" => payments'[pay'[v].order].amount > 0
        BY <1>2, <1>kept, CheckoutsPriced DEF IInv
    <2>2. ASSUME NEW r \in RzpOrders, receipt'[r] # receipt[r]
          PROVE  receipt'[r] \in Orders /\ payments[receipt'[r]].amount > 0
        <3>1. PICK t \in Threads, q \in RzpOrders : P!CreateRzpOrder(t, q)
            BY <1>2, <2>2
               DEF AtPayments, P!Serve, P!Work, P!Webhook, P!Razorpay, P!LoadForCheckout,
                   P!StoreCheckout, P!LoadForVerify, P!FetchPayment, P!Settle, P!AbortPay,
                   P!LoadForWebhook, P!DropWebhook, P!StartAttempt, P!AuthorizeAttempt,
                   P!FailAttempt, P!CaptureAttempt, P!AttemptMoves, P!razorpayVars
        <3>2. receipt'[r] = pay[t].order
            BY <2>2, <3>1 DEF P!CreateRzpOrder, IInv, P!IInv, P!TypeOK, P!OnlineTypeOK
        <3> QED
            BY <1>busy, <3>1, <3>2 DEF P!CreateRzpOrder, IInv, Priced, Workers
    <2> QED
        BY <1>kept, <2>1, <2>2 DEF IInv, Priced
<1> QED
    BY <1>1, <1>2, Steps DEF AtDesk, Placed, PlaceOrder, laundryVars, onlineVars

-----------------------------------------------------------------------------
(***************************************************************************)
(* The theorems.                                                           *)
(***************************************************************************)
LEMMA InitOfDesk == Init => D!Init
BY DEF Init, DataInit, NewOrder, NoOrder, FirstHistory, NoPayment, Desk!Idle, D!Init,
       D!DataInit,
       D!NewOrder, D!NoOrder, D!FirstHistory, D!NoPayment, D!Idle

LEMMA InitOfOnline == Init => P!Init
BY DEF Init, DataInit, NewOrder, NoOrder, FirstHistory, NoPayment, Online!OnlineInit,
       Online!Free,
       Online!Workers, Workers, P!Init, P!DataInit, P!NewOrder, P!NoOrder, P!FirstHistory,
       P!NoPayment, P!OnlineInit, P!Free, P!Workers

LEMMA InitInv == Init => IInv
<1> SUFFICES ASSUME Init PROVE IInv
    OBVIOUS
<1>1. D!IInv
    BY InitOfDesk, D!InvInit, DataAssumption, LaundryAssumption DEF D!UserRole, UserRole
<1>2. P!IInv
    BY InitOfOnline, P!InitInvariant, DataAssumption, LaundryAssumption DEF P!UserRole,
                                                                            UserRole
<1>3. PICK owner \in [LegacyOrders -> Users] :
          /\ orders = [o \in Orders |-> IF o \in LegacyOrders THEN NewOrder(owner[o]) ELSE NoOrder]
          /\ history = [o \in Orders |-> IF o \in LegacyOrders
                                         THEN FirstHistory(owner[o]) ELSE <<>>]
          /\ payments = [o \in Orders |-> NoPayment]
    BY DEF Init, DataInit
<1>4. LegacyOnly
    BY <1>3 DEF LegacyOnly, OrderExists, NoOrder
<1>5. \A o \in Orders : \A i \in DOMAIN history[o] : history[o][i].status = "PENDING_PICKUP"
    BY <1>3 DEF FirstHistory
<1>6. TakenIn /\ PickedUpBacked
    BY <1>5 DEF TakenIn, PickedUpBacked, D!HasBeen, InHand
<1>7. OnlineOnly /\ PickupsBacked /\ Priced
    BY DEF Init, Online!OnlineInit, Online!Free, Online!Workers, Workers, Desk!Idle,
           OnlineOnly, PickupsBacked, Priced
<1> QED
    BY <1>1, <1>2, <1>4, <1>6, <1>7 DEF IInv

LEMMA InvStep ==
    ASSUME IInv, [Next]_laundryVars
    PROVE  IInv'
<1>1. D!IInv'
    BY AsDesk, DeskKeeps DEF IInv
<1>2. P!IInv'
    BY <1>1, OnlineInvStep
<1> QED
    BY <1>1, <1>2, OnlineOnlyStep, LegacyStep, TakenInStep, PickedUpStep,
       PickupsStep, PricedStep DEF IInv

\* The invariants of the desk and of the payments hold together, and so does
\* what ties them: who was picked up online has paid.
THEOREM Invariance == Spec => []IInv
BY InitInv, InvStep, PTL DEF Spec

\* Seen from the desk, checkouts, verifications and webhooks are the
\* environment that OrderDesk allows for: every theorem about OrderDesk
\* holds of the whole service.
THEOREM DeskRefined == Spec => DeskContract
<1>1. Init => Desk!Init
    BY DEF Init, Desk!Init, DataInit, NewOrder, NoOrder, FirstHistory, NoPayment,
           Desk!DataInit,
           Desk!NewOrder, Desk!NoOrder, Desk!FirstHistory, Desk!NoPayment
<1>2. ASSUME IInv, [Next]_laundryVars PROVE [Desk!Next]_Desk!deskVars
    <2>1. CASE \E t \in Threads : AtTheDesk(t)
        BY <2>1 DEF AtTheDesk, Desk!Next
    <2>2. CASE \E u \in Users, o \in Orders : Claim(u, o)
        BY <2>2 DEF Claim, Desk!Next, Desk!DeskStepOfUser
    <2>3. CASE AtPayments
        BY <1>2, <2>3, OnlineEffect DEF IInv, Desk!Next, Desk!OnlineSettlement, Desk!deskVars
    <2>4. CASE Placed
        BY <2>4 DEF Placed, PlaceOrder, CreateOrder, OrderExists, NewOrder, NoOrder,
                    FirstHistory,
                    PaymentMethod, Desk!Next, Desk!DeskStepOfUser, Desk!PlaceOrder,
                    Desk!CreateOrder, Desk!OrderExists, Desk!NewOrder, Desk!NoOrder,
                    Desk!FirstHistory, Desk!PaymentMethod
    <2>5. CASE UNCHANGED laundryVars
        BY <2>5 DEF laundryVars, dataVars, Desk!deskVars
    <2>6. CASE (\E w \in Workers : OfAPayment(w)) \/ OfAWebhook \/ AtRazorpay
        BY <2>3, <2>6, SameServe, SameWork, SameWebhook, SameRazorpay
           DEF OfAPayment, OfAWebhook, AtRazorpay, AtPayments
    <2> QED
        BY <1>2, <2>1, <2>2, <2>4, <2>5, <2>6 DEF Next, Placed
<1> QED
    BY <1>1, <1>2, Invariance, PTL DEF Spec, DeskContract, Desk!Spec

\* No laundry is taken in for nothing: the gate of update_order_status reads
\* a payment that a webhook or a checkout may change at once, and still
\* every online order that was picked up has a captured payment behind it,
\* and every delivered order is legacy, paid in cash, or captured.
THEOREM MoneyCorrect == Spec => []WorkBackedByMoney
<1>1. IInv => WorkBackedByMoney
    <2> SUFFICES ASSUME IInv, NEW o \in Orders
                 PROVE  /\ D!HasBeen(o, "PICKED_UP") /\ payments[o].method = "RAZORPAY"
                              => P!CapturedFor(o)
                        /\ D!HasBeen(o, "DELIVERED") =>
                              \/ o \in LegacyOrders
                              \/ payments[o].method = "COD" /\ payments[o].status = "PAID"
                              \/ P!CapturedFor(o)
        BY DEF WorkBackedByMoney, D!HasBeen, Desk!HasBeen, P!CapturedFor, Online!CapturedFor,
               P!AttemptsFor, Online!AttemptsFor
    <2>1. D!HasBeen(o, "PICKED_UP") /\ payments[o].method = "RAZORPAY" => P!CapturedFor(o)
        BY DEF IInv, PickedUpBacked
    <2>2. ASSUME D!HasBeen(o, "DELIVERED")
          PROVE  \/ o \in LegacyOrders
                 \/ payments[o].method = "COD" /\ payments[o].status = "PAID"
                 \/ P!CapturedFor(o)
        <3>1. payments[o].method \in {"NONE", "COD", "RAZORPAY"}
            BY DEF IInv, P!IInv, P!TypeOK, P!DataTypeOK, P!PaymentRow, P!PaymentMethod
        <3>2. CASE payments[o].method = "NONE"
            <4>1. OrderExists(o)
                BY <2>2, NoneFact DEF D!HasBeen
            <4> QED
                BY <3>2, <4>1 DEF IInv, LegacyOnly
        <3>3. CASE payments[o].method = "COD"
            BY <2>2, <3>3 DEF IInv, D!IInv, D!DeliveredIsCollected
        <3>4. CASE payments[o].method = "RAZORPAY"
            <4>1. D!HasBeen(o, "PICKED_UP")
                BY <2>2 DEF IInv, TakenIn, D!HasBeen, InHand, OrderStatus
            <4> QED
                BY <2>1, <3>4, <4>1
        <3> QED
            BY <3>1, <3>2, <3>3, <3>4
    <2> QED
        BY <2>1, <2>2
<1> QED
    BY <1>1, Invariance, PTL

\* An online order that comes to nothing never gets past PENDING_PICKUP,
\* whatever is asked for and in whichever order: start_checkout asks Razorpay
\* for no money, and the gate of update_order_status opens for none.
THEOREM FreeCorrect == Spec => []FreeOrdersStay
<1>1. IInv => FreeOrdersStay
    <2> SUFFICES ASSUME IInv, NEW o \in Orders, payments[o].method = "RAZORPAY",
                        payments[o].amount = 0
                 PROVE  orders[o].status \in {"PENDING_PICKUP", "CANCELLED"}
        BY DEF FreeOrdersStay
    <2>1. ~P!CapturedFor(o)
        <3> SUFFICES ASSUME NEW a \in Attempts, attempt[a].rzp # Null,
                            receipt[attempt[a].rzp] = o
                     PROVE  FALSE
            BY DEF P!CapturedFor, P!AttemptsFor
        <3>1. attempt[a].rzp \in RzpOrders
            BY DEF IInv, P!IInv, P!TypeOK, P!OnlineTypeOK
        <3>2. receipt[attempt[a].rzp] # Null
            BY LaundryAssumption
        <3> QED
            BY <3>1, <3>2 DEF IInv, Priced
    <2>2. ~D!HasBeen(o, "PICKED_UP")
        BY <2>1 DEF IInv, PickedUpBacked
    <2>3. \A i \in DOMAIN history[o] : history[o][i].status \notin InHand
        BY <2>2 DEF IInv, TakenIn
    <2>4. OrderExists(o)
        BY NoneFact
    <2>5. /\ history[o] # <<>>
          /\ orders[o].status = history[o][Len(history[o])].status
          /\ history[o] \in Seq(D!HistoryRow)
        BY <2>4 DEF IInv, D!IInv, D!StatusIsLatest, D!OrderExists, OrderExists, D!TypeOK,
                    D!DataTypeOK
    <2>6. Len(history[o]) \in DOMAIN history[o]
        BY <2>5
    <2>7. orders[o].status \in OrderStatus
        BY <2>4 DEF IInv, D!IInv, D!TypeOK, D!DataTypeOK, D!OrderRow, D!OrderStatus,
                    OrderStatus, OrderExists
    <2> QED
        BY <2>3, <2>5, <2>6, <2>7 DEF InHand
<1> QED
    BY <1>1, Invariance, PTL

-----------------------------------------------------------------------------
(***************************************************************************)
(* What an order keeps until a commit writes it from a stale read.  Every  *)
(* other commit finds the columns that its request has judged by as they   *)
(* were read, however the requests overlap.                                *)
(***************************************************************************)

\* The payment is still as the payment request has read it.
Fresh(p) ==
    /\ payments[p.order].status = p.seen
    /\ rzp[p.order].payment = p.seen_id
    /\ p.step = "settle" => rzp[p.order].order = attempt[p.attempt].rzp

\* The gate of the pickup that an online order has passed stays open.
GatesHold ==
    \A t \in Threads :
        /\ desk[t].step = "commit"
        /\ D!Transition(desk[t]) = D!Pickup
        /\ desk[t].order \notin contested
        /\ payments[desk[t].order].method = "RAZORPAY"
        => payments[desk[t].order].status = "PAID"

\* An order that has left the door since its collector has read it is paid.
CollectsHold ==
    \A t \in Threads :
        /\ desk[t].step = "mark" => desk[t].seen = "OUT_FOR_DELIVERY"
        /\ /\ desk[t].step \in {"load_payment", "mark"}
           /\ desk[t].seen = "OUT_FOR_DELIVERY"
           /\ desk[t].order \notin contested
           /\ payments[desk[t].order].method = "COD"
           => \/ orders[desk[t].order].status = "OUT_FOR_DELIVERY"
              \/ payments[desk[t].order].status = "PAID"

Uncontested ==
    /\ \A o \in contested : o \in Orders /\ OrderExists(o)
    /\ GatesHold
    /\ CollectsHold
    /\ \A o \in Orders \ contested :
          P!NamesCapture(o) /\ P!AckRecorded(o) /\ D!TrailLegal(o)

-----------------------------------------------------------------------------
\* A step of the payment request, or of the webhook, that w serves.
OfWorker(w) ==
    (w \in Threads /\ P!Serve(w)) \/ P!Work(w) \/ (w = EventLoop /\ P!Webhook)

Elsewhere ==
    /\ UNCHANGED contested
    /\ \/ /\ \E u \in Users, o \in Orders : D!ClaimPickup(u, o) \/ D!ClaimDelivery(u, o)
          /\ UNCHANGED onlineVars
       \/ P!Razorpay /\ UNCHANGED desk
       \/ Placed
       \/ UNCHANGED laundryVars

\* A webhook only reads.
LEMMA WebhookWrites ==
    ASSUME P!Webhook
    PROVE  UNCHANGED <<payments, rzp>>
BY DEF P!Webhook, P!LoadForWebhook, P!DropWebhook, P!dataVars

LEMMA StepsOfOne ==
    ASSUME [Next]_laundryVars
    PROVE  \/ \E t \in Threads : /\ D!ThreadStep(t)
                                 /\ Contested(StaleStatus(t), desk[t].order)
                                 /\ UNCHANGED onlineVars
           \/ \E w \in Workers : /\ OfWorker(w)
                                 /\ Contested(StalePayment(w), pay[w].order)
                                 /\ UNCHANGED desk
           \/ Elsewhere
<1>1. CASE \E t \in Threads : AtTheDesk(t)
    BY <1>1, SameThreadStep DEF AtTheDesk
<1>2. CASE \E u \in Users, o \in Orders : Claim(u, o)
    BY <1>2, SameClaim DEF Claim, Elsewhere
<1>3. CASE \E w \in Workers : OfAPayment(w)
    BY <1>3, SameServe, SameWork DEF OfAPayment, OfWorker
<1>4. CASE OfAWebhook
    <2>1. P!Webhook /\ UNCHANGED <<desk, contested>>
        BY <1>4, SameWebhook DEF OfAWebhook
    <2>2. ~StalePayment(EventLoop)
        BY <2>1, WebhookWrites DEF StalePayment
    <2> QED
        BY <2>1, <2>2 DEF OfWorker, Contested, Workers
<1>5. CASE AtRazorpay
    BY <1>5, SameRazorpay DEF AtRazorpay, Elsewhere
<1>6. CASE Placed
    BY <1>6 DEF Placed, PlaceOrder, Elsewhere
<1>7. CASE UNCHANGED laundryVars
    BY <1>7 DEF laundryVars, Elsewhere
<1> QED
    BY <1>1, <1>2, <1>3, <1>4, <1>5, <1>6, <1>7 DEF Next, Placed

LEMMA ContestedGrows ==
    ASSUME [Next]_laundryVars
    PROVE  contested \subseteq contested'
BY StepsOfOne DEF Contested, Elsewhere

LEMMA DeskAlone ==
    ASSUME IInv, NEW t \in Threads, D!ThreadStep(t), NEW u \in Threads, u # t
    PROVE  desk'[u] = desk[u]
BY DEF IInv, D!IInv, D!TypeOK, D!DeskTypeOK, D!ThreadStep, D!LoadOrderForUpdate,
       D!CheckPaymentGate, D!CommitStatus, D!LoadOrderForCollect, D!LoadPaymentForCollect,
       D!MarkPaidIfPending, D!ReportCollected, D!AbortDesk, D!Continue, D!Finish

\* Of the payments and of Razorpay, only two commits write rows.
LEMMA OnlineWrites ==
    ASSUME NEW w \in Workers, OfWorker(w)
    PROVE  \/ P!StoreCheckout(w)
           \/ P!Settle(w)
           \/ UNCHANGED <<orders, payments, rzp, attempt>>
BY DEF OfWorker, P!Serve, P!Work, P!Webhook, P!LoadForCheckout, P!CreateRzpOrder, P!LoadForVerify,
       P!FetchPayment, P!LoadForWebhook, P!DropWebhook, P!AbortPay, P!dataVars, P!razorpayVars

LEMMA RazorpayMoves ==
    ASSUME P!IInv, P!Razorpay
    PROVE  /\ UNCHANGED <<dataVars, rzp, pay>>
           /\ \A a \in Attempts :
                 attempt[a].state \in {"captured", "failed"} => attempt'[a] = attempt[a]
<1>1. UNCHANGED <<dataVars, rzp, pay>>
    BY DEF P!Razorpay, P!StartAttempt, P!AuthorizeAttempt, P!FailAttempt, P!CaptureAttempt,
           P!AttemptMoves, P!requestVars, P!dataVars, dataVars
<1>2. ASSUME NEW a \in Attempts, NEW r \in RzpOrders, P!StartAttempt(a, r), NEW b \in Attempts
      PROVE  attempt[b].state \in {"captured", "failed"} => attempt'[b] = attempt[b]
    BY <1>2 DEF P!StartAttempt, P!IInv, P!TypeOK, P!OnlineTypeOK
<1>3. ASSUME NEW a \in Attempts, NEW from, NEW to, P!AttemptMoves(a, from, to),
             from \subseteq {"created", "authorized"}, NEW b \in Attempts
      PROVE  attempt[b].state \in {"captured", "failed"} => attempt'[b] = attempt[b]
    BY <1>3 DEF P!AttemptMoves, P!IInv, P!TypeOK, P!OnlineTypeOK
<1> QED
    BY <1>1, <1>2, <1>3 DEF P!Razorpay, P!AuthorizeAttempt, P!FailAttempt, P!CaptureAttempt

\* A step elsewhere leaves the statuses and the payments of the orders that
\* exist as they are.
LEMMA ElsewhereKeeps ==
    ASSUME IInv, Elsewhere
    PROVE  /\ UNCHANGED <<desk, pay, contested>>
           /\ \A o \in Orders : OrderExists(o) =>
                 /\ orders'[o].status = orders[o].status
                 /\ payments'[o] = payments[o]
                 /\ rzp'[o] = rzp[o]
<1>1. UNCHANGED <<desk, pay, contested>>
    BY RazorpayMoves DEF Elsewhere, IInv, D!ClaimPickup, D!ClaimDelivery, Placed, PlaceOrder,
                         laundryVars, onlineVars
<1>2. ASSUME NEW o \in Orders, OrderExists(o)
      PROVE  /\ orders'[o].status = orders[o].status
             /\ payments'[o] = payments[o]
             /\ rzp'[o] = rzp[o]
    <2>1. CASE /\ \E u \in Users, q \in Orders : D!ClaimPickup(u, q) \/ D!ClaimDelivery(u, q)
               /\ UNCHANGED onlineVars
        BY <2>1 DEF D!ClaimPickup, D!ClaimDelivery, IInv, D!IInv, D!TypeOK, D!DataTypeOK,
                    D!OrderRow, onlineVars
    <2>2. CASE P!Razorpay
        BY <2>2, RazorpayMoves DEF IInv, dataVars
    <2>3. CASE Placed
        BY <1>2, <2>3, PlacedRows DEF Placed, PlaceOrder, onlineVars
    <2>4. CASE UNCHANGED laundryVars
        BY <2>4 DEF laundryVars, dataVars, onlineVars
    <2> QED
        BY <2>1, <2>2, <2>3, <2>4 DEF Elsewhere
<1> QED
    BY <1>1, <1>2

-----------------------------------------------------------------------------
(***************************************************************************)
(* A step, for an order that it leaves uncontested.                        *)
(***************************************************************************)

\* A status change replaces the status that it was checked against.
LEMMA CommitsFresh ==
    ASSUME IInv, [Next]_laundryVars, NEW t \in Threads, D!CommitStatus(t),
           desk[t].order \notin contested'
    PROVE  orders[desk[t].order].status = desk[t].seen
<1> DEFINE o == desk[t].order
<1>1. o \in Orders /\ desk[t].step = "commit"
    BY DEF IInv, D!IInv, D!CommitStatus, D!RequestsValid, D!RequestValid
<1>2. Len(history'[o]) # Len(history[o])
    <2>1. Len(history'[o]) = Len(history[o]) + 1 /\ Len(history[o]) \in Nat
        BY <1>1, D!CommittedRow, DataAssumption, LaundryAssumption
           DEF IInv, D!IInv, D!UserRole, UserRole
    <2> QED
        BY <2>1
<1>3. desk'[t] # desk[t]
    BY <1>1 DEF D!CommitStatus, D!Finish, D!Idle, IInv, D!IInv, D!TypeOK, D!DeskTypeOK
<1>4. ~Elsewhere /\ desk' # desk
    BY <1>3, ElsewhereKeeps
<1>5. PICK u \in Threads : /\ D!ThreadStep(u)
                           /\ Contested(StaleStatus(u), desk[u].order)
    BY <1>4, StepsOfOne
<1>6. u = t
    BY <1>3, <1>5, DeskAlone
<1>7. ~StaleStatus(t)
    BY <1>5, <1>6 DEF Contested
<1> QED
    BY <1>2, <1>7 DEF StaleStatus

LEMMA StatusMoves ==
    ASSUME IInv, [Next]_laundryVars, NEW o \in Orders, o \notin contested', OrderExists(o)
    PROVE  \/ orders'[o].status = orders[o].status
           \/ \E t \in Threads : /\ D!CommitStatus(t) /\ desk[t].order = o
                                 /\ orders[o].status = desk[t].seen
                                 /\ orders'[o].status = desk[t].new
<1>orders. orders \in [Orders -> D!OrderRow]
    BY DEF IInv, D!IInv, D!TypeOK, D!DataTypeOK
<1>1. ASSUME NEW t \in Threads, D!CommitStatus(t)
      PROVE  \/ orders'[o].status = orders[o].status
             \/ /\ desk[t].order = o
                /\ orders[o].status = desk[t].seen
                /\ orders'[o].status = desk[t].new
    <2>1. orders' = [orders EXCEPT ![desk[t].order].status = desk[t].new]
        BY <1>1 DEF D!CommitStatus
    <2>2. CASE desk[t].order = o
        BY <1>orders, <1>1, <2>1, <2>2, CommitsFresh DEF D!OrderRow
    <2>3. CASE desk[t].order # o
        BY <1>orders, <2>1, <2>3
    <2> QED
        BY <2>2, <2>3
<1>2. ASSUME NEW t \in Threads, D!ThreadStep(t), ~D!CommitStatus(t)
      PROVE  orders' = orders
    BY <1>2 DEF D!ThreadStep, D!LoadOrderForUpdate, D!CheckPaymentGate, D!LoadOrderForCollect,
                D!LoadPaymentForCollect, D!MarkPaidIfPending, D!ReportCollected, D!AbortDesk,
                D!dataVars
<1>3. ASSUME NEW w \in Workers, OfWorker(w)
      PROVE  orders' = orders
    BY <1>3, OnlineWrites DEF P!StoreCheckout, P!Settle
<1> QED
    BY <1>1, <1>2, <1>3, StepsOfOne, ElsewhereKeeps

-----------------------------------------------------------------------------
\* A step of a payment request writes the rows of its order only.
LEMMA WorkerFrame ==
    ASSUME IInv, NEW w \in Workers, OfWorker(w)
    PROVE  /\ UNCHANGED <<orders, attempt>>
           /\ UNCHANGED <<payments, rzp>> \/ pay[w].step \in {"store", "settle"}
           /\ \A o \in Orders : pay[w].step # "idle" /\ pay[w].order # o
                 => payments'[o] = payments[o] /\ rzp'[o] = rzp[o]
<1>1. /\ payments \in [Orders -> P!PaymentRow]
      /\ rzp \in [Orders -> [order : RzpOrders \cup {Null}, payment : Attempts \cup {Null}]]
    BY DEF IInv, P!IInv, P!TypeOK, P!DataTypeOK, P!OnlineTypeOK
<1>2. CASE P!Settle(w)
    <2>1. UNCHANGED <<orders, attempt>> /\ pay[w].step = "settle"
        BY <1>2 DEF P!Settle
    <2>2. ASSUME NEW o \in Orders, pay[w].order # o
          PROVE  payments'[o] = payments[o] /\ rzp'[o] = rzp[o]
        BY <1>1, <1>2, <2>2 DEF P!Settle, P!UpdatePayment
    <2> QED
        BY <2>1, <2>2
<1>3. CASE P!StoreCheckout(w)
    <2>1. UNCHANGED <<orders, attempt>> /\ pay[w].step = "store"
        BY <1>3 DEF P!StoreCheckout
    <2>2. ASSUME NEW o \in Orders, pay[w].order # o
          PROVE  payments'[o] = payments[o] /\ rzp'[o] = rzp[o]
        BY <1>1, <1>3, <2>2 DEF P!StoreCheckout
    <2> QED
        BY <2>1, <2>2
<1> QED
    BY <1>2, <1>3, OnlineWrites

LEMMA WorkerAlone ==
    ASSUME IInv, NEW w \in Workers, OfWorker(w), NEW o \in Orders,
           payments'[o] # payments[o] \/ rzp'[o] # rzp[o]
    PROVE  pay[w].step \in {"store", "settle"} /\ pay[w].order = o
BY WorkerFrame

\* Nothing has changed since the request read the row, so its commit writes
\* what it says.
LEMMA Settled ==
    ASSUME IInv, NEW w \in Workers, P!Settle(w), Fresh(pay[w])
    PROVE  LET p == pay[w] IN
           /\ p.order \in Orders
           /\ payments[p.order].method = "RAZORPAY" /\ payments[p.order].status # "PAID"
           /\ p.attempt \in Attempts /\ attempt[p.attempt].rzp = rzp[p.order].order
           /\ \/ p.outcome = "PAID" /\ attempt[p.attempt].state = "captured"
              \/ p.outcome = "FAILED"
           /\ payments' = [payments EXCEPT ![p.order].status = p.outcome]
           /\ rzp' = [rzp EXCEPT ![p.order].payment = p.attempt]
<1> DEFINE p == pay[w]
<1>1. p.step = "settle"
    BY DEF P!Settle
<1>2. p.order \in Orders /\ payments[p.order].method = "RAZORPAY"
    BY <1>1 DEF IInv, OnlineOnly, P!IInv, P!RequestsValid, P!RequestValid, P!Workers, Workers
<1>3. p.seen # "PAID"
    BY <1>1 DEF IInv, P!IInv, P!SeenUnpaid, P!Workers, Workers
<1>4. /\ p.attempt \in Attempts
      /\ \/ p.outcome = "PAID" /\ attempt[p.attempt].state = "captured"
         \/ p.outcome = "FAILED"
    BY <1>1 DEF IInv, P!IInv, P!RequestsValid, P!RequestValid, P!AttemptsFor, P!Workers, Workers
<1>5. /\ payments' = [payments EXCEPT ![p.order].status = p.outcome]
      /\ rzp' = [rzp EXCEPT ![p.order].payment = p.attempt]
    BY <1>2 DEF P!Settle, P!UpdatePayment, P!NetWrite, Fresh, IInv, P!IInv, P!TypeOK,
                P!DataTypeOK, P!OnlineTypeOK
<1> QED
    BY <1>1, <1>2, <1>3, <1>4, <1>5 DEF Fresh

LEMMA CheckoutStored ==
    ASSUME IInv, NEW w \in Workers, P!StoreCheckout(w), Fresh(pay[w])
    PROVE  LET o == pay[w].order IN
           /\ o \in Orders
           /\ payments[o].method = "RAZORPAY" /\ payments[o].status # "PAID"
           /\ payments' = [payments EXCEPT ![o].status = "PENDING"]
<1> DEFINE p == pay[w]
<1>1. p.step = "store"
    BY DEF P!StoreCheckout
<1>2. p.order \in Orders /\ payments[p.order].method = "RAZORPAY"
    BY <1>1 DEF IInv, OnlineOnly, P!IInv, P!RequestsValid, P!RequestValid, P!Workers, Workers
<1>3. p.seen # "PAID"
    BY <1>1 DEF IInv, P!IInv, P!SeenUnpaid, P!Workers, Workers
<1>4. payments' = [payments EXCEPT ![p.order].status = "PENDING"]
    BY <1>2 DEF P!StoreCheckout, P!NetWrite, Fresh, IInv, P!IInv, P!TypeOK, P!DataTypeOK
<1> QED
    BY <1>2, <1>3, <1>4 DEF Fresh

\* What the step of a payment request does to an order that it does not
\* contest: nothing, the outcome of an attempt for the Razorpay order on
\* record, or a new checkout.
LEMMA Paying ==
    ASSUME IInv, NEW w \in Workers, OfWorker(w), Contested(StalePayment(w), pay[w].order),
           NEW o \in Orders, o \notin contested'
    PROVE  \/ payments'[o] = payments[o] /\ rzp'[o] = rzp[o]
           \/ /\ payments[o].method = "RAZORPAY" /\ payments[o].status # "PAID"
              /\ \E a \in Attempts, s \in {"PAID", "FAILED"} :
                    /\ attempt[a].rzp = rzp[o].order
                    /\ s = "PAID" => attempt[a].state = "captured"
                    /\ payments'[o].status = s
                    /\ rzp'[o] = [rzp[o] EXCEPT !.payment = a]
           \/ /\ payments[o].method = "RAZORPAY" /\ payments[o].status # "PAID"
              /\ payments'[o].status = "PENDING"
<1>typed. /\ payments \in [Orders -> P!PaymentRow]
          /\ rzp \in [Orders -> [order : RzpOrders \cup {Null}, payment : Attempts \cup {Null}]]
    BY DEF IInv, P!IInv, P!TypeOK, P!DataTypeOK, P!OnlineTypeOK
<1>1. SUFFICES ASSUME payments'[o] # payments[o] \/ rzp'[o] # rzp[o]
               PROVE  \/ /\ payments[o].method = "RAZORPAY" /\ payments[o].status # "PAID"
                         /\ \E a \in Attempts, s \in {"PAID", "FAILED"} :
                               /\ attempt[a].rzp = rzp[o].order
                               /\ s = "PAID" => attempt[a].state = "captured"
                               /\ payments'[o].status = s
                               /\ rzp'[o] = [rzp[o] EXCEPT !.payment = a]
                      \/ /\ payments[o].method = "RAZORPAY" /\ payments[o].status # "PAID"
                         /\ payments'[o].status = "PENDING"
    OBVIOUS
<1>2. pay[w].order = o
    BY <1>1, WorkerAlone
<1>3. Fresh(pay[w])
    BY <1>1, <1>2 DEF Contested, StalePayment, Fresh
<1>4. CASE P!Settle(w)
    <2>1. /\ payments' = [payments EXCEPT ![o].status = pay[w].outcome]
          /\ rzp' = [rzp EXCEPT ![o].payment = pay[w].attempt]
          /\ payments[o].method = "RAZORPAY" /\ payments[o].status # "PAID"
          /\ pay[w].attempt \in Attempts /\ attempt[pay[w].attempt].rzp = rzp[o].order
          /\ \/ pay[w].outcome = "PAID" /\ attempt[pay[w].attempt].state = "captured"
             \/ pay[w].outcome = "FAILED"
        BY <1>2, <1>3, <1>4, Settled
    <2>2. payments'[o].status = pay[w].outcome
        BY <1>typed, <2>1 DEF P!PaymentRow
    <2>3. rzp'[o] = [rzp[o] EXCEPT !.payment = pay[w].attempt]
        BY <1>typed, <2>1
    <2> QED
        BY <2>1, <2>2, <2>3
<1>5. CASE P!StoreCheckout(w)
    <2>1. /\ payments' = [payments EXCEPT ![o].status = "PENDING"]
          /\ payments[o].method = "RAZORPAY" /\ payments[o].status # "PAID"
        BY <1>2, <1>3, <1>5, CheckoutStored
    <2> QED
        BY <1>typed, <2>1 DEF P!PaymentRow
<1> QED
    BY <1>1, <1>4, <1>5, OnlineWrites

\* An online payment that is PAID stays so.
LEMMA PaidStays ==
    ASSUME IInv, [Next]_laundryVars, NEW o \in Orders, o \notin contested',
           payments[o].method = "RAZORPAY", payments[o].status = "PAID"
    PROVE  payments'[o].status = "PAID"
<1>1. ASSUME NEW t \in Threads, D!ThreadStep(t), UNCHANGED onlineVars
      PROVE  payments'[o].status = "PAID"
    BY <1>1, DeskPayments DEF IInv, AtDesk
<1>2. ASSUME NEW w \in Workers, OfWorker(w), Contested(StalePayment(w), pay[w].order)
      PROVE  payments'[o].status = "PAID"
    BY <1>2, Paying
<1>3. OrderExists(o)
    BY NoneFact
<1> QED
    BY <1>1, <1>2, <1>3, StepsOfOne, ElsewhereKeeps

LEMMA NamesStep ==
    ASSUME IInv, [Next]_laundryVars, NEW o \in Orders, o \notin contested', P!NamesCapture(o)
    PROVE  P!NamesCapture(o)'
<1> DEFINE Named == \E a \in Attempts :
                        /\ rzp'[o].payment = a
                        /\ attempt'[a] = [rzp |-> rzp'[o].order, state |-> "captured"]
<1> SUFFICES ASSUME payments'[o].method = "RAZORPAY", payments'[o].status = "PAID"
             PROVE  Named
    BY DEF P!NamesCapture, P!OnlinePaid
<1>typed. /\ rzp \in [Orders -> [order : RzpOrders \cup {Null}, payment : Attempts \cup {Null}]]
          /\ attempt \in [Attempts -> [rzp : RzpOrders \cup {Null}, state : P!AttemptState]]
    BY DEF IInv, P!IInv, P!TypeOK, P!OnlineTypeOK
<1>1. ASSUME payments'[o] = payments[o], rzp'[o] = rzp[o],
             \A a \in Attempts :
                attempt[a].state \in {"captured", "failed"} => attempt'[a] = attempt[a]
      PROVE  Named
    <2>1. PICK a \in Attempts : /\ rzp[o].payment = a
                                /\ attempt[a] = [rzp |-> rzp[o].order, state |-> "captured"]
        BY <1>1 DEF P!NamesCapture, P!OnlinePaid
    <2> QED
        BY <1>1, <2>1
<1>2. CASE AtDesk
    BY <1>1, <1>2, DeskPayments, MethodsKept DEF IInv, AtDesk, onlineVars
<1>3. ASSUME NEW w \in Workers, OfWorker(w), Contested(StalePayment(w), pay[w].order)
      PROVE  Named
    <2>1. attempt' = attempt
        BY <1>3, WorkerFrame
    <2>2. CASE payments'[o] = payments[o] /\ rzp'[o] = rzp[o]
        BY <1>1, <2>1, <2>2
    <2>3. ASSUME NEW a \in Attempts, attempt[a].rzp = rzp[o].order,
                 attempt[a].state = "captured", rzp'[o] = [rzp[o] EXCEPT !.payment = a]
          PROVE  Named
        <3>1. rzp'[o].payment = a /\ rzp'[o].order = rzp[o].order
            BY <1>typed, <2>3
        <3>2. attempt[a] = [rzp |-> rzp[o].order, state |-> "captured"]
            BY <1>typed, <2>3
        <3> QED
            BY <2>1, <3>1, <3>2
    <2> QED
        BY <1>3, <2>2, <2>3, Paying
<1>4. CASE P!Razorpay
    BY <1>1, <1>4, RazorpayMoves DEF IInv, dataVars
<1>5. CASE Placed
    BY <1>1, <1>5, PlacedRows DEF Placed, PlaceOrder, onlineVars
<1>6. CASE UNCHANGED laundryVars
    BY <1>1, <1>6 DEF laundryVars, dataVars, onlineVars
<1> QED
    BY <1>2, <1>3, <1>4, <1>5, <1>6, StepsOfOne DEF AtDesk, Elsewhere

LEMMA AckedStep ==
    ASSUME IInv, [Next]_laundryVars, NEW o \in Orders, o \notin contested', P!AckRecorded(o)
    PROVE  P!AckRecorded(o)'
<1> SUFFICES ASSUME NEW a \in acked',
                    attempt'[a] = [rzp |-> rzp'[o].order, state |-> "captured"]
             PROVE  payments'[o].status = "PAID"
    BY DEF P!AckRecorded
<1>online. rzp[o].order # Null => payments[o].method = "RAZORPAY"
    BY DEF IInv, OnlineOnly
<1>acked. \A b \in acked : /\ b \in Attempts /\ attempt[b].state \in {"captured", "failed"}
                           /\ attempt[b].rzp # Null /\ attempt[b].rzp \in handed
    BY LaundryAssumption
       DEF IInv, P!IInv, P!TypeOK, P!OnlineTypeOK, P!AckedFinal, P!AttemptsValid,
           P!CheckoutsFresh
<1>1. ASSUME a \in acked, rzp'[o].order = rzp[o].order, attempt'[a] = attempt[a]
      PROVE  payments'[o].status = "PAID"
    <2>1. payments[o].status = "PAID"
        BY <1>1 DEF P!AckRecorded
    <2>2. payments[o].method = "RAZORPAY"
        BY <1>1, <1>online, <1>acked
    <2> QED
        BY <2>1, <2>2, PaidStays
<1>2. ASSUME NEW w \in Workers, OfWorker(w)
      PROVE  payments'[o].status = "PAID"
    <2>1. P!Next
        BY <1>2 DEF OfWorker, P!Next, P!Workers, Workers
    <2>2. attempt' = attempt
        BY <1>2, WorkerFrame
    <2>3. CASE rzp'[o].order = rzp[o].order
        <3>1. CASE a \in acked
            BY <1>1, <2>2, <2>3, <3>1
        <3>2. CASE a \notin acked
            BY <2>1, <2>2, <2>3, <3>2, P!AckStep, DataAssumption, LaundryAssumption
               DEF IInv, P!UserRole, UserRole
        <3> QED
            BY <3>1, <3>2
    <2>4. CASE rzp'[o].order # rzp[o].order
        <3>1. pay[w].order = o
            BY <1>2, <2>4, WorkerAlone
        <3>2. ~P!Settle(w)
            BY <2>4, <3>1 DEF P!Settle, P!UpdatePayment, IInv, P!IInv, P!TypeOK, P!OnlineTypeOK
        <3>3. P!StoreCheckout(w)
            BY <1>2, <2>4, <3>2, OnlineWrites
        <3>4. acked' = acked /\ rzp'[o].order = pay[w].rzp
            BY <3>1, <3>3 DEF P!StoreCheckout, IInv, P!IInv, P!TypeOK, P!OnlineTypeOK
        <3>5. pay[w].rzp \notin handed
            BY <3>3 DEF P!StoreCheckout, IInv, P!IInv, P!CheckoutsFresh, P!Workers, Workers
        <3> QED
            BY <1>acked, <2>2, <3>4, <3>5
    <2> QED
        BY <2>3, <2>4
<1>3. CASE P!Razorpay
    <2>1. acked' = acked
        BY <1>3 DEF P!Razorpay, P!StartAttempt, P!AuthorizeAttempt, P!FailAttempt,
                    P!CaptureAttempt, P!AttemptMoves
    <2> QED
        BY <1>1, <1>3, <1>acked, <2>1, RazorpayMoves DEF IInv
<1>4. CASE UNCHANGED onlineVars
    BY <1>1, <1>4 DEF onlineVars
<1> QED
    BY <1>2, <1>3, <1>4, StepsOfOne DEF Elsewhere, Placed, PlaceOrder, laundryVars

LEMMA TrailStep ==
    ASSUME IInv, [Next]_laundryVars, NEW o \in Orders, o \notin contested', D!TrailLegal(o)
    PROVE  D!TrailLegal(o)'
<1>1. [D!Next]_D!deskVars
    BY AsDesk DEF IInv
<1>2. \A t \in Threads : D!CommitStatus(t) /\ desk[t].order = o => orders[o].status = desk[t].seen
    BY CommitsFresh
<1> QED
    BY <1>1, <1>2, D!LegalStep, DataAssumption, LaundryAssumption DEF IInv, D!UserRole, UserRole

-----------------------------------------------------------------------------
\* Cash that was collected stays so.
LEMMA CashStays ==
    ASSUME IInv, [Next]_laundryVars, NEW o \in Orders,
           payments[o].method = "COD", payments[o].status = "PAID"
    PROVE  payments'[o].status = "PAID"
<1>1. OrderExists(o)
    BY NoneFact
<1>2. D!Stable(o)
    BY <1>1, AsDesk, D!Stability, DataAssumption, LaundryAssumption
       DEF IInv, D!IInv, OrderExists, D!OrderExists, D!UserRole, UserRole
<1> QED
    BY <1>2 DEF D!Stable

\* Seen from a request that is in progress, its order keeps its method.
LEMMA OrderInProgress ==
    ASSUME IInv, [Next]_laundryVars, NEW t \in Threads, desk[t].step # "idle"
    PROVE  /\ desk[t].order \in Orders /\ OrderExists(desk[t].order)
           /\ payments'[desk[t].order].method = payments[desk[t].order].method
<1>1. desk[t].order \in Orders /\ OrderExists(desk[t].order)
    BY DEF IInv, D!IInv, D!RequestsValid, D!RequestValid, D!OrderExists, OrderExists
<1> QED
    BY <1>1, Kept

LEMMA GatesStep ==
    ASSUME IInv, GatesHold, [Next]_laundryVars
    PROVE  GatesHold'
<1> SUFFICES ASSUME NEW t \in Threads, desk'[t].step = "commit",
                    D!Transition(desk'[t]) = D!Pickup,
                    desk'[t].order \notin contested',
                    payments'[desk'[t].order].method = "RAZORPAY"
             PROVE  payments'[desk'[t].order].status = "PAID"
    BY DEF GatesHold
<1> DEFINE o == desk[t].order
<1>typed. desk[t] \in D!DeskRequest
    BY DEF IInv, D!IInv, D!TypeOK, D!DeskTypeOK
<1>1. \/ desk'[t] = desk[t]
      \/ /\ D!CheckPaymentGate(t) /\ desk'[t] = [desk[t] EXCEPT !.step = "commit"]
         /\ D!GateOpen(D!Transition(desk[t]), payments[o])
    <2>1. [desk[t] EXCEPT !.step = "mark"].step = "mark"
        BY <1>typed DEF D!DeskRequest
    <2> QED
        BY <2>1, DeskMoves
<1>2. /\ desk'[t].order = o /\ desk[t].step \in {"gate", "commit"}
      /\ D!Transition(desk[t]) = D!Pickup
    BY <1>1, <1>typed DEF D!Transition, D!CheckPaymentGate, D!DeskRequest
<1>3. o \in Orders /\ payments[o].method = "RAZORPAY"
    BY <1>2, OrderInProgress
<1>4. o \notin contested
    BY <1>2, ContestedGrows
<1>5. payments[o].status = "PAID"
    BY <1>1, <1>2, <1>3, <1>4 DEF GatesHold, D!GateOpen
<1> QED
    BY <1>2, <1>3, <1>5, PaidStays

LEMMA CollectsStep ==
    ASSUME IInv, CollectsHold, [Next]_laundryVars
    PROVE  CollectsHold'
<1> SUFFICES ASSUME NEW t \in Threads
             PROVE  (/\ desk[t].step = "mark" => desk[t].seen = "OUT_FOR_DELIVERY"
                     /\ /\ desk[t].step \in {"load_payment", "mark"}
                        /\ desk[t].seen = "OUT_FOR_DELIVERY"
                        /\ desk[t].order \notin contested
                        /\ payments[desk[t].order].method = "COD"
                        => \/ orders[desk[t].order].status = "OUT_FOR_DELIVERY"
                           \/ payments[desk[t].order].status = "PAID")'
    BY DEF CollectsHold
<1> DEFINE r == desk[t]
           Out(o) == orders[o].status = "OUT_FOR_DELIVERY" \/ payments[o].status = "PAID"
<1>typed. r \in D!DeskRequest
    BY DEF IInv, D!IInv, D!TypeOK, D!DeskTypeOK
\* An order that is out for delivery stays so until it is paid.
<1>1. ASSUME NEW o \in Orders, o \notin contested', OrderExists(o),
             payments[o].method = "COD", Out(o)
      PROVE  Out(o)'
    <2>1. CASE payments[o].status = "PAID"
        BY <1>1, <2>1, CashStays
    <2>2. CASE orders[o].status = "OUT_FOR_DELIVERY"
        <3>1. CASE orders'[o].status = orders[o].status
            BY <2>2, <3>1
        <3>2. ASSUME NEW u \in Threads, D!CommitStatus(u), desk[u].order = o,
                     orders[o].status = desk[u].seen
              PROVE  payments[o].status = "PAID"
            <4>1. D!RequestValid(desk[u]) /\ desk[u].step = "commit"
                BY <3>2 DEF IInv, D!IInv, D!RequestsValid, D!CommitStatus
            <4>2. D!Transition(desk[u]) = D!Delivery
                BY <2>2, <3>2, <4>1
                   DEF D!RequestValid, D!Transition, D!ValidOrderTransitions, D!Pickup, D!Delivery
            <4> QED
                BY <1>1, <3>2, <4>1, <4>2 DEF D!RequestValid
        <3> QED
            BY <1>1, <3>1, <3>2, StatusMoves, CashStays
    <2> QED
        BY <1>1, <2>1, <2>2
<1>2. CASE desk'[t] = desk[t]
    <2>1. CASE r.step \notin {"load_payment", "mark"}
        BY <1>2, <2>1
    <2>2. CASE r.step \in {"load_payment", "mark"}
        <3>1. /\ r.order \in Orders /\ OrderExists(r.order)
              /\ payments'[r.order].method = payments[r.order].method
            BY <2>2, OrderInProgress
        <3>2. r.step = "mark" => r.seen = "OUT_FOR_DELIVERY"
            BY DEF CollectsHold
        <3>3. r.seen = "OUT_FOR_DELIVERY" /\ r.order \notin contested
              /\ payments[r.order].method = "COD" => Out(r.order)
            BY <2>2 DEF CollectsHold
        <3> QED
            BY <1>1, <1>2, <3>1, <3>2, <3>3, ContestedGrows
    <2> QED
        BY <2>1, <2>2
<1>3. CASE desk'[t].step \in {"idle", "gate", "report", "commit"}
    BY <1>3
<1>4. ASSUME NEW u \in Users, NEW o \in Orders, D!LoadOrderForCollect(t, u, o),
             desk'[t].step = "load_payment", desk'[t].order = o, desk'[t].seen = orders[o].status
      PROVE  (r.step = "load_payment" /\ (r.seen = "OUT_FOR_DELIVERY" =>
                 orders[r.order].status = "OUT_FOR_DELIVERY"))'
    BY <1>4 DEF D!LoadOrderForCollect, D!dataVars
<1>5. ASSUME D!LoadPaymentForCollect(t), D!Collectable(r, payments[r.order]),
             desk'[t] = [r EXCEPT !.step = "mark"]
      PROVE  (/\ r.seen = "OUT_FOR_DELIVERY"
              /\ r.order \notin contested => Out(r.order))'
    <2>1. desk'[t].order = r.order /\ desk'[t].seen = r.seen /\ r.seen = "OUT_FOR_DELIVERY"
        BY <1>5, <1>typed DEF D!DeskRequest, D!Collectable
    <2>2. r.step = "load_payment" /\ UNCHANGED <<orders, payments>>
        BY <1>5 DEF D!LoadPaymentForCollect, D!dataVars
    <2>3. payments[r.order].method = "COD"
        BY <1>5 DEF D!Collectable
    <2>4. r.order \notin contested' => Out(r.order)
        BY <2>1, <2>2, <2>3, ContestedGrows DEF CollectsHold
    <2> QED
        BY <2>1, <2>2, <2>4
<1>6. [r EXCEPT !.step = "commit"].step = "commit"
    BY <1>typed DEF D!DeskRequest
<1> QED
    BY <1>2, <1>3, <1>4, <1>5, <1>6, DeskMoves

LEMMA UncontestedStep ==
    ASSUME IInv, Uncontested, [Next]_laundryVars
    PROVE  Uncontested'
\* What becomes contested is an order that exists.
<1>1. \A o \in contested' : o \in Orders /\ OrderExists(o)
    <2>1. ASSUME NEW t \in Threads, D!ThreadStep(t), Contested(StaleStatus(t), desk[t].order),
                 contested' # contested
          PROVE  desk[t].order \in Orders /\ OrderExists(desk[t].order)
        <3>1. history' # history
            BY <2>1 DEF Contested, StaleStatus
        <3>2. D!CommitStatus(t)
            BY <2>1, <3>1
               DEF D!ThreadStep, D!LoadOrderForUpdate, D!CheckPaymentGate,
                   D!LoadOrderForCollect, D!LoadPaymentForCollect, D!MarkPaidIfPending,
                   D!ReportCollected, D!AbortDesk, D!dataVars
        <3> QED
            BY <3>2, OrderInProgress DEF D!CommitStatus
    <2>2. ASSUME NEW w \in Workers, OfWorker(w), Contested(StalePayment(w), pay[w].order),
                 contested' # contested
          PROVE  pay[w].order \in Orders /\ OrderExists(pay[w].order)
        <3>1. pay[w].step \in {"store", "settle"}
            BY <2>2, WorkerFrame DEF Contested, StalePayment
        <3> QED
            BY <3>1, PayingFact, NoneFact DEF IInv
    <2> QED
        BY <2>1, <2>2, StepsOfOne DEF Elsewhere, Uncontested, Contested
<1>4. \A o \in Orders : OrderExists(o) => OrderExists(o)'
    BY AsDesk, D!Stability, DataAssumption, LaundryAssumption
       DEF IInv, D!IInv, OrderExists, D!OrderExists, D!Stable, D!UserRole, UserRole
<1>2. \A o \in Orders \ contested' : o \in Orders \ contested
    BY ContestedGrows
<1>3. \A o \in Orders \ contested' :
         P!NamesCapture(o)' /\ P!AckRecorded(o)' /\ D!TrailLegal(o)'
    BY <1>2, NamesStep, AckedStep, TrailStep DEF Uncontested
<1> QED
    BY <1>1, <1>3, <1>4, GatesStep, CollectsStep DEF Uncontested

LEMMA UncontestedInit == Init => Uncontested
<1> SUFFICES ASSUME Init PROVE Uncontested
    OBVIOUS
<1>1. \A o \in Orders : D!TrailLegal(o)
    BY InitOfDesk, D!LegalInit, DataAssumption, LaundryAssumption
       DEF D!LifecycleLegal, D!UserRole, UserRole
<1>2. GatesHold /\ CollectsHold
    BY DEF Init, Desk!Idle, GatesHold, CollectsHold
<1>3. \A o \in Orders : P!NamesCapture(o) /\ P!AckRecorded(o)
    BY DEF Init, DataInit, NoPayment, Online!OnlineInit, P!NamesCapture, P!OnlinePaid,
           P!AckRecorded
<1> QED
    BY <1>1, <1>2, <1>3 DEF Uncontested, Init

LEMMA UncontestedInvariance == Spec => [](IInv /\ Uncontested)
BY InitInv, InvStep, UncontestedInit, UncontestedStep, PTL DEF Spec

-----------------------------------------------------------------------------
(***************************************************************************)
(* The steps of the service as steps of OrderLifecycle.                    *)
(***************************************************************************)

\* A commit from a stale read contests the order, and touches no other.
LEMMA ContestStep ==
    ASSUME NEW o \in Orders, contested' = contested \cup {o},
           orders[o].status # "NONE",
           \A p \in Orders : payments'[p].method = payments[p].method,
           \A p \in Orders \ {o} : /\ orders'[p].status = orders[p].status
                                   /\ payments'[p].status = payments[p].status
    PROVE  Lifecycle!Contest(o)
<1> DEFINE stage   == [p \in Orders |-> IF p \in contested THEN "CONTESTED" ELSE orders[p].status]
           method  == [p \in Orders |-> payments[p].method]
           settled == {p \in Orders \ contested : payments[p].status = "PAID"}
<1>1. stage[o] # "NONE"
    OBVIOUS
<1>2. stage' = [stage EXCEPT ![o] = "CONTESTED"]
    OBVIOUS
<1>3. method' = method
    OBVIOUS
<1>4. settled' = settled \ {o}
    OBVIOUS
<1> QED
    BY <1>1, <1>2, <1>3, <1>4 DEF Lifecycle!Contest

\* Nothing changes that the life cycle tells of.
LEMMA QuietStep ==
    ASSUME contested' = contested,
           \A p \in Orders : payments'[p].method = payments[p].method,
           \A p \in Orders \ contested : /\ orders'[p].status = orders[p].status
                                         /\ payments'[p].status = "PAID" <=> payments[p].status = "PAID"
    PROVE  UNCHANGED Lifecycle!lifecycleVars
<1> DEFINE stage   == [p \in Orders |-> IF p \in contested THEN "CONTESTED" ELSE orders[p].status]
           method  == [p \in Orders |-> payments[p].method]
           settled == {p \in Orders \ contested : payments[p].status = "PAID"}
<1>1. stage' = stage
    OBVIOUS
<1>2. method' = method
    OBVIOUS
<1>3. settled' = settled
    OBVIOUS
<1> QED
    BY <1>1, <1>2, <1>3 DEF Lifecycle!lifecycleVars

\* The payment of an order is made, at the door or at Razorpay.
LEMMA PayStep ==
    ASSUME NEW o \in Orders, o \notin contested, contested' = contested,
           payments[o].method # "NONE", orders[o].status # "CONTESTED",
           payments[o].method = "COD" => orders[o].status = "OUT_FOR_DELIVERY",
           payments'[o].status = "PAID",
           \A p \in Orders : /\ orders'[p].status = orders[p].status
                             /\ payments'[p].method = payments[p].method,
           \A p \in Orders \ {o} : payments'[p].status = payments[p].status
    PROVE  Lifecycle!Pay(o)
<1> DEFINE stage   == [p \in Orders |-> IF p \in contested THEN "CONTESTED" ELSE orders[p].status]
           method  == [p \in Orders |-> payments[p].method]
           settled == {p \in Orders \ contested : payments[p].status = "PAID"}
<1>1. stage' = stage
    OBVIOUS
<1>2. method' = method
    OBVIOUS
<1>3. settled' = settled \cup {o}
    OBVIOUS
<1>4. /\ method[o] # "NONE" /\ stage[o] # "CONTESTED"
      /\ method[o] = "COD" => stage[o] = "OUT_FOR_DELIVERY"
    OBVIOUS
<1> QED
    BY <1>1, <1>2, <1>3, <1>4 DEF Lifecycle!Pay

LEMMA LifecycleDesk ==
    ASSUME IInv, Uncontested, NEW t \in Threads, D!ThreadStep(t), UNCHANGED onlineVars,
           Contested(StaleStatus(t), desk[t].order), [Next]_laundryVars
    PROVE  \/ \E o \in Orders, next \in Lifecycle!OrderStatus : Lifecycle!Advance(o, next)
           \/ \E o \in Orders : Lifecycle!Pay(o) \/ Lifecycle!Contest(o)
           \/ UNCHANGED Lifecycle!lifecycleVars
<1> DEFINE r == desk[t]
           o == r.order
           stage   == [p \in Orders |-> IF p \in contested THEN "CONTESTED" ELSE orders[p].status]
           method  == [p \in Orders |-> payments[p].method]
           settled == {p \in Orders \ contested : payments[p].status = "PAID"}
<1>typed. orders \in [Orders -> D!OrderRow] /\ payments \in [Orders -> D!PaymentRow]
    BY DEF IInv, D!IInv, D!TypeOK, D!DataTypeOK
<1>busy. r.step # "idle" => /\ o \in Orders /\ orders[o].status # "NONE"
                            /\ orders[o].status \in D!OrderStatus
                            /\ D!RequestValid(r)
    BY <1>typed DEF IInv, D!IInv, D!RequestsValid, D!RequestValid, D!OrderExists, D!OrderRow
<1>methods. \A p \in Orders : payments'[p].method = payments[p].method
    BY MethodsKept DEF AtDesk
<1>1. CASE D!CommitStatus(t)
    <2>1. /\ o \in Orders /\ orders[o].status # "NONE" /\ D!RequestValid(r) /\ r.step = "commit"
          /\ orders' = [orders EXCEPT ![o].status = r.new] /\ payments' = payments
        BY <1>1, <1>busy DEF D!CommitStatus
    <2>2. \A p \in Orders \ {o} : orders'[p].status = orders[p].status
        BY <1>typed, <2>1
    <2>3. CASE contested' # contested
        <3>1. contested' = contested \cup {o}
            BY <2>3 DEF Contested
        <3> QED
            BY <1>methods, <2>1, <2>2, <3>1, ContestStep
    <2>4. CASE contested' = contested /\ o \in contested
        BY <2>1, <2>2, <2>4, QuietStep
    <2>5. CASE contested' = contested /\ o \notin contested
        <3>1. /\ orders[o].status = r.seen /\ r.new \in D!OrderStatus
              /\ <<r.seen, r.new>> \in D!ValidOrderTransitions
            BY <1>1, <2>1, <2>5, CommitsFresh DEF D!RequestValid, D!Transition
        <3>2. stage[o] = r.seen /\ method[o] = payments[o].method
              /\ (payments[o].status = "PAID" => o \in settled)
            BY <2>1, <2>5, <3>1
        <3>3. stage' = [stage EXCEPT ![o] = r.new]
            <4>1. orders'[o].status = r.new
                BY <1>typed, <2>1 DEF D!OrderRow
            <4> QED
                BY <2>1, <2>2, <2>5, <4>1
        <3>4. UNCHANGED <<method, settled>>
            BY <2>1, <2>5
        <3>5. <<stage[o], r.new>> \in Lifecycle!ValidOrderTransitions
            BY <3>1, <3>2 DEF Lifecycle!ValidOrderTransitions, D!ValidOrderTransitions,
                              Lifecycle!Pickup, D!Pickup, Lifecycle!Delivery, D!Delivery
        <3>6. <<stage[o], r.new>> = Lifecycle!Pickup /\ method[o] = "RAZORPAY" => o \in settled
            BY <2>1, <2>5, <3>2 DEF Uncontested, GatesHold, D!Transition, D!Pickup,
                                    Lifecycle!Pickup
        <3>7. <<stage[o], r.new>> = Lifecycle!Delivery /\ method[o] = "COD" => o \in settled
            BY <2>1, <3>2 DEF D!RequestValid, D!Transition, D!Delivery, Lifecycle!Delivery
        <3>8. Lifecycle!Advance(o, r.new)
            BY <3>3, <3>4, <3>5, <3>6, <3>7 DEF Lifecycle!Advance, Lifecycle!Gate
        <3>9. r.new \in Lifecycle!OrderStatus
            BY <3>1 DEF Lifecycle!OrderStatus, D!OrderStatus
        <3> QED
            BY <2>1, <3>8, <3>9 DEF Lifecycle!Advance
    <2> QED
        BY <2>3, <2>4, <2>5
<1>2. CASE ~D!CommitStatus(t)
    <2>1. contested' = contested /\ UNCHANGED <<orders, history>>
        <3>1. UNCHANGED <<orders, history>>
            BY <1>2 DEF D!ThreadStep, D!LoadOrderForUpdate, D!CheckPaymentGate,
                        D!LoadOrderForCollect, D!LoadPaymentForCollect, D!MarkPaidIfPending,
                        D!ReportCollected, D!AbortDesk, D!dataVars
        <3> QED
            BY <3>1 DEF Contested, StaleStatus
    <2>2. CASE D!MarkPaidIfPending(t) /\ o \notin contested /\ payments[o].status = "PENDING"
        <3>1. /\ o \in Orders /\ r.step = "mark" /\ payments[o].method = "COD"
              /\ payments' = [payments EXCEPT ![o].status = "PAID"]
            BY <2>2, <1>busy DEF D!MarkPaidIfPending, D!RequestValid
        <3>2. orders[o].status = "OUT_FOR_DELIVERY"
            BY <2>2, <3>1 DEF Uncontested, CollectsHold
        <3>3. payments'[o].status = "PAID"
            BY <1>typed, <3>1 DEF D!PaymentRow
        <3>4. \A p \in Orders \ {o} : payments'[p].status = payments[p].status
            BY <1>typed, <3>1
        <3> QED
            BY <1>methods, <2>1, <2>2, <3>1, <3>2, <3>3, <3>4, PayStep
    <2>3. CASE D!MarkPaidIfPending(t) /\ o \in contested
        <3>1. \A p \in Orders \ contested : payments'[p] = payments[p]
            BY <1>typed, <2>3 DEF D!MarkPaidIfPending
        <3> QED
            BY <1>methods, <2>1, <3>1, QuietStep
    <2>4. CASE UNCHANGED payments
        BY <2>1, <2>4, QuietStep
    <2> QED
        BY <1>2, <2>2, <2>3, <2>4
           DEF D!ThreadStep, D!LoadOrderForUpdate, D!CheckPaymentGate, D!LoadOrderForCollect,
               D!LoadPaymentForCollect, D!MarkPaidIfPending, D!ReportCollected, D!AbortDesk,
               D!dataVars
<1> QED
    BY <1>1, <1>2

LEMMA LifecyclePayment ==
    ASSUME IInv, Uncontested, NEW w \in Workers, OfWorker(w), UNCHANGED desk,
           Contested(StalePayment(w), pay[w].order)
    PROVE  \/ \E o \in Orders : Lifecycle!Pay(o) \/ Lifecycle!Contest(o)
           \/ UNCHANGED Lifecycle!lifecycleVars
<1> DEFINE o == pay[w].order
<1>orders. UNCHANGED orders
    BY WorkerFrame
<1>methods. \A p \in Orders : payments'[p].method = payments[p].method
    BY MethodsKept DEF AtPayments, OfWorker
<1>1. CASE UNCHANGED <<payments, rzp>>
    <2>1. contested' = contested
        BY <1>1 DEF Contested, StalePayment
    <2> QED
        BY <1>1, <1>orders, <2>1, QuietStep
<1>2. CASE pay[w].step \in {"store", "settle"}
    <2>1. /\ o \in Orders /\ payments[o].method = "RAZORPAY"
          /\ orders[o].status \in D!OrderStatus
        BY <1>2, PayingFact, NoneFact DEF IInv, D!IInv, D!TypeOK, D!DataTypeOK, D!OrderRow,
                                          OrderExists
    <2>2. orders[o].status # "NONE" /\ orders[o].status # "CONTESTED"
        BY <2>1 DEF D!OrderStatus
    <2>3. \A p \in Orders \ {o} : payments'[p] = payments[p]
        BY <1>2, WorkerFrame
    <2>4. CASE contested' # contested
        <3>1. contested' = contested \cup {o}
            BY <2>4 DEF Contested
        <3> QED
            BY <1>orders, <1>methods, <2>1, <2>2, <2>3, <3>1, ContestStep
    <2>5. CASE contested' = contested /\ o \in contested
        BY <1>orders, <1>methods, <2>3, <2>5, QuietStep
    <2>6. CASE contested' = contested /\ o \notin contested
        <3>1. \/ payments'[o] = payments[o]
              \/ payments[o].status # "PAID" /\ payments'[o].status \in {"PAID", "FAILED", "PENDING"}
            BY <2>1, <2>6, Paying
        <3>2. CASE payments[o].status # "PAID" /\ payments'[o].status = "PAID"
            BY <1>orders, <1>methods, <2>1, <2>2, <2>3, <2>6, <3>2, PayStep
        <3>3. CASE payments'[o].status = "PAID" <=> payments[o].status = "PAID"
            BY <1>orders, <1>methods, <2>3, <2>6, <3>3, QuietStep
        <3> QED
            BY <3>1, <3>2, <3>3
    <2> QED
        BY <2>4, <2>5, <2>6
<1> QED
    BY <1>1, <1>2, WorkerFrame

LEMMA LifecyclePlaced ==
    ASSUME IInv, Uncontested, Placed
    PROVE  \E o \in Orders, m \in Lifecycle!PaymentMethod : Lifecycle!Place(o, m)
<1> DEFINE stage   == [p \in Orders |-> IF p \in contested THEN "CONTESTED" ELSE orders[p].status]
           method  == [p \in Orders |-> payments[p].method]
           settled == {p \in Orders \ contested : payments[p].status = "PAID"}
<1>1. PICK o \in Orders, u \in Users, m \in PaymentMethod, n \in Amounts : PlaceOrder(o, u, m, n)
    BY DEF Placed
<1>2. /\ orders' = [orders EXCEPT ![o] = NewOrder(u)]
      /\ payments' = [payments EXCEPT ![o] = [method |-> m, status |-> "PENDING", amount |-> n]]
      /\ contested' = contested /\ ~OrderExists(o)
    BY <1>1 DEF PlaceOrder, CreateOrder
<1>3. orders \in [Orders -> D!OrderRow] /\ payments \in [Orders -> D!PaymentRow]
    BY DEF IInv, D!IInv, D!TypeOK, D!DataTypeOK
<1>4. orders[o].status = "NONE" /\ payments[o].status = "NONE" /\ o \notin contested
    BY <1>2 DEF Uncontested, OrderExists, IInv, D!IInv, D!StatusIsLatest, D!OrderExists,
                D!NoPayment
<1>5. stage[o] = "NONE" /\ stage' = [stage EXCEPT ![o] = "PENDING_PICKUP"]
    BY <1>2, <1>3, <1>4 DEF NewOrder, NoOrder
<1>6. method' = [method EXCEPT ![o] = m] /\ settled' = settled
    BY <1>2, <1>3, <1>4
<1> QED
    BY <1>5, <1>6 DEF Lifecycle!Place, Lifecycle!PaymentMethod, PaymentMethod

LEMMA LifecycleStep ==
    ASSUME IInv, Uncontested, [Next]_laundryVars
    PROVE  [Lifecycle!Next]_Lifecycle!lifecycleVars
<1>1. ASSUME NEW u \in Users, NEW o \in Orders, D!ClaimPickup(u, o) \/ D!ClaimDelivery(u, o),
             UNCHANGED contested
      PROVE  UNCHANGED Lifecycle!lifecycleVars
    <2>1. \A p \in Orders : orders'[p].status = orders[p].status
        BY <1>1 DEF D!ClaimPickup, D!ClaimDelivery, IInv, D!IInv, D!TypeOK, D!DataTypeOK,
                    D!OrderRow
    <2> QED
        BY <1>1, <2>1, QuietStep DEF D!ClaimPickup, D!ClaimDelivery
<1>2. CASE (P!Razorpay \/ UNCHANGED laundryVars) /\ UNCHANGED contested
    BY <1>2, RazorpayMoves, QuietStep DEF IInv, dataVars, laundryVars
<1> QED
    BY <1>1, <1>2, StepsOfOne, LifecycleDesk, LifecyclePayment, LifecyclePlaced
       DEF Elsewhere, Lifecycle!Next

LEMMA LifecycleInit == Init => Lifecycle!Init
<1> DEFINE stage   == [p \in Orders |-> IF p \in contested THEN "CONTESTED" ELSE orders[p].status]
           method  == [p \in Orders |-> payments[p].method]
           settled == {p \in Orders \ contested : payments[p].status = "PAID"}
<1> SUFFICES ASSUME Init PROVE Lifecycle!Init
    OBVIOUS
<1>0. PICK owner \in [LegacyOrders -> Users] :
          /\ orders = [o \in Orders |-> IF o \in LegacyOrders THEN NewOrder(owner[o]) ELSE NoOrder]
          /\ payments = [o \in Orders |-> NoPayment]
    BY DEF Init, DataInit
<1>1. /\ \A o \in Orders : o \in LegacyOrders => orders[o].status = "PENDING_PICKUP"
      /\ \A o \in Orders : o \notin LegacyOrders => orders[o].status = "NONE"
      /\ \A o \in Orders : payments[o].method = "NONE" /\ payments[o].status = "NONE"
      /\ contested = {}
    BY <1>0 DEF NewOrder, NoOrder, NoPayment, Init
<1>2. stage = [o \in Orders |-> IF o \in LegacyOrders THEN "PENDING_PICKUP" ELSE "NONE"]
    BY <1>1
<1>3. method = [o \in Orders |-> "NONE"] /\ settled = {}
    BY <1>1
<1> QED
    BY <1>2, <1>3 DEF Lifecycle!Init

-----------------------------------------------------------------------------
(***************************************************************************)
(* What follows for every execution.                                       *)
(***************************************************************************)

\* However requests, webhooks and collections overlap, the service keeps
\* every promise of OrderLifecycle until a commit writes an order from a
\* stale read: the status, the payment and the two gates read before any
\* other commit (update_order_status, collect_cod_payment, verify_payment)
\* still hold at the commit.
THEOREM LifecycleRefined == Spec => LifecycleContract
<1>1. IInv /\ Uncontested /\ [Next]_laundryVars => [Lifecycle!Next]_Lifecycle!lifecycleVars
    BY LifecycleStep
<1> QED
    BY <1>1, LifecycleInit, UncontestedInvariance, PTL
       DEF Spec, LifecycleContract, Lifecycle!Spec

\* A payment is taken back by such a commit only, never by an attempt that
\* fails late or by another checkout (handle_payment_failed, start_checkout).
THEOREM PaidFinal == Spec => PaidIsFinal
<1>1. IInv /\ [Next]_laundryVars
         => [\A o \in Orders \ contested' :
                Online!OnlinePaid(o) => payments'[o].status = "PAID"]_laundryVars
    BY PaidStays DEF Online!OnlinePaid
<1> QED
    BY <1>1, Invariance, PTL DEF Spec, PaidIsFinal

\* A paid payment names the captured attempt, and the Razorpay order that it
\* was captured for, also while verifications and webhooks of one payment
\* overlap: both columns are of one request, or were as it has read them.
THEOREM NamesCorrect == Spec => []PaidNamesCapture
<1>1. Uncontested => PaidNamesCapture
    BY DEF Uncontested, PaidNamesCapture, P!NamesCapture, Online!NamesCapture,
           P!OnlinePaid, Online!OnlinePaid
<1> QED
    BY <1>1, UncontestedInvariance, PTL

\* A capture that Razorpay will not report again has made its payment PAID,
\* for good, unless a checkout has replaced the Razorpay order since.
THEOREM AckedCorrect == Spec => []AckedIsRecorded
<1>1. Uncontested => AckedIsRecorded
    BY DEF Uncontested, AckedIsRecorded, P!AckRecorded, Online!AckRecorded
<1> QED
    BY <1>1, UncontestedInvariance, PTL

\* The audit trail of an order, in the order of the commits, is a walk
\* through the tables of workflow.py up to a commit that replaces another
\* status than the one that was checked (update_order_status).
THEOREM AuditCorrect == Spec => []LifecycleLegal
<1>1. Uncontested => LifecycleLegal
    BY DEF Uncontested, LifecycleLegal, D!TrailLegal, Desk!TrailLegal, D!ValidOrderTransitions,
           Desk!ValidOrderTransitions, D!TransitionPermissions, Desk!TransitionPermissions,
           D!Pickup, Desk!Pickup, D!Delivery, Desk!Delivery, D!AgentOwnershipTransitions,
           Desk!AgentOwnershipTransitions, D!StaffTransitions, Desk!StaffTransitions
<1> QED
    BY <1>1, UncontestedInvariance, PTL

-----------------------------------------------------------------------------
\* The ways into the stages in which the laundry has the order in hand.
LEMMA WaysIntoHand ==
    ASSUME NEW from, NEW to, <<from, to>> \in Lifecycle!ValidOrderTransitions
    PROVE  /\ to \in Lifecycle!InHand => from \in Lifecycle!InHand \/ <<from, to>> = Lifecycle!Pickup
           /\ to = "DELIVERED" => <<from, to>> = Lifecycle!Delivery
           /\ <<from, to>> = Lifecycle!Delivery => from \in Lifecycle!InHand
BY DEF Lifecycle!ValidOrderTransitions, Lifecycle!InHand, Lifecycle!OrderStatus,
       Lifecycle!Pickup, Lifecycle!Delivery

\* So the laundry never works unpaid, although the gates of
\* update_order_status are read before the commit and the payment may move
\* at once: an uncontested online order that is in hand is PAID now, and so
\* is every uncontested order with a payment that was delivered.
THEOREM PaidWork == Spec => []NoUnpaidWork
<1> DEFINE stage   == [p \in Orders |-> IF p \in contested THEN "CONTESTED" ELSE orders[p].status]
           method  == [p \in Orders |-> payments[p].method]
           settled == {p \in Orders \ contested : payments[p].status = "PAID"}
           Sound   == Lifecycle!TypeOK /\ Lifecycle!NoUnpaidWork
<1> USE DEF Lifecycle!TypeOK, Lifecycle!NoUnpaidWork
<1>1. Lifecycle!Init => Sound
    BY DEF Lifecycle!Init, Lifecycle!OrderStatus, Lifecycle!InHand, Lifecycle!PaymentMethod
<1>2. Sound /\ [Lifecycle!Next]_Lifecycle!lifecycleVars => Sound'
    <2> SUFFICES ASSUME Sound, [Lifecycle!Next]_Lifecycle!lifecycleVars
                 PROVE  Sound'
        OBVIOUS
    <2>1. CASE UNCHANGED Lifecycle!lifecycleVars
        BY <2>1 DEF Lifecycle!lifecycleVars
    <2>2. ASSUME NEW o \in Orders, NEW m \in Lifecycle!PaymentMethod, Lifecycle!Place(o, m)
          PROVE  Sound'
        <3>1. Lifecycle!TypeOK'
            <4>1. /\ stage' = [stage EXCEPT ![o] = "PENDING_PICKUP"]
                  /\ method' = [method EXCEPT ![o] = m] /\ settled' = settled
                BY <2>2 DEF Lifecycle!Place
            <4>2. stage' \in [Orders -> Lifecycle!OrderStatus \cup {"NONE", "CONTESTED"}]
                BY <4>1 DEF Lifecycle!OrderStatus
            <4>3. method' \in [Orders -> Lifecycle!PaymentMethod \cup {"NONE"}]
                BY <4>1
            <4> QED
                BY <4>1, <4>2, <4>3
        <3>2. stage'[o] = "PENDING_PICKUP"
            BY <2>2 DEF Lifecycle!Place
        <3>3. \A p \in Orders \ {o} : stage'[p] = stage[p] /\ method'[p] = method[p]
            BY <2>2 DEF Lifecycle!Place
        <3>4. settled' = settled
            BY <2>2 DEF Lifecycle!Place
        <3> QED
            BY <3>1, <3>2, <3>3, <3>4 DEF Lifecycle!InHand
    <2>3. ASSUME NEW o \in Orders, Lifecycle!Pay(o)
          PROVE  Sound'
        BY <2>3 DEF Lifecycle!Pay
    <2>4. ASSUME NEW o \in Orders, NEW next \in Lifecycle!OrderStatus, Lifecycle!Advance(o, next)
          PROVE  Sound'
        <3>1. Lifecycle!TypeOK'
            <4>1. /\ stage' = [stage EXCEPT ![o] = next]
                  /\ method' = method /\ settled' = settled
                BY <2>4 DEF Lifecycle!Advance
            <4>2. stage' \in [Orders -> Lifecycle!OrderStatus \cup {"NONE", "CONTESTED"}]
                BY <4>1
            <4> QED
                BY <4>1, <4>2
        <3>2. /\ stage'[o] = next
              /\ \A p \in Orders \ {o} : stage'[p] = stage[p]
              /\ method' = method /\ settled' = settled
            BY <2>4 DEF Lifecycle!Advance
        <3>3. method[o] = "RAZORPAY" /\ next \in Lifecycle!InHand => o \in settled
            BY <2>4, WaysIntoHand DEF Lifecycle!Advance, Lifecycle!Gate
        <3>4. method[o] # "NONE" /\ next = "DELIVERED" => o \in settled
            BY <2>4, WaysIntoHand
               DEF Lifecycle!Advance, Lifecycle!Gate, Lifecycle!PaymentMethod
        <3> QED
            BY <3>1, <3>2, <3>3, <3>4
    <2>5. ASSUME NEW o \in Orders, Lifecycle!Contest(o)
          PROVE  Sound'
        <3>1. /\ stage' = [stage EXCEPT ![o] = "CONTESTED"]
              /\ method' = method /\ settled' = settled \ {o}
            BY <2>5 DEF Lifecycle!Contest
        <3>2. stage' \in [Orders -> Lifecycle!OrderStatus \cup {"NONE", "CONTESTED"}]
            BY <3>1
        <3>3. stage'[o] = "CONTESTED" /\ \A p \in Orders \ {o} : stage'[p] = stage[p]
            BY <3>1
        <3> QED
            BY <3>1, <3>2, <3>3 DEF Lifecycle!InHand, Lifecycle!OrderStatus
    <2> QED
        BY <2>1, <2>2, <2>3, <2>4, <2>5 DEF Lifecycle!Next
<1>3. Sound => NoUnpaidWork
    BY DEF NoUnpaidWork
<1> QED
    BY <1>1, <1>2, <1>3, LifecycleRefined, PTL DEF LifecycleContract, Lifecycle!Spec
=============================================================================
