------------------------ MODULE OnlinePayment_proofs -----------------------
(***************************************************************************)
(* Proofs about the online payment of orders, for any number of orders,    *)
(* Razorpay orders, attempts and threads: whatever was read before a call  *)
(* to Razorpay and is stale after it, no payment is settled without cause. *)
(***************************************************************************)
EXTENDS OnlinePayment, TLAPS

-----------------------------------------------------------------------------
(***************************************************************************)
(* The inductive invariant.                                                *)
(***************************************************************************)

\* An attempt belongs to a Razorpay order from the moment it is started.
AttemptsValid ==
    \A a \in Attempts : attempt[a].state = "none" <=> attempt[a].rzp = Null

\* What a request carries is about the order that it is for, and the outcome
\* that it will write is the one that Razorpay has told it.
RequestValid(p) ==
    /\ p.step # "idle" => p.order \in Orders
    /\ p.step = "store" => p.rzp \in RzpOrders /\ receipt[p.rzp] = p.order
    /\ p.step \in {"fetch", "settle"} => p.attempt \in AttemptsFor(p.order)
    /\ p.step = "settle" =>
          \/ p.outcome = "PAID" /\ attempt[p.attempt].state = "captured"
          \/ p.outcome = "FAILED" /\ attempt[p.attempt].state = "failed"

RequestsValid == \A w \in Workers : RequestValid(pay[w])

\* Nobody can pay for a Razorpay order before its checkout has stored it, and
\* each checkout has one of its own.
CheckoutsFresh ==
    /\ \A r \in handed : receipt[r] # Null
    /\ \A w \in Workers : pay[w].step = "store" => pay[w].rzp \notin handed
    /\ \A w, x \in Workers :
          w # x /\ pay[w].step = "store" /\ pay[x].step = "store" => pay[w].rzp # pay[x].rzp
    /\ \A a \in Attempts : attempt[a].rzp # Null => attempt[a].rzp \in handed

\* No request has loaded a payment that was PAID.
SeenUnpaid == \A w \in Workers : pay[w].step # "idle" => pay[w].seen # "PAID"

\* Razorpay reports an outcome when there is one.
AckedFinal == \A a \in acked : attempt[a].state \in {"captured", "failed"}

\* No code gives money back.
NeverRefunded == \A o \in Orders : payments[o].status # "REFUNDED"

IInv ==
    /\ TypeOK
    /\ AttemptsValid
    /\ RequestsValid
    /\ ReceiptsMatch
    /\ SettlementBacked
    /\ CheckoutsFresh
    /\ SeenUnpaid
    /\ AckedFinal
    /\ NeverRefunded

-----------------------------------------------------------------------------
(***************************************************************************)
(* The steps.                                                              *)
(***************************************************************************)
\* Razorpay authorizes, captures or fails an attempt that is not final.
Moved(a, to) ==
    /\ attempt[a].state \in {"created", "authorized"}
    /\ attempt' = [attempt EXCEPT ![a].state = to]
    /\ UNCHANGED <<dataVars, requestVars, receipt, handed, acked>>

LEMMA Steps ==
    ASSUME Next
    PROVE  \/ \E t \in Threads, o \in Orders : LoadForCheckout(t, o)
           \/ \E t \in Threads, r \in RzpOrders : CreateRzpOrder(t, r)
           \/ \E t \in Threads : StoreCheckout(t)
           \/ \E t \in Threads, o \in Orders, a \in Attempts : LoadForVerify(t, o, a)
           \/ \E t \in Threads : FetchPayment(t)
           \/ \E w \in Workers : Settle(w)
           \/ \E w \in Workers : AbortPay(w)
           \/ \E a \in Attempts : LoadForWebhook(a)
           \/ \E a \in Attempts : DropWebhook(a)
           \/ \E a \in Attempts, r \in RzpOrders : StartAttempt(a, r)
           \/ \E a \in Attempts, to \in {"authorized", "captured", "failed"} : Moved(a, to)
           \/ \E o \in Orders, u \in Users, method \in PaymentMethod, amount \in Amounts :
                 PlaceOrder(o, u, method, amount)
<1>1. ASSUME NEW a \in Attempts, AuthorizeAttempt(a) \/ FailAttempt(a) \/ CaptureAttempt(a)
      PROVE  \E to \in {"authorized", "captured", "failed"} : Moved(a, to)
    BY <1>1 DEF AuthorizeAttempt, FailAttempt, CaptureAttempt, AttemptMoves, Moved
<1> QED
    BY <1>1 DEF Next, Serve, Work, Webhook, Razorpay

\* Only Razorpay changes attempts.
LEMMA AttemptFrame ==
    ASSUME Next
    PROVE  \/ UNCHANGED attempt
           \/ \E a \in Attempts, r \in RzpOrders : StartAttempt(a, r)
           \/ \E a \in Attempts, to \in {"authorized", "captured", "failed"} : Moved(a, to)
BY Steps
   DEF LoadForCheckout, CreateRzpOrder, StoreCheckout, LoadForVerify, FetchPayment, Settle,
       AbortPay, LoadForWebhook, DropWebhook, PlaceOrder, razorpayVars, onlineVars

LEMMA WorkersFact == Threads \subseteq Workers /\ EventLoop \in Workers
BY DEF Workers

LEMMA FreeTyped == Free \in PayRequest /\ Free.step = "idle"
BY DEF Free, PayRequest, PayStep

\* The statuses that the code of payments writes.
LEMMA StatusFact == {"PENDING", "PAID", "FAILED"} \subseteq PaymentStatus
BY DEF PaymentStatus

\* A request that has loaded a payment.
LEMMA LoadFact ==
    ASSUME TypeOK, NEW w \in Workers, NEW o \in Orders, NEW r \in PayRequest, Load(w, o, r)
    PROVE  /\ pay' \in [Workers -> PayRequest]
           /\ pay'[w].step = r.step /\ pay'[w].order = o /\ pay'[w].rzp = r.rzp
           /\ pay'[w].attempt = r.attempt /\ pay'[w].outcome = r.outcome
           /\ \A v \in Workers \ {w} : pay'[v] = pay[v]
<1> DEFINE new == [r EXCEPT !.order = o, !.seen = payments[o].status,
                            !.seen_id = rzp[o].payment]
<1>1. payments[o].status \in PaymentStatus \cup {"NONE"} /\ rzp[o].payment \in Attempts \cup {Null}
    BY DEF TypeOK, DataTypeOK, OnlineTypeOK, PaymentRow
<1>2. /\ new \in PayRequest
      /\ new.step = r.step /\ new.order = o /\ new.rzp = r.rzp
      /\ new.attempt = r.attempt /\ new.outcome = r.outcome
    BY <1>1 DEF PayRequest
<1>3. pay' = [pay EXCEPT ![w] = new]
    BY DEF Load
<1> HIDE DEF new
<1> QED
    BY <1>2, <1>3 DEF TypeOK, OnlineTypeOK

\* What a request that goes on carries.
LEMMA GoesOn ==
    ASSUME NEW p \in PayRequest
    PROVE  /\ \A r \in RzpOrders : [p EXCEPT !.step = "store", !.rzp = r] \in PayRequest
           /\ \A outcome \in PaymentStatus :
                 [p EXCEPT !.step = "settle", !.outcome = outcome] \in PayRequest
BY DEF PayRequest, PayStep

LEMMA RespondFact ==
    ASSUME TypeOK, NEW w \in Workers, Respond(w)
    PROVE  /\ pay' \in [Workers -> PayRequest] /\ pay'[w] = Free
           /\ \A v \in Workers \ {w} : pay'[v] = pay[v]
BY FreeTyped DEF Respond, TypeOK, OnlineTypeOK

\* What is so at Razorpay stays so.
LEMMA Monotone ==
    ASSUME TypeOK, AttemptsValid, Next
    PROVE  /\ \A r \in RzpOrders : receipt[r] # Null => receipt'[r] = receipt[r]
           /\ \A a \in Attempts :
                 /\ attempt[a].rzp # Null => attempt'[a].rzp = attempt[a].rzp
                 /\ attempt[a].state \in {"captured", "failed"}
                       => attempt'[a].state = attempt[a].state
<1> USE DEF TypeOK, OnlineTypeOK
<1>1. ASSUME NEW t \in Threads, NEW r \in RzpOrders, CreateRzpOrder(t, r)
      PROVE  \A q \in RzpOrders : receipt[q] # Null => receipt'[q] = receipt[q]
    BY <1>1 DEF CreateRzpOrder
<1>2. ASSUME NEW b \in Attempts, NEW r \in RzpOrders, StartAttempt(b, r), NEW a \in Attempts
      PROVE  /\ attempt[a].rzp # Null => attempt'[a].rzp = attempt[a].rzp
             /\ attempt[a].state \in {"captured", "failed"}
                   => attempt'[a].state = attempt[a].state
    <2>1. CASE a = b
        BY <1>2, <2>1 DEF StartAttempt, AttemptsValid
    <2>2. CASE a # b
        BY <1>2, <2>2 DEF StartAttempt
    <2> QED
        BY <2>1, <2>2
<1>3. ASSUME NEW b \in Attempts, NEW to, Moved(b, to), NEW a \in Attempts
      PROVE  /\ attempt[a].rzp # Null => attempt'[a].rzp = attempt[a].rzp
             /\ attempt[a].state \in {"captured", "failed"}
                   => attempt'[a].state = attempt[a].state
    <2>1. CASE a = b
        BY <1>3, <2>1 DEF Moved
    <2>2. CASE a # b
        BY <1>3, <2>2 DEF Moved
    <2> QED
        BY <2>1, <2>2
<1>4. ASSUME UNCHANGED receipt
      PROVE  \A r \in RzpOrders : receipt[r] # Null => receipt'[r] = receipt[r]
    BY <1>4
<1>5. ASSUME UNCHANGED attempt, NEW a \in Attempts
      PROVE  /\ attempt[a].rzp # Null => attempt'[a].rzp = attempt[a].rzp
             /\ attempt[a].state \in {"captured", "failed"}
                   => attempt'[a].state = attempt[a].state
    BY <1>5
<1> QED
    BY Steps, <1>1, <1>2, <1>3, <1>4, <1>5
       DEF LoadForCheckout, CreateRzpOrder, StoreCheckout, LoadForVerify, FetchPayment, Settle,
           AbortPay, LoadForWebhook, DropWebhook, StartAttempt, Moved, PlaceOrder,
           razorpayVars, onlineVars

LEMMA AttemptsForGrow ==
    ASSUME TypeOK, AttemptsValid, Next, NEW o \in Orders
    PROVE  AttemptsFor(o) \subseteq AttemptsFor(o)'
BY Monotone, OnlineAssumption DEF AttemptsFor, TypeOK, OnlineTypeOK

-----------------------------------------------------------------------------
(***************************************************************************)
(* Types.                                                                  *)
(***************************************************************************)
LEMMA DataStep ==
    ASSUME TypeOK, RequestsValid, Next
    PROVE  DataTypeOK'
<1> USE DEF TypeOK, DataTypeOK
<1>1. ASSUME NEW o \in Orders, NEW status \in PaymentStatus \cup {"NONE"}, NEW seen,
             payments' = [payments EXCEPT ![o].status = NetWrite(@, seen, status)],
             UNCHANGED <<orders, history>>
      PROVE  DataTypeOK'
    BY <1>1 DEF NetWrite, PaymentRow
<1>2. ASSUME NEW t \in Threads, StoreCheckout(t)
      PROVE  DataTypeOK'
    <2>1. pay[t].order \in Orders
        BY <1>2, WorkersFact DEF StoreCheckout, RequestsValid, RequestValid
    <2> QED
        BY <1>1, <1>2, <2>1, StatusFact DEF StoreCheckout
<1>3. ASSUME NEW w \in Workers, Settle(w)
      PROVE  DataTypeOK'
    <2>1. pay[w].order \in Orders /\ pay[w].outcome \in PaymentStatus
        BY <1>3, StatusFact DEF Settle, RequestsValid, RequestValid
    <2> QED
        BY <1>1, <1>3, <2>1 DEF Settle, UpdatePayment
<1>4. ASSUME NEW o \in Orders, NEW u \in Users, NEW method \in PaymentMethod,
             NEW amount \in Amounts, PlaceOrder(o, u, method, amount)
      PROVE  DataTypeOK'
    <2>1. NewOrder(u) \in OrderRow
        BY DEF NewOrder, NoOrder, OrderRow, OrderStatus
    <2>2. [status |-> "PENDING_PICKUP", by |-> u] \in HistoryRow
        BY DEF HistoryRow, OrderStatus
    <2>3. FirstHistory(u) \in Seq(HistoryRow)
        BY <2>2 DEF FirstHistory
    <2>4. [method |-> method, status |-> "PENDING", amount |-> amount] \in PaymentRow
        BY StatusFact, DataAssumption DEF PaymentRow
    <2> QED
        BY <1>4, <2>1, <2>3, <2>4 DEF PlaceOrder, CreateOrder
<1>5. ASSUME UNCHANGED dataVars PROVE DataTypeOK'
    BY <1>5 DEF dataVars
<1> QED
    BY Steps, <1>2, <1>3, <1>4, <1>5
       DEF LoadForCheckout, CreateRzpOrder, LoadForVerify, FetchPayment, AbortPay,
           LoadForWebhook, DropWebhook, StartAttempt, Moved

LEMMA RequestStep ==
    ASSUME TypeOK, RequestsValid, Next
    PROVE  pay' \in [Workers -> PayRequest]
<1> USE WorkersFact DEF TypeOK, OnlineTypeOK
<1>1. ASSUME NEW t \in Threads, NEW o \in Orders, LoadForCheckout(t, o)
      PROVE  pay' \in [Workers -> PayRequest]
    <2>1. [Free EXCEPT !.step = "create"] \in PayRequest
        BY DEF Free, PayRequest, PayStep
    <2> QED
        BY <1>1, <2>1, LoadFact DEF LoadForCheckout
<1>2. ASSUME NEW t \in Threads, NEW r \in RzpOrders, CreateRzpOrder(t, r)
      PROVE  pay' \in [Workers -> PayRequest]
    <2>1. [pay[t] EXCEPT !.step = "store", !.rzp = r] \in PayRequest
        BY GoesOn
    <2>2. pay' = [pay EXCEPT ![t] = [pay[t] EXCEPT !.step = "store", !.rzp = r]]
        BY <1>2 DEF CreateRzpOrder
    <2> QED
        BY <2>1, <2>2
<1>3. ASSUME NEW t \in Threads, NEW o \in Orders, NEW a \in Attempts, LoadForVerify(t, o, a)
      PROVE  pay' \in [Workers -> PayRequest]
    <2>1. [Free EXCEPT !.step = "fetch", !.attempt = a] \in PayRequest
        BY DEF Free, PayRequest, PayStep
    <2> QED
        BY <1>3, <2>1, LoadFact DEF LoadForVerify
<1>4. ASSUME NEW t \in Threads, FetchPayment(t)
      PROVE  pay' \in [Workers -> PayRequest]
    <2> DEFINE outcome == FetchOutcome(attempt[pay[t].attempt].state)
    <2>1. outcome \in {"PAID", "FAILED", "NONE"}
        BY DEF FetchOutcome
    <2>2. outcome # "NONE" =>
              [pay[t] EXCEPT !.step = "settle", !.outcome = outcome] \in PayRequest
        BY <2>1, StatusFact, GoesOn
    <2>3. \/ Respond(t)
          \/ /\ outcome # "NONE"
             /\ pay' = [pay EXCEPT ![t] = [pay[t] EXCEPT !.step = "settle", !.outcome = outcome]]
        BY <1>4 DEF FetchPayment
    <2> HIDE DEF outcome
    <2> QED
        BY <2>2, <2>3, RespondFact
<1>5. ASSUME NEW a \in Attempts, LoadForWebhook(a)
      PROVE  pay' \in [Workers -> PayRequest]
    <2> DEFINE r == [Free EXCEPT !.step = "settle", !.webhook = TRUE, !.attempt = a,
                                 !.outcome = WebhookOutcome(attempt[a].state)]
    <2>1. WebhookOutcome(attempt[a].state) \in PaymentStatus
        BY StatusFact DEF WebhookOutcome
    <2>2. r \in PayRequest
        BY <2>1 DEF Free, PayRequest, PayStep
    <2>3. PICK o \in Orders : Load(EventLoop, o, r)
        BY <1>5 DEF LoadForWebhook, PaymentsOf
    <2> HIDE DEF r
    <2> QED
        BY <2>2, <2>3, LoadFact
<1>6. ASSUME NEW w \in Workers, Respond(w)
      PROVE  pay' \in [Workers -> PayRequest]
    BY <1>6, RespondFact
<1>7. ASSUME UNCHANGED pay
      PROVE  pay' \in [Workers -> PayRequest]
    BY <1>7
<1> QED
    BY Steps, <1>1, <1>2, <1>3, <1>4, <1>5, <1>6, <1>7
       DEF StoreCheckout, Settle, AbortPay, DropWebhook, StartAttempt, Moved, PlaceOrder,
           requestVars, onlineVars

LEMMA TypeStep ==
    ASSUME TypeOK, RequestsValid, Next
    PROVE  TypeOK'
<1> USE WorkersFact DEF TypeOK, OnlineTypeOK
<1> DEFINE Columns == [order : RzpOrders \cup {Null}, payment : Attempts \cup {Null}]
<1>1. rzp' \in [Orders -> Columns]
    <2>1. ASSUME NEW t \in Threads, StoreCheckout(t)
          PROVE  rzp' \in [Orders -> Columns]
        <3>1. pay[t].order \in Orders /\ pay[t].rzp \in RzpOrders
            BY <2>1 DEF StoreCheckout, RequestsValid, RequestValid
        <3>2. [order |-> pay[t].rzp,
               payment |-> NetWrite(rzp[pay[t].order].payment, pay[t].seen_id, Null)] \in Columns
            BY <3>1 DEF NetWrite
        <3> QED
            BY <2>1, <3>1, <3>2 DEF StoreCheckout
    <2>2. ASSUME NEW w \in Workers, Settle(w)
          PROVE  rzp' \in [Orders -> Columns]
        <3>1. pay[w].order \in Orders /\ pay[w].attempt \in Attempts
            BY <2>2 DEF Settle, RequestsValid, RequestValid, AttemptsFor
        <3>2. NetWrite(rzp[pay[w].order].payment, pay[w].seen_id, pay[w].attempt)
                  \in Attempts \cup {Null}
            BY <3>1 DEF NetWrite
        <3> QED
            BY <2>2, <3>1, <3>2 DEF Settle, UpdatePayment
    <2>3. ASSUME UNCHANGED rzp PROVE rzp' \in [Orders -> Columns]
        BY <2>3
    <2> QED
        BY Steps, <2>1, <2>2, <2>3
           DEF LoadForCheckout, CreateRzpOrder, LoadForVerify, FetchPayment, AbortPay,
               LoadForWebhook, DropWebhook, StartAttempt, Moved, PlaceOrder, requestVars,
               onlineVars
<1>2. receipt' \in [RzpOrders -> Orders \cup {Null}]
    <2>1. ASSUME NEW t \in Threads, NEW r \in RzpOrders, CreateRzpOrder(t, r)
          PROVE  receipt' \in [RzpOrders -> Orders \cup {Null}]
        BY <2>1 DEF CreateRzpOrder, RequestsValid, RequestValid
    <2> QED
        BY Steps, <2>1
           DEF LoadForCheckout, StoreCheckout, LoadForVerify, FetchPayment, Settle, AbortPay,
               LoadForWebhook, DropWebhook, StartAttempt, Moved, PlaceOrder,
               razorpayVars, onlineVars
<1>3. handed' \subseteq RzpOrders
    <2>1. ASSUME NEW t \in Threads, StoreCheckout(t)
          PROVE  handed' \subseteq RzpOrders
        BY <2>1 DEF StoreCheckout, RequestsValid, RequestValid
    <2> QED
        BY Steps, <2>1
           DEF LoadForCheckout, CreateRzpOrder, LoadForVerify, FetchPayment, Settle, AbortPay,
               LoadForWebhook, DropWebhook, StartAttempt, Moved, PlaceOrder, razorpayVars,
               onlineVars
<1>4. attempt' \in [Attempts -> [rzp : RzpOrders \cup {Null}, state : AttemptState]]
    <2>1. ASSUME NEW a \in Attempts, NEW r \in RzpOrders, StartAttempt(a, r)
          PROVE  attempt' \in [Attempts -> [rzp : RzpOrders \cup {Null}, state : AttemptState]]
        BY <2>1 DEF StartAttempt, AttemptState
    <2>2. ASSUME NEW a \in Attempts, NEW to \in {"authorized", "captured", "failed"}, Moved(a, to)
          PROVE  attempt' \in [Attempts -> [rzp : RzpOrders \cup {Null}, state : AttemptState]]
        BY <2>2 DEF Moved, AttemptState
    <2> QED
        BY AttemptFrame, <2>1, <2>2
<1>5. acked' \subseteq Attempts
    <2>1. ASSUME NEW w \in Workers, Settle(w)
          PROVE  acked' \subseteq Attempts
        BY <2>1 DEF Settle, RequestsValid, RequestValid, AttemptsFor
    <2> QED
        BY Steps, <2>1
           DEF LoadForCheckout, CreateRzpOrder, StoreCheckout, LoadForVerify, FetchPayment,
               AbortPay, LoadForWebhook, DropWebhook, StartAttempt, Moved, PlaceOrder,
               razorpayVars, onlineVars
<1> QED
    BY <1>1, <1>2, <1>3, <1>4, <1>5, DataStep, RequestStep

LEMMA AttemptsStep ==
    ASSUME TypeOK, AttemptsValid, Next
    PROVE  AttemptsValid'
<1> USE OnlineAssumption DEF TypeOK, OnlineTypeOK
<1>1. ASSUME NEW a \in Attempts, NEW r \in RzpOrders, StartAttempt(a, r)
      PROVE  AttemptsValid'
    BY <1>1 DEF StartAttempt, AttemptsValid
<1>2. ASSUME NEW a \in Attempts, NEW to \in {"authorized", "captured", "failed"},
             Moved(a, to)
      PROVE  AttemptsValid'
    BY <1>2 DEF Moved, AttemptsValid
<1>3. ASSUME UNCHANGED attempt PROVE AttemptsValid'
    BY <1>3 DEF AttemptsValid
<1> QED
    BY AttemptFrame, <1>1, <1>2, <1>3

-----------------------------------------------------------------------------
(***************************************************************************)
(* What the requests carry.                                                *)
(***************************************************************************)
LEMMA RequestsStep ==
    ASSUME TypeOK, AttemptsValid, RequestsValid, ReceiptsMatch, Next
    PROVE  RequestsValid'
<1> USE WorkersFact, OnlineAssumption DEF TypeOK, OnlineTypeOK
<1> SUFFICES ASSUME NEW w \in Workers
             PROVE  RequestValid(pay[w])'
    BY DEF RequestsValid
<1>1. ASSUME pay'[w] = pay[w]
      PROVE  RequestValid(pay[w])'
    <2>1. RequestValid(pay[w])
        BY DEF RequestsValid
    <2>2. pay[w].step = "store" => receipt'[pay[w].rzp] = receipt[pay[w].rzp]
        BY <2>1, Monotone DEF RequestValid
    <2>3. pay[w].step \in {"fetch", "settle"} => pay'[w].attempt \in AttemptsFor(pay[w].order)'
        BY <1>1, <2>1, AttemptsForGrow DEF RequestValid
    <2>4. pay[w].step = "settle" => attempt'[pay[w].attempt].state = attempt[pay[w].attempt].state
        BY <2>1, Monotone DEF RequestValid, AttemptsFor
    <2> QED
        BY <1>1, <2>1, <2>2, <2>3, <2>4 DEF RequestValid
<1>2. ASSUME pay'[w] = Free PROVE RequestValid(pay[w])'
    BY <1>2, FreeTyped DEF RequestValid
<1>3. ASSUME NEW v \in Workers, Respond(v) PROVE RequestValid(pay[w])'
    BY <1>1, <1>2, <1>3, RespondFact
<1>4. ASSUME UNCHANGED pay PROVE RequestValid(pay[w])'
    BY <1>1, <1>4
<1>5. ASSUME NEW t \in Threads, NEW o \in Orders, LoadForCheckout(t, o)
      PROVE  RequestValid(pay[w])'
    <2> DEFINE r == [Free EXCEPT !.step = "create"]
    <2>1. r \in PayRequest /\ r.step = "create"
        BY DEF Free, PayRequest, PayStep
    <2>load. Load(t, o, r)
        BY <1>5 DEF LoadForCheckout
    <2> HIDE DEF r
    <2>2. /\ pay'[t].step = "create" /\ pay'[t].order = o
          /\ \A v \in Workers \ {t} : pay'[v] = pay[v]
        BY <2>1, <2>load, LoadFact
    <2>3. CASE w = t
        BY <2>2, <2>3 DEF RequestValid
    <2>4. CASE w # t
        BY <1>1, <2>2, <2>4
    <2> QED
        BY <2>3, <2>4
<1>6. ASSUME NEW t \in Threads, NEW r \in RzpOrders, CreateRzpOrder(t, r)
      PROVE  RequestValid(pay[w])'
    <2>1. pay[t].order \in Orders
        BY <1>6 DEF CreateRzpOrder, RequestsValid, RequestValid
    <2>2. /\ pay'[t] = [pay[t] EXCEPT !.step = "store", !.rzp = r]
          /\ \A v \in Workers \ {t} : pay'[v] = pay[v]
        BY <1>6 DEF CreateRzpOrder
    <2>3. pay'[t].step = "store" /\ pay'[t].rzp = r /\ pay'[t].order = pay[t].order
        BY <2>2 DEF PayRequest
    <2>4. receipt'[r] = pay[t].order
        BY <1>6 DEF CreateRzpOrder
    <2>5. CASE w = t
        BY <2>1, <2>3, <2>4, <2>5 DEF RequestValid
    <2>6. CASE w # t
        BY <1>1, <2>2, <2>6
    <2> QED
        BY <2>5, <2>6
\* The attempt is one of the Razorpay order that the payment has on record.
<1>7. ASSUME NEW t \in Threads, NEW o \in Orders, NEW a \in Attempts, LoadForVerify(t, o, a)
      PROVE  RequestValid(pay[w])'
    <2> DEFINE r == [Free EXCEPT !.step = "fetch", !.attempt = a]
    <2>1. r \in PayRequest /\ r.step = "fetch" /\ r.attempt = a
        BY DEF Free, PayRequest, PayStep
    <2>load. Load(t, o, r)
        BY <1>7 DEF LoadForVerify
    <2> HIDE DEF r
    <2>2. /\ pay'[t].step = "fetch" /\ pay'[t].order = o /\ pay'[t].attempt = a
          /\ \A v \in Workers \ {t} : pay'[v] = pay[v]
        BY <2>1, <2>load, LoadFact
    <2>3. rzp[o].order = attempt[a].rzp /\ attempt[a].rzp # Null
        BY <1>7 DEF LoadForVerify, Presentable, AttemptsValid
    <2>4. a \in AttemptsFor(o)
        BY <2>3 DEF AttemptsFor, ReceiptsMatch
    <2>5. a \in AttemptsFor(o)'
        BY <2>4, AttemptsForGrow
    <2>6. CASE w = t
        BY <2>2, <2>5, <2>6 DEF RequestValid
    <2>7. CASE w # t
        BY <1>1, <2>2, <2>7
    <2> QED
        BY <2>6, <2>7
<1>8. ASSUME NEW t \in Threads, FetchPayment(t)
      PROVE  RequestValid(pay[w])'
    <2> DEFINE outcome == FetchOutcome(attempt[pay[t].attempt].state)
    <2>1. \/ outcome = "PAID" /\ attempt[pay[t].attempt].state = "captured"
          \/ outcome = "FAILED" /\ attempt[pay[t].attempt].state = "failed"
          \/ outcome = "NONE"
        BY DEF FetchOutcome
    <2>2. pay[t].order \in Orders /\ pay[t].attempt \in AttemptsFor(pay[t].order)
        BY <1>8 DEF FetchPayment, RequestsValid, RequestValid
    <2>3. CASE outcome = "NONE"
        BY <1>3, <1>8, <2>3 DEF FetchPayment
    <2>4. CASE outcome # "NONE"
        <3>1. /\ pay'[t] = [pay[t] EXCEPT !.step = "settle", !.outcome = outcome]
              /\ \A v \in Workers \ {t} : pay'[v] = pay[v]
              /\ attempt' = attempt /\ receipt' = receipt
            BY <1>8, <2>4 DEF FetchPayment, razorpayVars
        <3>2. /\ pay'[t].step = "settle" /\ pay'[t].outcome = outcome
              /\ pay'[t].order = pay[t].order /\ pay'[t].attempt = pay[t].attempt
            BY <3>1 DEF PayRequest
        <3> HIDE DEF outcome
        <3>3. pay'[t].attempt \in AttemptsFor(pay[t].order)'
            BY <2>2, <3>2, AttemptsForGrow
        <3>4. CASE w = t
            BY <2>1, <2>2, <2>4, <3>1, <3>2, <3>3, <3>4 DEF RequestValid
        <3>5. CASE w # t
            BY <1>1, <3>1, <3>5
        <3> QED
            BY <3>4, <3>5
    <2> QED
        BY <2>3, <2>4
\* The payment is the one that has the Razorpay order of the attempt.
<1>9. ASSUME NEW a \in Attempts, LoadForWebhook(a)
      PROVE  RequestValid(pay[w])'
    <2> DEFINE outcome == WebhookOutcome(attempt[a].state)
               r == [Free EXCEPT !.step = "settle", !.webhook = TRUE, !.attempt = a,
                                 !.outcome = outcome]
    <2>1. \/ outcome = "PAID" /\ attempt[a].state = "captured"
          \/ outcome = "FAILED" /\ attempt[a].state = "failed"
        BY <1>9 DEF LoadForWebhook, WebhookOutcome
    <2>2. /\ r \in PayRequest /\ r.step = "settle" /\ r.attempt = a /\ r.outcome = outcome
        BY <2>1, StatusFact DEF Free, PayRequest, PayStep
    <2>3. PICK o \in Orders : Load(EventLoop, o, r) /\ rzp[o].order = attempt[a].rzp
        BY <1>9 DEF LoadForWebhook, PaymentsOf
    <2>4. attempt[a].rzp # Null
        BY <1>9 DEF LoadForWebhook, AttemptsValid
    <2>5. a \in AttemptsFor(o)
        BY <2>3, <2>4 DEF AttemptsFor, ReceiptsMatch
    <2> HIDE DEF r, outcome
    <2>6. /\ pay'[EventLoop].step = "settle" /\ pay'[EventLoop].order = o
          /\ pay'[EventLoop].attempt = a /\ pay'[EventLoop].outcome = outcome
          /\ \A v \in Workers \ {EventLoop} : pay'[v] = pay[v]
        BY <2>2, <2>3, LoadFact
    <2>7. a \in AttemptsFor(o)' /\ attempt' = attempt
        BY <1>9, <2>5, AttemptsForGrow DEF LoadForWebhook, razorpayVars
    <2>8. CASE w = EventLoop
        BY <2>1, <2>6, <2>7, <2>8 DEF RequestValid
    <2>9. CASE w # EventLoop
        BY <1>1, <2>6, <2>9
    <2> QED
        BY <2>8, <2>9
<1> QED
    BY Steps, <1>3, <1>4, <1>5, <1>6, <1>7, <1>8, <1>9
       DEF StoreCheckout, Settle, AbortPay, DropWebhook, StartAttempt, Moved, PlaceOrder,
           requestVars, onlineVars

-----------------------------------------------------------------------------
(***************************************************************************)
(* What the payments say.                                                  *)
(***************************************************************************)
LEMMA ReceiptsStep ==
    ASSUME TypeOK, AttemptsValid, RequestsValid, ReceiptsMatch, Next
    PROVE  ReceiptsMatch'
<1> USE WorkersFact, OnlineAssumption DEF TypeOK, OnlineTypeOK
<1> SUFFICES ASSUME NEW o \in Orders
             PROVE  /\ rzp'[o].order # Null => receipt'[rzp'[o].order] = o
                    /\ rzp'[o].payment # Null => rzp'[o].payment \in AttemptsFor(o)'
    BY DEF ReceiptsMatch
<1>1. ASSUME \/ rzp'[o].order = rzp[o].order
             \/ rzp'[o].order \in RzpOrders /\ receipt[rzp'[o].order] = o,
             \/ rzp'[o].payment = rzp[o].payment
             \/ rzp'[o].payment = Null
             \/ rzp'[o].payment \in AttemptsFor(o)
      PROVE  /\ rzp'[o].order # Null => receipt'[rzp'[o].order] = o
             /\ rzp'[o].payment # Null => rzp'[o].payment \in AttemptsFor(o)'
    <2>1. rzp'[o].order # Null => rzp'[o].order \in RzpOrders /\ receipt[rzp'[o].order] = o
        BY <1>1 DEF ReceiptsMatch
    <2>2. rzp'[o].payment # Null => rzp'[o].payment \in AttemptsFor(o)
        BY <1>1 DEF ReceiptsMatch
    <2> QED
        BY <2>1, <2>2, Monotone, AttemptsForGrow
<1>2. ASSUME NEW t \in Threads, StoreCheckout(t)
      PROVE  /\ \/ rzp'[o].order = rzp[o].order
                \/ rzp'[o].order \in RzpOrders /\ receipt[rzp'[o].order] = o
             /\ rzp'[o].payment = rzp[o].payment \/ rzp'[o].payment = Null
    <2>1. pay[t].order \in Orders /\ pay[t].rzp \in RzpOrders /\ receipt[pay[t].rzp] = pay[t].order
        BY <1>2 DEF StoreCheckout, RequestsValid, RequestValid
    <2>2. CASE o = pay[t].order
        BY <1>2, <2>1, <2>2 DEF StoreCheckout, NetWrite
    <2>3. CASE o # pay[t].order
        BY <1>2, <2>1, <2>3 DEF StoreCheckout
    <2> QED
        BY <2>2, <2>3
<1>3. ASSUME NEW w \in Workers, Settle(w)
      PROVE  /\ rzp'[o].order = rzp[o].order
             /\ rzp'[o].payment = rzp[o].payment \/ rzp'[o].payment \in AttemptsFor(o)
    <2>1. pay[w].order \in Orders /\ pay[w].attempt \in AttemptsFor(pay[w].order)
        BY <1>3 DEF Settle, RequestsValid, RequestValid
    <2>2. CASE o = pay[w].order
        BY <1>3, <2>1, <2>2 DEF Settle, UpdatePayment, NetWrite
    <2>3. CASE o # pay[w].order
        BY <1>3, <2>1, <2>3 DEF Settle, UpdatePayment
    <2> QED
        BY <2>2, <2>3
<1>4. ASSUME UNCHANGED rzp
      PROVE  /\ rzp'[o].order # Null => receipt'[rzp'[o].order] = o
             /\ rzp'[o].payment # Null => rzp'[o].payment \in AttemptsFor(o)'
    BY <1>1, <1>4
<1> QED
    BY Steps, <1>1, <1>2, <1>3, <1>4
       DEF LoadForCheckout, CreateRzpOrder, LoadForVerify, FetchPayment, AbortPay,
           LoadForWebhook, DropWebhook, StartAttempt, Moved, PlaceOrder, requestVars,
           onlineVars

LEMMA SettlementStep ==
    ASSUME TypeOK, AttemptsValid, RequestsValid, SettlementBacked, Next
    PROVE  SettlementBacked'
<1> USE WorkersFact DEF TypeOK, DataTypeOK
<1> SUFFICES ASSUME NEW o \in Orders, payments'[o].method = "RAZORPAY"
             PROVE  /\ payments'[o].status = "PAID" => CapturedFor(o)'
                    /\ payments'[o].status = "FAILED" =>
                          \E a \in AttemptsFor(o)' : attempt'[a].state = "failed"
    BY DEF SettlementBacked
<1>1. /\ CapturedFor(o) => CapturedFor(o)'
      /\ (\E a \in AttemptsFor(o) : attempt[a].state = "failed")
            => \E a \in AttemptsFor(o)' : attempt'[a].state = "failed"
    BY Monotone, AttemptsForGrow DEF CapturedFor, AttemptsFor
<1>2. ASSUME payments[o].method = "RAZORPAY", payments'[o].status = payments[o].status
      PROVE  /\ payments'[o].status = "PAID" => CapturedFor(o)'
             /\ payments'[o].status = "FAILED" =>
                   \E a \in AttemptsFor(o)' : attempt'[a].state = "failed"
    BY <1>1, <1>2 DEF SettlementBacked
<1>3. ASSUME NEW p \in Orders, NEW status, NEW seen,
             payments' = [payments EXCEPT ![p].status = NetWrite(@, seen, status)]
      PROVE  /\ payments[o].method = "RAZORPAY"
             /\ \/ payments'[o].status = payments[o].status
                \/ p = o /\ payments'[o].status = status
    BY <1>3 DEF NetWrite, PaymentRow
<1>4. ASSUME NEW t \in Threads, StoreCheckout(t)
      PROVE  /\ payments'[o].status = "PAID" => CapturedFor(o)'
             /\ payments'[o].status = "FAILED" =>
                   \E a \in AttemptsFor(o)' : attempt'[a].state = "failed"
    <2>1. pay[t].order \in Orders
        BY <1>4 DEF StoreCheckout, RequestsValid, RequestValid
    <2>2. payments' = [payments EXCEPT ![pay[t].order].status =
                           NetWrite(@, pay[t].seen, "PENDING")]
        BY <1>4 DEF StoreCheckout
    <2>3. /\ payments[o].method = "RAZORPAY"
          /\ payments'[o].status = payments[o].status \/ payments'[o].status = "PENDING"
        BY <1>3, <2>1, <2>2
    <2> QED
        BY <1>2, <2>3
\* The outcome that a request writes is backed by the attempt it carries.
<1>5. ASSUME NEW w \in Workers, Settle(w)
      PROVE  /\ payments'[o].status = "PAID" => CapturedFor(o)'
             /\ payments'[o].status = "FAILED" =>
                   \E a \in AttemptsFor(o)' : attempt'[a].state = "failed"
    <2>1. /\ pay[w].order \in Orders /\ pay[w].attempt \in AttemptsFor(pay[w].order)
          /\ \/ pay[w].outcome = "PAID" /\ attempt[pay[w].attempt].state = "captured"
             \/ pay[w].outcome = "FAILED" /\ attempt[pay[w].attempt].state = "failed"
        BY <1>5 DEF Settle, RequestsValid, RequestValid
    <2>2. /\ payments[o].method = "RAZORPAY"
          /\ \/ payments'[o].status = payments[o].status
             \/ pay[w].order = o /\ payments'[o].status = pay[w].outcome
        BY <1>3, <1>5, <2>1 DEF Settle, UpdatePayment
    <2>3. CASE payments'[o].status = payments[o].status
        BY <1>2, <2>2, <2>3
    <2>4. CASE pay[w].order = o /\ payments'[o].status = pay[w].outcome
        BY <1>1, <2>1, <2>4 DEF CapturedFor
    <2> QED
        BY <2>2, <2>3, <2>4
<1>6. ASSUME NEW p \in Orders, NEW u, NEW method, NEW amount, PlaceOrder(p, u, method, amount)
      PROVE  /\ payments'[o].status = "PAID" => CapturedFor(o)'
             /\ payments'[o].status = "FAILED" =>
                   \E a \in AttemptsFor(o)' : attempt'[a].state = "failed"
    <2>1. CASE p = o
        BY <1>6, <2>1 DEF PlaceOrder, CreateOrder
    <2>2. CASE p # o
        BY <1>2, <1>6, <2>2 DEF PlaceOrder, CreateOrder
    <2> QED
        BY <2>1, <2>2
<1>7. ASSUME UNCHANGED dataVars
      PROVE  /\ payments'[o].status = "PAID" => CapturedFor(o)'
             /\ payments'[o].status = "FAILED" =>
                   \E a \in AttemptsFor(o)' : attempt'[a].state = "failed"
    BY <1>2, <1>7 DEF dataVars
<1> QED
    BY Steps, <1>4, <1>5, <1>6, <1>7
       DEF LoadForCheckout, CreateRzpOrder, LoadForVerify, FetchPayment, AbortPay,
           LoadForWebhook, DropWebhook, StartAttempt, Moved

-----------------------------------------------------------------------------
(***************************************************************************)
(* What a checkout creates, what a request has seen, and what Razorpay has *)
(* been told.                                                              *)
(***************************************************************************)

\* A request in progress after a step has gone on, or has just loaded a
\* payment that was not PAID.
LEMMA SeenOfStep ==
    ASSUME TypeOK, Next, NEW w \in Workers, pay'[w].step # "idle"
    PROVE  \/ pay[w].step # "idle" /\ pay'[w].seen = pay[w].seen
           \/ pay'[w].seen # "PAID"
<1> USE WorkersFact
<1> DEFINE Good == \/ pay[w].step # "idle" /\ pay'[w].seen = pay[w].seen
                   \/ pay'[w].seen # "PAID"
<1>pay. pay \in [Workers -> PayRequest]
    BY DEF TypeOK, OnlineTypeOK
<1>1. ASSUME UNCHANGED pay PROVE Good
    BY <1>1
<1>2. ASSUME NEW v \in Workers, Respond(v) PROVE Good
    BY <1>2, <1>pay, RespondFact, FreeTyped
<1>3. ASSUME NEW v \in Workers, NEW o \in Orders, NEW r \in PayRequest, Load(v, o, r),
             payments[o].status # "PAID"
      PROVE  Good
    <2> DEFINE q == [r EXCEPT !.order = o, !.seen = payments[o].status,
                              !.seen_id = rzp[o].payment]
    <2>1. q.seen # "PAID"
        BY <1>3 DEF PayRequest
    <2>2. pay' = [pay EXCEPT ![v] = q]
        BY <1>3 DEF Load
    <2> HIDE DEF q
    <2> QED
        BY <1>pay, <2>1, <2>2
<1>4. ASSUME NEW t \in Threads, NEW r \in RzpOrders, CreateRzpOrder(t, r) PROVE Good
    <2> DEFINE q == [pay[t] EXCEPT !.step = "store", !.rzp = r]
    <2>1. q.seen = pay[t].seen /\ pay[t].step # "idle"
        BY <1>4, <1>pay DEF CreateRzpOrder, PayRequest
    <2>2. pay' = [pay EXCEPT ![t] = q]
        BY <1>4 DEF CreateRzpOrder
    <2> HIDE DEF q
    <2> QED
        BY <1>pay, <2>1, <2>2
<1>5. ASSUME NEW t \in Threads, FetchPayment(t) PROVE Good
    <2> DEFINE outcome == FetchOutcome(attempt[pay[t].attempt].state)
               q == [pay[t] EXCEPT !.step = "settle", !.outcome = outcome]
    <2>1. q.seen = pay[t].seen /\ pay[t].step # "idle"
        BY <1>5, <1>pay DEF FetchPayment, PayRequest
    <2>2. Respond(t) \/ pay' = [pay EXCEPT ![t] = q]
        BY <1>5 DEF FetchPayment
    <2> HIDE DEF q
    <2> QED
        BY <1>2, <1>pay, <2>1, <2>2
<1>6. ASSUME NEW t \in Threads, NEW o \in Orders, LoadForCheckout(t, o) PROVE Good
    <2>1. [Free EXCEPT !.step = "create"] \in PayRequest
        BY DEF Free, PayRequest, PayStep
    <2> QED
        BY <1>3, <1>6, <2>1 DEF LoadForCheckout, Payable
<1>7. ASSUME NEW t \in Threads, NEW o \in Orders, NEW a \in Attempts, LoadForVerify(t, o, a)
      PROVE  Good
    <2>1. [Free EXCEPT !.step = "fetch", !.attempt = a] \in PayRequest
        BY DEF Free, PayRequest, PayStep
    <2> QED
        BY <1>3, <1>7, <2>1 DEF LoadForVerify, Payable
<1>8. ASSUME NEW a \in Attempts, LoadForWebhook(a) PROVE Good
    <2> DEFINE r == [Free EXCEPT !.step = "settle", !.webhook = TRUE, !.attempt = a,
                                 !.outcome = WebhookOutcome(attempt[a].state)]
    <2>1. WebhookOutcome(attempt[a].state) \in PaymentStatus
        BY StatusFact DEF WebhookOutcome
    <2>2. r \in PayRequest
        BY <2>1 DEF Free, PayRequest, PayStep
    <2>3. PICK o \in Orders : Load(EventLoop, o, r) /\ payments[o].status # "PAID"
        BY <1>8 DEF LoadForWebhook, PaymentsOf, Applies
    <2> HIDE DEF r
    <2> QED
        BY <1>3, <2>2, <2>3
<1> QED
    BY Steps, <1>1, <1>2, <1>4, <1>5, <1>6, <1>7, <1>8
       DEF StoreCheckout, Settle, AbortPay, DropWebhook, StartAttempt, Moved, PlaceOrder,
           requestVars, onlineVars

LEMMA SeenStep ==
    ASSUME TypeOK, SeenUnpaid, Next
    PROVE  SeenUnpaid'
BY SeenOfStep DEF SeenUnpaid, Workers

\* A checkout that is about to store a Razorpay order was so already, or has
\* just created it.
LEMMA StoresOfStep ==
    ASSUME TypeOK, Next, NEW w \in Workers, pay'[w].step = "store"
    PROVE  \/ pay[w].step = "store" /\ pay'[w].rzp = pay[w].rzp
           \/ w \in Threads /\ CreateRzpOrder(w, pay'[w].rzp) /\ pay'[w].rzp \in RzpOrders
<1> USE WorkersFact
<1> DEFINE Good == \/ pay[w].step = "store" /\ pay'[w].rzp = pay[w].rzp
                   \/ w \in Threads /\ CreateRzpOrder(w, pay'[w].rzp) /\ pay'[w].rzp \in RzpOrders
<1>pay. pay \in [Workers -> PayRequest]
    BY DEF TypeOK, OnlineTypeOK
<1>1. ASSUME UNCHANGED pay PROVE Good
    BY <1>1
<1>2. ASSUME NEW v \in Workers, NEW q, q.step # "store", pay' = [pay EXCEPT ![v] = q]
      PROVE  Good
    BY <1>2, <1>pay
<1>3. ASSUME NEW v \in Workers, Respond(v) PROVE Good
    BY <1>2, <1>3 DEF Respond, Free
<1>4. ASSUME NEW v \in Workers, NEW o \in Orders, NEW r \in PayRequest, Load(v, o, r),
             r.step # "store"
      PROVE  Good
    <2> DEFINE q == [r EXCEPT !.order = o, !.seen = payments[o].status,
                              !.seen_id = rzp[o].payment]
    <2>1. q.step # "store"
        BY <1>4 DEF PayRequest
    <2>2. pay' = [pay EXCEPT ![v] = q]
        BY <1>4 DEF Load
    <2> HIDE DEF q
    <2> QED
        BY <1>2, <2>1, <2>2
<1>5. ASSUME NEW t \in Threads, NEW r \in RzpOrders, CreateRzpOrder(t, r) PROVE Good
    <2> DEFINE q == [pay[t] EXCEPT !.step = "store", !.rzp = r]
    <2>1. q.rzp = r
        BY <1>pay DEF PayRequest
    <2>2. pay' = [pay EXCEPT ![t] = q]
        BY <1>5 DEF CreateRzpOrder
    <2> HIDE DEF q
    <2> QED
        BY <1>5, <1>pay, <2>1, <2>2
<1>6. ASSUME NEW t \in Threads, FetchPayment(t) PROVE Good
    <2> DEFINE outcome == FetchOutcome(attempt[pay[t].attempt].state)
               q == [pay[t] EXCEPT !.step = "settle", !.outcome = outcome]
    <2>1. q.step # "store"
        BY <1>pay DEF PayRequest
    <2>2. Respond(t) \/ pay' = [pay EXCEPT ![t] = q]
        BY <1>6 DEF FetchPayment
    <2> HIDE DEF q
    <2> QED
        BY <1>2, <1>3, <2>1, <2>2
<1>7. ASSUME NEW t \in Threads, NEW o \in Orders, LoadForCheckout(t, o) PROVE Good
    <2>1. /\ [Free EXCEPT !.step = "create"] \in PayRequest
          /\ [Free EXCEPT !.step = "create"].step # "store"
        BY DEF Free, PayRequest, PayStep
    <2> QED
        BY <1>4, <1>7, <2>1 DEF LoadForCheckout
<1>8. ASSUME NEW t \in Threads, NEW o \in Orders, NEW a \in Attempts, LoadForVerify(t, o, a)
      PROVE  Good
    <2>1. /\ [Free EXCEPT !.step = "fetch", !.attempt = a] \in PayRequest
          /\ [Free EXCEPT !.step = "fetch", !.attempt = a].step # "store"
        BY DEF Free, PayRequest, PayStep
    <2> QED
        BY <1>4, <1>8, <2>1 DEF LoadForVerify
<1>9. ASSUME NEW a \in Attempts, LoadForWebhook(a) PROVE Good
    <2> DEFINE r == [Free EXCEPT !.step = "settle", !.webhook = TRUE, !.attempt = a,
                                 !.outcome = WebhookOutcome(attempt[a].state)]
    <2>1. WebhookOutcome(attempt[a].state) \in PaymentStatus
        BY StatusFact DEF WebhookOutcome
    <2>2. r \in PayRequest /\ r.step # "store"
        BY <2>1 DEF Free, PayRequest, PayStep
    <2>3. PICK o \in Orders : Load(EventLoop, o, r)
        BY <1>9 DEF LoadForWebhook, PaymentsOf
    <2> HIDE DEF r
    <2> QED
        BY <1>4, <2>2, <2>3
<1> QED
    BY Steps, <1>1, <1>3, <1>5, <1>6, <1>7, <1>8, <1>9
       DEF StoreCheckout, Settle, AbortPay, DropWebhook, StartAttempt, Moved, PlaceOrder,
           requestVars, onlineVars

LEMMA FreshStep ==
    ASSUME TypeOK, AttemptsValid, RequestsValid, CheckoutsFresh, Next
    PROVE  CheckoutsFresh'
<1> USE WorkersFact, OnlineAssumption DEF TypeOK, OnlineTypeOK
<1>kept. \A r \in RzpOrders : receipt[r] # Null => receipt'[r] = receipt[r]
    BY Monotone
<1>stored. \A w \in Workers : pay[w].step = "store" =>
               pay[w].rzp \in RzpOrders /\ receipt[pay[w].rzp] # Null
    BY DEF RequestsValid, RequestValid
<1>handed. \/ handed' = handed
           \/ \E t \in Threads : StoreCheckout(t) /\ handed' = handed \cup {pay[t].rzp}
    BY Steps DEF LoadForCheckout, CreateRzpOrder, StoreCheckout, LoadForVerify, FetchPayment,
                 Settle, AbortPay, LoadForWebhook, DropWebhook, StartAttempt, Moved, PlaceOrder,
                 razorpayVars, onlineVars
<1>1. \A r \in handed' : receipt'[r] # Null
    <2>1. \A r \in handed : r \in RzpOrders /\ receipt'[r] # Null
        BY <1>kept DEF CheckoutsFresh
    <2>2. ASSUME NEW t \in Threads, StoreCheckout(t)
          PROVE  receipt'[pay[t].rzp] # Null
        <3>1. pay[t].rzp \in RzpOrders /\ receipt[pay[t].rzp] # Null
            BY <1>stored, <2>2 DEF StoreCheckout
        <3> QED
            BY <1>kept, <3>1
    <2> QED
        BY <1>handed, <2>1, <2>2
<1>2. ASSUME NEW w \in Workers, pay'[w].step = "store"
      PROVE  pay'[w].rzp \notin handed'
    <2>1. CASE pay[w].step = "store" /\ pay'[w].rzp = pay[w].rzp
        <3>1. ASSUME NEW t \in Threads, StoreCheckout(t) PROVE pay[w].rzp # pay[t].rzp
            <4>1. t # w
                BY <1>2, <3>1, RespondFact, FreeTyped DEF StoreCheckout
            <4> QED
                BY <2>1, <3>1, <4>1 DEF StoreCheckout, CheckoutsFresh
        <3> QED
            BY <1>handed, <2>1, <3>1 DEF CheckoutsFresh
    <2>2. CASE w \in Threads /\ CreateRzpOrder(w, pay'[w].rzp)
        BY <2>2 DEF CreateRzpOrder, CheckoutsFresh
    <2> QED
        BY <1>2, <2>1, <2>2, StoresOfStep
<1>3. ASSUME NEW w \in Workers, NEW x \in Workers, w # x, pay'[w].step = "store",
             pay'[x].step = "store"
      PROVE  pay'[w].rzp # pay'[x].rzp
    <2>1. ASSUME NEW v \in Workers, NEW t \in Threads, v # t, pay'[v].step = "store",
                 CreateRzpOrder(t, pay'[t].rzp)
          PROVE  /\ pay[v].step = "store" /\ pay'[v].rzp = pay[v].rzp
                 /\ pay'[t].rzp # pay'[v].rzp
        <3>1. pay'[v] = pay[v]
            BY <2>1 DEF CreateRzpOrder
        <3>2. receipt[pay'[t].rzp] = Null
            BY <2>1 DEF CreateRzpOrder
        <3> QED
            BY <1>stored, <2>1, <3>1, <3>2
    <2> QED
        BY <1>3, <2>1, StoresOfStep DEF CheckoutsFresh
<1>4. ASSUME NEW a \in Attempts, attempt'[a].rzp # Null
      PROVE  attempt'[a].rzp \in handed'
    <2>1. ASSUME NEW b \in Attempts, NEW r \in RzpOrders, StartAttempt(b, r)
          PROVE  attempt'[a].rzp \in handed'
        BY <1>4, <2>1 DEF StartAttempt, CheckoutsFresh
    <2>2. ASSUME NEW b \in Attempts, NEW to, Moved(b, to)
          PROVE  attempt'[a].rzp \in handed'
        BY <1>4, <2>2 DEF Moved, CheckoutsFresh
    <2>3. CASE UNCHANGED attempt
        BY <1>4, <1>handed, <2>3 DEF CheckoutsFresh
    <2> QED
        BY <2>1, <2>2, <2>3, AttemptFrame
<1> QED
    BY <1>1, <1>2, <1>3, <1>4 DEF CheckoutsFresh, Workers

\* The outcome of an attempt that Razorpay reports is final.
LEMMA AckedStep ==
    ASSUME TypeOK, AttemptsValid, RequestsValid, AckedFinal, Next
    PROVE  AckedFinal'
<1> USE WorkersFact
<1>1. \A a \in Attempts :
          attempt[a].state \in {"captured", "failed"} => attempt'[a].state = attempt[a].state
    BY Monotone
<1>2. \A a \in acked : a \in Attempts /\ attempt[a].state \in {"captured", "failed"}
    BY DEF AckedFinal, TypeOK, OnlineTypeOK
<1>3. ASSUME NEW w \in Workers, Settle(w), pay[w].webhook
      PROVE  /\ pay[w].attempt \in Attempts
             /\ attempt[pay[w].attempt].state \in {"captured", "failed"}
    BY <1>3 DEF Settle, RequestsValid, RequestValid, AttemptsFor
<1>4. \A a \in acked' : a \in Attempts /\ attempt[a].state \in {"captured", "failed"}
    <2>1. CASE UNCHANGED acked
        BY <1>2, <2>1
    <2>2. ASSUME NEW w \in Workers, Settle(w)
          PROVE  acked' = acked \/ (pay[w].webhook /\ acked' = acked \cup {pay[w].attempt})
        BY <2>2 DEF Settle
    <2>3. ASSUME NEW a \in Attempts, DropWebhook(a)
          PROVE  /\ acked' = acked \cup {a}
                 /\ attempt[a].state \in {"captured", "failed"}
        BY <2>3 DEF DropWebhook
    <2>4. \/ UNCHANGED acked
          \/ \E w \in Workers : Settle(w)
          \/ \E a \in Attempts : DropWebhook(a)
        BY Steps
           DEF LoadForCheckout, CreateRzpOrder, StoreCheckout, LoadForVerify, FetchPayment,
               AbortPay, LoadForWebhook, StartAttempt, Moved, PlaceOrder, razorpayVars,
               onlineVars
    <2> QED
        BY <1>2, <1>3, <2>1, <2>2, <2>3, <2>4
<1> QED
    BY <1>1, <1>4 DEF AckedFinal

\* The statuses that a step writes.
LEMMA RefundStep ==
    ASSUME TypeOK, RequestsValid, NeverRefunded, Next
    PROVE  NeverRefunded'
<1> USE WorkersFact DEF TypeOK, DataTypeOK
<1>1. ASSUME NEW o \in Orders, NEW seen, NEW status \in {"PENDING", "PAID", "FAILED"},
             payments' = [payments EXCEPT ![o].status = NetWrite(@, seen, status)]
      PROVE  NeverRefunded'
    BY <1>1 DEF NeverRefunded, NetWrite, PaymentRow
<1>2. ASSUME NEW t \in Threads, StoreCheckout(t) PROVE NeverRefunded'
    BY <1>1, <1>2 DEF StoreCheckout, RequestsValid, RequestValid
<1>3. ASSUME NEW w \in Workers, Settle(w) PROVE NeverRefunded'
    <2>1. pay[w].order \in Orders /\ pay[w].outcome \in {"PENDING", "PAID", "FAILED"}
        BY <1>3 DEF Settle, RequestsValid, RequestValid
    <2> QED
        BY <1>1, <1>3, <2>1 DEF Settle, UpdatePayment
<1>4. ASSUME NEW o \in Orders, NEW u \in Users, NEW method \in PaymentMethod,
             NEW amount \in Amounts, PlaceOrder(o, u, method, amount)
      PROVE  NeverRefunded'
    BY <1>4 DEF PlaceOrder, CreateOrder, NeverRefunded
<1>5. ASSUME UNCHANGED dataVars PROVE NeverRefunded'
    BY <1>5 DEF NeverRefunded, dataVars
<1> QED
    BY Steps, <1>2, <1>3, <1>4, <1>5
       DEF LoadForCheckout, CreateRzpOrder, LoadForVerify, FetchPayment, AbortPay,
           LoadForWebhook, DropWebhook, StartAttempt, Moved

-----------------------------------------------------------------------------
(***************************************************************************)
(* The theorems.                                                           *)
(***************************************************************************)
LEMMA InitInvariant ==
    ASSUME Init
    PROVE  IInv
<1> USE DEF Init, OnlineInit
<1>1. DataTypeOK
    <2>1. PICK owner \in [LegacyOrders -> Users] :
              /\ orders = [o \in Orders |-> IF o \in LegacyOrders
                                            THEN NewOrder(owner[o]) ELSE NoOrder]
              /\ history = [o \in Orders |-> IF o \in LegacyOrders
                                             THEN FirstHistory(owner[o]) ELSE <<>>]
              /\ payments = [o \in Orders |-> NoPayment]
        BY DEF DataInit
    <2>2. /\ \A u \in Users : NewOrder(u) \in OrderRow
          /\ NoOrder \in OrderRow
        BY DEF NewOrder, NoOrder, OrderRow, OrderStatus
    <2>3. \A u \in Users : FirstHistory(u) \in Seq(HistoryRow)
        BY DEF FirstHistory, HistoryRow, OrderStatus
    <2>4. <<>> \in Seq(HistoryRow)
        OBVIOUS
    <2>5. NoPayment \in PaymentRow
        BY DEF NoPayment, PaymentRow
    <2> QED
        BY <2>1, <2>2, <2>3, <2>4, <2>5 DEF DataTypeOK
<1>2. OnlineTypeOK
    BY FreeTyped DEF OnlineTypeOK, AttemptState
<1>3. AttemptsValid
    BY DEF AttemptsValid
<1>4. RequestsValid
    BY FreeTyped DEF RequestsValid, RequestValid
<1>5. ReceiptsMatch
    BY DEF ReceiptsMatch
<1>6. SettlementBacked
    BY DEF SettlementBacked, DataInit, NoPayment
<1>7. CheckoutsFresh /\ SeenUnpaid /\ AckedFinal
    BY FreeTyped DEF CheckoutsFresh, SeenUnpaid, AckedFinal
<1>8. NeverRefunded
    BY DEF NeverRefunded, DataInit, NoPayment
<1> QED
    BY <1>1, <1>2, <1>3, <1>4, <1>5, <1>6, <1>7, <1>8 DEF IInv, TypeOK

LEMMA InvariantStep ==
    ASSUME IInv, [Next]_paymentVars
    PROVE  IInv'
<1>1. ASSUME Next PROVE IInv'
    BY <1>1, TypeStep, AttemptsStep, RequestsStep, ReceiptsStep, SettlementStep, FreshStep,
       SeenStep, AckedStep, RefundStep
       DEF IInv
<1>2. ASSUME UNCHANGED paymentVars PROVE IInv'
    BY <1>2 DEF IInv, paymentVars, dataVars, onlineVars, requestVars, razorpayVars, TypeOK,
       DataTypeOK, OnlineTypeOK, AttemptsValid, RequestsValid, RequestValid, ReceiptsMatch,
       SettlementBacked, AttemptsFor, CapturedFor, CheckoutsFresh, SeenUnpaid, AckedFinal,
       NeverRefunded
<1> QED
    BY <1>1, <1>2

\* The invariant holds in every state that the payments can reach.
THEOREM Invariance == Spec => []IInv
BY InitInvariant, InvariantStep, PTL DEF Spec

\* Rows and requests have their types, whatever requests and webhooks do.
THEOREM TypeCorrect == Spec => []TypeOK
<1>1. IInv => TypeOK
    BY DEF IInv
<1> QED
    BY <1>1, Invariance, PTL

\* The Razorpay columns of a payment never name what belongs to another
\* order, although a checkout may replace them while others are under way.
THEOREM ReceiptsCorrect == Spec => []ReceiptsMatch
<1>1. IInv => ReceiptsMatch
    BY DEF IInv
<1> QED
    BY <1>1, Invariance, PTL

\* No payment is PAID without a capture and none FAILED without a failed
\* attempt for that very order, in any interleaving of checkouts,
\* verifications, webhooks and failures (PaymentService, the webhook handlers).
THEOREM SettlementCorrect == Spec => []SettlementBacked
<1>1. IInv => SettlementBacked
    BY DEF IInv
<1> QED
    BY <1>1, Invariance, PTL

\* The step that acknowledges a capture finds the payment PAID or makes it so.
LEMMA AckStep ==
    ASSUME IInv, Next, NEW a \in acked', a \notin acked, NEW o \in Orders,
           attempt[a] = [rzp |-> rzp[o].order, state |-> "captured"]
    PROVE  payments'[o].status = "PAID"
<1>typed. TypeOK
    BY DEF IInv
<1>1. ASSUME NEW w \in Workers, Settle(w), pay[w].attempt = a
      PROVE  payments'[o].status = "PAID"
    <2>1. /\ pay[w].order \in Orders /\ pay[w].outcome = "PAID"
          /\ a \in Attempts /\ attempt[a].rzp # Null
          /\ receipt[attempt[a].rzp] = pay[w].order
        BY <1>1 DEF Settle, IInv, RequestsValid, RequestValid, AttemptsFor
    <2>2. pay[w].order = o
        BY <2>1 DEF IInv, ReceiptsMatch
    <2>3. pay[w].seen # "PAID"
        BY <1>1 DEF Settle, IInv, SeenUnpaid
    <2>4. payments' = [payments EXCEPT ![o].status = "PAID"]
        BY <1>1, <2>1, <2>2, <2>3 DEF Settle, UpdatePayment, NetWrite
    <2> QED
        BY <1>typed, <2>4 DEF TypeOK, DataTypeOK, PaymentRow
<1>2. ASSUME DropWebhook(a)
      PROVE  payments'[o].status = "PAID"
    <2>1. o \in PaymentsOf(attempt[a].rzp)
        BY DEF PaymentsOf
    <2>2. payments[o].status \in {"PAID", "REFUNDED"} /\ payments' = payments
        BY <1>2, <2>1 DEF DropWebhook, Applies, dataVars
    <2> QED
        BY <2>2 DEF IInv, NeverRefunded
<1> QED
    BY Steps, <1>1, <1>2
       DEF LoadForCheckout, CreateRzpOrder, StoreCheckout, LoadForVerify, FetchPayment, Settle,
           AbortPay, LoadForWebhook, DropWebhook, StartAttempt, Moved, PlaceOrder,
           razorpayVars, onlineVars

\* No interleaving makes Razorpay believe that a capture has arrived when the
\* payment that names its order is not PAID: the commit that acknowledges it
\* writes PAID whatever was committed since the webhook read the row.
THEOREM AckCorrect == Spec => AckRecordsCapture
<1>1. IInv /\ [Next]_paymentVars
         => [\A a \in acked' \ acked, o \in Orders :
                attempt[a] = [rzp |-> rzp[o].order, state |-> "captured"]
                    => payments'[o].status = "PAID"]_paymentVars
    BY AckStep
<1> QED
    BY <1>1, Invariance, PTL DEF Spec, AckRecordsCapture
=============================================================================
