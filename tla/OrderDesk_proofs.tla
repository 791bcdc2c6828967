-------------------------- MODULE OrderDesk_proofs --------------------------
(***************************************************************************)
(* The safety properties of module OrderDesk hold for any number of users, *)
(* orders and threads.  What makes them inductive is RequestsValid: what a *)
(* request has checked stays true, although the order moves on, because    *)
(* the facts it relies on never become false again (lemma Stability).      *)
(* The last part is about a status change whose read is not stale.         *)
(***************************************************************************)
EXTENDS OrderDesk, TLAPS

\* What each request in progress knows about its order, and may still rely
\* on when it takes its next step.
RequestValid(r) ==
    /\ r.step # "idle" =>
          /\ r.user \in Users
          /\ r.order \in Orders
          /\ OrderExists(r.order)
          /\ HasBeen(r.order, r.seen)
    /\ r.step \in {"gate", "commit"} =>
          /\ r.new \in OrderStatus
          /\ Transition(r) \in ValidOrderTransitions
          /\ Permitted(r.user, Transition(r))
          /\ OwnsTransition(r.user, r.order, Transition(r))
    /\ r.step = "commit" /\ Transition(r) = Delivery /\ payments[r.order].method = "COD"
          => payments[r.order].status = "PAID"
    /\ r.step \in {"mark", "report"} =>
          /\ payments[r.order].method = "COD"
          /\ HasBeen(r.order, "OUT_FOR_DELIVERY")

RequestsValid == \A t \in Threads : RequestValid(desk[t])

\* The status column says what the last commit wrote, whose history row is
\* the last of history[o], and an order without a row does not exist.
StatusIsLatest ==
    \A o \in Orders :
        IF OrderExists(o)
        THEN /\ history[o] # <<>>
             /\ orders[o].status = history[o][Len(history[o])].status
        ELSE history[o] = <<>> /\ payments[o] = NoPayment

\* A COD payment is either open or collected.
CashStatus ==
    \A o \in Orders : payments[o].method = "COD"
        => payments[o].status \in {"PENDING", "PAID"}

\* Nobody is assigned to an order that does not exist.
Unassigned ==
    \A o \in Orders : ~OrderExists(o)
        => orders[o].pickup_agent = Null /\ orders[o].delivery_agent = Null

IInv ==
    /\ TypeOK
    /\ RequestsValid
    /\ StatusIsLatest
    /\ Unassigned
    /\ Provenance
    /\ Custody
    /\ CashStatus
    /\ DeliveredIsCollected
    /\ CollectedAtTheDoor
    /\ CollectReplyIsTrue

-----------------------------------------------------------------------------
(***************************************************************************)
(* Facts about the tables and the helpers.                                 *)
(***************************************************************************)

LEMMA TransitionsAreStatuses ==
    ValidOrderTransitions \subseteq OrderStatus \X OrderStatus
BY DEF ValidOrderTransitions, OrderStatus, Pickup, Delivery

LEMMA IdleRequest == Idle \in DeskRequest /\ RequestValid(Idle)
BY DEF Idle, DeskRequest, DeskStep, RequestValid

\* The history of one order after one more row.
LEMMA AppendRow ==
    ASSUME NEW s \in Seq(HistoryRow), NEW e \in HistoryRow
    PROVE  /\ Append(s, e) \in Seq(HistoryRow)
           /\ Len(Append(s, e)) = Len(s) + 1
           /\ DOMAIN Append(s, e) = 1 .. Len(s) + 1
           /\ DOMAIN s = 1 .. Len(s)
           /\ \A i \in DOMAIN s : Append(s, e)[i] = s[i]
           /\ Append(s, e)[Len(s) + 1] = e
OBVIOUS

LEMMA StatusTyped ==
    ASSUME TypeOK, NEW o \in Orders
    PROVE  orders[o].status \in OrderStatus \cup {"NONE"}
BY DEF TypeOK, DataTypeOK, OrderRow

LEMMA RequestMoves ==
    ASSUME TypeOK, NEW t \in Threads
    PROVE  /\ Finish(t) => DeskTypeOK'
           /\ \A step \in DeskStep : Continue(t, step) => DeskTypeOK'
<1>1. Finish(t) => DeskTypeOK'
  BY IdleRequest DEF Finish, TypeOK, DeskTypeOK
<1>2. ASSUME NEW step \in DeskStep, Continue(t, step)
      PROVE  DeskTypeOK'
  <2>1. [desk[t] EXCEPT !.step = step] \in DeskRequest
    BY DEF TypeOK, DeskTypeOK, DeskRequest
  <2> QED
    BY <1>2, <2>1 DEF Continue, TypeOK, DeskTypeOK
<1> QED
  BY <1>1, <1>2

LEMMA TypedRequest ==
    ASSUME TypeOK, RequestsValid, NEW t \in Threads, desk[t].step # "idle"
    PROVE  /\ desk[t] \in DeskRequest
           /\ desk[t].order \in Orders
           /\ desk[t].user \in Users
           /\ OrderExists(desk[t].order)
BY DEF TypeOK, DeskTypeOK, RequestsValid, RequestValid

-----------------------------------------------------------------------------
(***************************************************************************)
(* The steps by what they do to the database.                              *)
(***************************************************************************)
LEMMA DataSteps ==
    ASSUME [Next]_deskVars
    PROVE  \/ UNCHANGED dataVars
           \/ \E o \in Orders, u \in Users, m \in PaymentMethod, n \in Amounts :
                 CreateOrder(o, u, m, n) /\ UNCHANGED desk
           \/ \E t \in Threads : CommitStatus(t)
           \/ \E u \in Users, o \in Orders : ClaimPickup(u, o)
           \/ \E u \in Users, o \in Orders : ClaimDelivery(u, o)
           \/ \E t \in Threads : MarkPaidIfPending(t)
           \/ \E o \in Orders, s \in {"PENDING", "PAID", "FAILED"} :
                 OnlineSettlement(o, s)
BY DEF Next, ThreadStep, DeskStepOfUser, PlaceOrder, deskVars, dataVars,
       LoadOrderForUpdate, CheckPaymentGate, LoadOrderForCollect,
       LoadPaymentForCollect, ReportCollected, AbortDesk

LEMMA TypeStep ==
    ASSUME TypeOK, RequestsValid, [Next]_deskVars
    PROVE  TypeOK'
<1> USE DataAssumption, DeskAssumption
<1>1. DeskTypeOK'
  <2>1. ASSUME NEW t \in Threads, NEW u \in Users, NEW o \in Orders,
               NEW new \in OrderStatus, LoadOrderForUpdate(t, u, o, new)
        PROVE  DeskTypeOK'
    <3> DEFINE r == [step |-> "gate", user |-> u, order |-> o,
                     seen |-> orders[o].status, new |-> new]
    <3>1. r \in DeskRequest
      BY StatusTyped DEF DeskRequest, DeskStep
    <3>2. desk' = [desk EXCEPT ![t] = r]
      BY <2>1 DEF LoadOrderForUpdate
    <3> QED
      BY <3>1, <3>2 DEF TypeOK, DeskTypeOK
  <2>2. ASSUME NEW t \in Threads, NEW u \in Users, NEW o \in Orders,
               LoadOrderForCollect(t, u, o)
        PROVE  DeskTypeOK'
    <3> DEFINE r == [step |-> "load_payment", user |-> u, order |-> o,
                     seen |-> orders[o].status, new |-> "NONE"]
    <3>1. r \in DeskRequest
      BY StatusTyped DEF DeskRequest, DeskStep
    <3>2. desk' = [desk EXCEPT ![t] = r]
      BY <2>2 DEF LoadOrderForCollect
    <3> QED
      BY <3>1, <3>2 DEF TypeOK, DeskTypeOK
  <2>3. ASSUME NEW t \in Threads,
               \/ CheckPaymentGate(t) \/ CommitStatus(t) \/ LoadPaymentForCollect(t)
               \/ MarkPaidIfPending(t) \/ ReportCollected(t) \/ AbortDesk(t)
        PROVE  DeskTypeOK'
    <3>1. \/ Finish(t)
          \/ \E step \in {"commit", "mark", "report"} : Continue(t, step)
      BY <2>3 DEF CheckPaymentGate, CommitStatus, LoadPaymentForCollect,
                  MarkPaidIfPending, ReportCollected, AbortDesk
    <3> QED
      BY <3>1, RequestMoves DEF DeskStep
  <2>4. CASE UNCHANGED desk
    BY <2>4 DEF TypeOK, DeskTypeOK
  <2> QED
    BY <2>1, <2>2, <2>3, <2>4
       DEF Next, ThreadStep, DeskStepOfUser, PlaceOrder, ClaimPickup, ClaimDelivery,
           OnlineSettlement, deskVars
<1>2. DataTypeOK'
  <2> USE DEF TypeOK, DataTypeOK
  <2>1. CASE UNCHANGED dataVars
    BY <2>1 DEF dataVars
  <2>2. ASSUME NEW o \in Orders, NEW u \in Users, NEW m \in PaymentMethod,
               NEW n \in Amounts, CreateOrder(o, u, m, n)
        PROVE  DataTypeOK'
    <3>1. NewOrder(u) \in OrderRow
      BY DEF NewOrder, NoOrder, OrderRow, OrderStatus
    <3>2. FirstHistory(u) \in Seq(HistoryRow)
      BY DEF FirstHistory, HistoryRow, OrderStatus
    <3>3. [method |-> m, status |-> "PENDING", amount |-> n] \in PaymentRow
      BY DEF PaymentRow, PaymentStatus
    <3> QED
      BY <2>2, <3>1, <3>2, <3>3 DEF CreateOrder
  <2>3. ASSUME NEW t \in Threads, CommitStatus(t)
        PROVE  DataTypeOK'
    <3>1. desk[t].order \in Orders /\ desk[t].user \in Users
          /\ desk[t].new \in OrderStatus
      BY <2>3, TypedRequest DEF CommitStatus, RequestsValid, RequestValid
    <3>2. HistoryEntry(desk[t]) \in HistoryRow
      BY <3>1 DEF HistoryEntry, HistoryRow
    <3>3. [orders[desk[t].order] EXCEPT !.status = desk[t].new] \in OrderRow
      <4>1. ASSUME NEW row \in OrderRow, NEW s \in OrderStatus
            PROVE  [row EXCEPT !.status = s] \in OrderRow
        BY DEF OrderRow
      <4> QED
        BY <3>1, <4>1
    <3>4. Append(history[desk[t].order], HistoryEntry(desk[t])) \in Seq(HistoryRow)
      BY <3>1, <3>2, AppendRow
    <3>5. orders' \in [Orders -> OrderRow]
      <4>1. orders' = [orders EXCEPT ![desk[t].order] =
                          [orders[desk[t].order] EXCEPT !.status = desk[t].new]]
        BY <2>3 DEF CommitStatus
      <4> QED
        BY <3>1, <3>3, <4>1
    <3>6. history' \in [Orders -> Seq(HistoryRow)]
      <4>1. history' = [history EXCEPT ![desk[t].order] =
                           Append(history[desk[t].order], HistoryEntry(desk[t]))]
        BY <2>3 DEF CommitStatus
      <4> QED
        BY <3>1, <3>4, <4>1
    <3>7. payments' \in [Orders -> PaymentRow]
      BY <2>3 DEF CommitStatus
    <3> QED
      BY <3>5, <3>6, <3>7
  <2>4. ASSUME NEW u \in Users, NEW o \in Orders,
               ClaimPickup(u, o) \/ ClaimDelivery(u, o)
        PROVE  DataTypeOK'
    <3>1. /\ [orders[o] EXCEPT !.pickup_agent = u] \in OrderRow
          /\ [orders[o] EXCEPT !.delivery_agent = u] \in OrderRow
      BY DEF OrderRow
    <3> QED
      BY <2>4, <3>1 DEF ClaimPickup, ClaimDelivery
  <2>5. ASSUME NEW t \in Threads, MarkPaidIfPending(t)
        PROVE  DataTypeOK'
    <3>1. desk[t].order \in Orders
      BY <2>5, TypedRequest DEF MarkPaidIfPending
    <3>2. [payments[desk[t].order] EXCEPT !.status = "PAID"] \in PaymentRow
      BY <3>1 DEF PaymentRow, PaymentStatus
    <3> QED
      BY <2>5, <3>1, <3>2 DEF MarkPaidIfPending
  <2>6. ASSUME NEW o \in Orders, NEW s \in {"PENDING", "PAID", "FAILED"},
               OnlineSettlement(o, s)
        PROVE  DataTypeOK'
    BY <2>6 DEF OnlineSettlement, PaymentRow, PaymentStatus
  <2> QED
    BY <2>1, <2>2, <2>3, <2>4, <2>5, <2>6, DataSteps
<1> QED
  BY <1>1, <1>2 DEF TypeOK

-----------------------------------------------------------------------------
(***************************************************************************)
(* A status change, as the invariants see it: one row more for one order.  *)
(***************************************************************************)
LEMMA CommittedRow ==
    ASSUME TypeOK, RequestsValid, NEW t \in Threads, CommitStatus(t),
           NEW o \in Orders, o = desk[t].order,
           NEW e, e = HistoryEntry(desk[t])
    PROVE  /\ OrderExists(o)
           /\ e \in HistoryRow
           /\ DOMAIN history[o] = 1 .. Len(history[o])
           /\ Len(history[o]) \in Nat
           /\ Len(history'[o]) = Len(history[o]) + 1
           /\ DOMAIN history'[o] = 1 .. Len(history[o]) + 1
           /\ \A i \in DOMAIN history[o] : history'[o][i] = history[o][i]
           /\ history'[o][Len(history[o]) + 1] = e
           /\ orders'[o].status = e.status
           /\ orders'[o].user = orders[o].user
           /\ orders'[o].pickup_agent = orders[o].pickup_agent
           /\ orders'[o].delivery_agent = orders[o].delivery_agent
           /\ \A p \in Orders \ {o} : history'[p] = history[p] /\ orders'[p] = orders[p]
           /\ payments' = payments
<1>1. OrderExists(o) /\ desk[t].user \in Users /\ desk[t].new \in OrderStatus
  BY DEF CommitStatus, RequestsValid, RequestValid
<1>2. e \in HistoryRow /\ e.status = desk[t].new
  BY <1>1 DEF HistoryEntry, HistoryRow
<1>3. /\ history[o] \in Seq(HistoryRow)
      /\ history \in [Orders -> Seq(HistoryRow)]
      /\ orders[o] \in OrderRow
      /\ orders \in [Orders -> OrderRow]
  BY DEF TypeOK, DataTypeOK
<1>4. /\ history' = [history EXCEPT ![o] = Append(history[o], e)]
      /\ orders' = [orders EXCEPT ![o] = [orders[o] EXCEPT !.status = desk[t].new]]
      /\ payments' = payments
  BY DEF CommitStatus
<1>5. history'[o] = Append(history[o], e)
  BY <1>3, <1>4
<1>6. orders'[o] = [orders[o] EXCEPT !.status = desk[t].new]
  BY <1>3, <1>4
<1>7. /\ orders'[o].status = e.status
      /\ orders'[o].user = orders[o].user
      /\ orders'[o].pickup_agent = orders[o].pickup_agent
      /\ orders'[o].delivery_agent = orders[o].delivery_agent
  BY <1>2, <1>3, <1>6 DEF OrderRow
<1>8. \A p \in Orders \ {o} : history'[p] = history[p] /\ orders'[p] = orders[p]
  BY <1>3, <1>4
<1>9. /\ DOMAIN history[o] = 1 .. Len(history[o])
      /\ Len(history[o]) \in Nat
      /\ Len(history'[o]) = Len(history[o]) + 1
      /\ DOMAIN history'[o] = 1 .. Len(history[o]) + 1
      /\ \A i \in DOMAIN history[o] : history'[o][i] = history[o][i]
      /\ history'[o][Len(history[o]) + 1] = e
  BY <1>2, <1>3, <1>5, AppendRow
<1> QED
  BY <1>1, <1>2, <1>4, <1>7, <1>8, <1>9

\* What no step makes false again for an order that exists.
Stable(o) ==
    /\ orders'[o].status # "NONE"
    /\ orders'[o].user = orders[o].user
    /\ orders[o].pickup_agent # Null
          => orders'[o].pickup_agent = orders[o].pickup_agent
    /\ orders[o].delivery_agent # Null
          => orders'[o].delivery_agent = orders[o].delivery_agent
    /\ payments'[o].method = payments[o].method
    /\ payments'[o].amount = payments[o].amount
    /\ payments[o].method = "COD" /\ payments[o].status = "PAID"
          => payments'[o].status = "PAID"
    /\ \A i \in DOMAIN history[o] :
          i \in DOMAIN history'[o] /\ history'[o][i] = history[o][i]

LEMMA Stability ==
    ASSUME TypeOK, RequestsValid, [Next]_deskVars, NEW p \in Orders, OrderExists(p)
    PROVE  Stable(p)
<1> USE DEF TypeOK, DataTypeOK, OrderRow, PaymentRow
<1>1. CASE UNCHANGED dataVars
  BY <1>1 DEF dataVars, Stable, OrderExists
<1>2. ASSUME NEW o \in Orders, NEW u \in Users, NEW m \in PaymentMethod,
             NEW n \in Amounts, CreateOrder(o, u, m, n)
      PROVE  Stable(p)
  <2>1. p # o
    BY <1>2 DEF CreateOrder
  <2>2. orders'[p] = orders[p] /\ payments'[p] = payments[p] /\ history'[p] = history[p]
    BY <1>2, <2>1 DEF CreateOrder
  <2> QED
    BY <2>2 DEF Stable, OrderExists
<1>3. ASSUME NEW t \in Threads, CommitStatus(t)
      PROVE  Stable(p)
  <2>1. desk[t].order \in Orders
    BY <1>3 DEF CommitStatus, RequestsValid, RequestValid
  <2>2. CASE p = desk[t].order
    <3> DEFINE e == HistoryEntry(desk[t])
    <3>1. orders'[p].status # "NONE"
      <4>1. e \in HistoryRow /\ orders'[p].status = e.status
        BY <1>3, <2>2, CommittedRow
      <4> QED
        BY <4>1 DEF HistoryRow, OrderStatus
    <3>2. /\ orders'[p].user = orders[p].user
          /\ orders'[p].pickup_agent = orders[p].pickup_agent
          /\ orders'[p].delivery_agent = orders[p].delivery_agent
          /\ payments' = payments
      BY <1>3, <2>2, CommittedRow
    <3>3. \A i \in DOMAIN history[p] :
             i \in DOMAIN history'[p] /\ history'[p][i] = history[p][i]
      <4>1. /\ Len(history[p]) \in Nat
            /\ DOMAIN history[p] = 1 .. Len(history[p])
            /\ DOMAIN history'[p] = 1 .. Len(history[p]) + 1
            /\ \A i \in DOMAIN history[p] : history'[p][i] = history[p][i]
        BY <1>3, <2>2, CommittedRow
      <4> QED
        BY <4>1
    <3> QED
      BY <3>1, <3>2, <3>3 DEF Stable
  <2>3. CASE p # desk[t].order
    <3>1. /\ orders'[p] = orders[p]
          /\ history'[p] = history[p]
          /\ payments' = payments
      BY <1>3, <2>1, <2>3 DEF CommitStatus
    <3> QED
      BY <3>1 DEF Stable, OrderExists
  <2> QED
    BY <2>2, <2>3
<1>4. ASSUME NEW u \in Users, NEW o \in Orders,
             ClaimPickup(u, o) \/ ClaimDelivery(u, o)
      PROVE  Stable(p)
  <2>1. payments' = payments /\ history' = history
    BY <1>4 DEF ClaimPickup, ClaimDelivery
  <2>2. CASE p # o
    <3>1. orders'[p] = orders[p]
      BY <1>4, <2>2 DEF ClaimPickup, ClaimDelivery
    <3> QED
      BY <2>1, <3>1 DEF Stable, OrderExists
  <2>3. CASE p = o /\ ClaimPickup(u, o)
    <3>1. orders'[p] = [orders[p] EXCEPT !.pickup_agent = u]
      BY <2>3 DEF ClaimPickup
    <3> QED
      BY <2>1, <2>3, <3>1 DEF Stable, OrderExists, ClaimPickup
  <2>4. CASE p = o /\ ClaimDelivery(u, o)
    <3>1. orders'[p] = [orders[p] EXCEPT !.delivery_agent = u]
      BY <2>4 DEF ClaimDelivery
    <3> QED
      BY <2>1, <2>4, <3>1 DEF Stable, OrderExists, ClaimDelivery
  <2> QED
    BY <1>4, <2>2, <2>3, <2>4
<1>5. ASSUME NEW t \in Threads, MarkPaidIfPending(t)
      PROVE  Stable(p)
  <2>1. desk[t].order \in Orders
    BY <1>5 DEF MarkPaidIfPending, RequestsValid, RequestValid
  <2> QED
    BY <1>5, <2>1 DEF MarkPaidIfPending, Stable, OrderExists
<1>6. ASSUME NEW o \in Orders, NEW s \in {"PENDING", "PAID", "FAILED"},
             OnlineSettlement(o, s)
      PROVE  Stable(p)
  BY <1>6 DEF OnlineSettlement, Stable, OrderExists
<1> QED
  BY <1>1, <1>2, <1>3, <1>4, <1>5, <1>6, DataSteps

-----------------------------------------------------------------------------
(***************************************************************************)
(* What a request has checked stays true.                                  *)
(***************************************************************************)
LEMMA RequestKept ==
    ASSUME TypeOK, RequestsValid, [Next]_deskVars,
           NEW t \in Threads, desk'[t] = desk[t]
    PROVE  RequestValid(desk[t])'
<1>1. CASE desk[t].step = "idle"
  BY <1>1 DEF RequestValid
<1>2. CASE desk[t].step # "idle"
  <2> DEFINE r == desk[t]
             o == desk[t].order
  <2>1. RequestValid(r) /\ o \in Orders /\ OrderExists(o) /\ r.user \in Users
    BY <1>2 DEF RequestsValid, RequestValid
  <2>2. Stable(o)
    BY <2>1, Stability
  <2>3. OrderExists(o)'
    BY <2>2 DEF Stable, OrderExists
  <2>4. \A s : HasBeen(o, s) => \E i \in DOMAIN history'[o] : history'[o][i].status = s
    BY <2>2 DEF Stable, HasBeen
  <2>5. OwnsTransition(r.user, o, Transition(r)) =>
          /\ RoleOf[r.user] = "CUSTOMER" => orders'[o].user = r.user
          /\ RoleOf[r.user] = "DELIVERY_AGENT" =>
               /\ Transition(r) = Pickup   => orders'[o].pickup_agent = r.user
               /\ Transition(r) = Delivery => orders'[o].delivery_agent = r.user
    BY <2>1, <2>2, DataAssumption DEF Stable, OwnsTransition
  <2>6. /\ payments'[o].method = payments[o].method
        /\ payments[o].method = "COD" /\ payments[o].status = "PAID"
              => payments'[o].status = "PAID"
    BY <2>2 DEF Stable
  <2>7. (r.step # "idle" => /\ r.user \in Users
                            /\ r.order \in Orders
                            /\ OrderExists(r.order)
                            /\ HasBeen(r.order, r.seen))'
    BY <1>2, <2>1, <2>3, <2>4 DEF RequestValid, HasBeen
  <2>8. (r.step \in {"gate", "commit"} => /\ r.new \in OrderStatus
                                         /\ Transition(r) \in ValidOrderTransitions
                                         /\ Permitted(r.user, Transition(r)))'
    BY <2>1 DEF RequestValid, Permitted, Transition
  <2>9. (r.step \in {"gate", "commit"} => OwnsTransition(r.user, r.order, Transition(r)))'
    BY <2>1, <2>5 DEF RequestValid, OwnsTransition, Transition
  <2>10. (r.step = "commit" /\ Transition(r) = Delivery /\ payments[r.order].method = "COD"
             => payments[r.order].status = "PAID")'
    BY <2>1, <2>6 DEF RequestValid, Transition
  <2>11. (r.step \in {"mark", "report"} => /\ payments[r.order].method = "COD"
                                          /\ HasBeen(r.order, "OUT_FOR_DELIVERY"))'
    <3>1. CASE r.step \in {"mark", "report"}
      <4>1. payments[o].method = "COD" /\ HasBeen(o, "OUT_FOR_DELIVERY")
        BY <2>1, <3>1 DEF RequestValid
      <4>2. \E i \in DOMAIN history'[o] : history'[o][i].status = "OUT_FOR_DELIVERY"
        BY <2>4, <4>1
      <4> QED
        BY <2>6, <4>1, <4>2 DEF HasBeen
    <3> QED
      BY <3>1
  <2> QED
    BY <2>7, <2>8, <2>9, <2>10, <2>11 DEF RequestValid
<1> QED
  BY <1>1, <1>2

LEMMA StatusWasRecorded ==
    ASSUME TypeOK, StatusIsLatest, NEW o \in Orders, OrderExists(o)
    PROVE  HasBeen(o, orders[o].status)
<1>1. history[o] \in Seq(HistoryRow) /\ history[o] # <<>>
  BY DEF TypeOK, DataTypeOK, StatusIsLatest
<1>2. Len(history[o]) \in DOMAIN history[o]
  BY <1>1
<1> QED
  BY <1>2 DEF StatusIsLatest, HasBeen

LEMMA RequestsStep ==
    ASSUME TypeOK, RequestsValid, StatusIsLatest, [Next]_deskVars
    PROVE  RequestsValid'
<1>1. ASSUME NEW t \in Threads, NEW s \in Threads \ {t}, ThreadStep(t)
      PROVE  desk'[s] = desk[s]
  BY <1>1 DEF ThreadStep, LoadOrderForUpdate, CheckPaymentGate, CommitStatus,
       LoadOrderForCollect, LoadPaymentForCollect, MarkPaidIfPending, ReportCollected,
       AbortDesk, Continue, Finish, TypeOK, DeskTypeOK
<1>2. ASSUME NEW t \in Threads, ThreadStep(t)
      PROVE  RequestValid(desk[t])'
  <2> USE DEF TypeOK, DeskTypeOK
  <2>1. CASE Finish(t)
    <3>1. desk'[t] = Idle
      BY <2>1 DEF Finish
    <3> QED
      BY <3>1 DEF Idle, RequestValid
  <2>2. ASSUME NEW u \in Users, NEW o \in Orders, NEW new \in OrderStatus,
               LoadOrderForUpdate(t, u, o, new)
        PROVE  RequestValid(desk[t])'
    <3>1. /\ desk'[t] = [step |-> "gate", user |-> u, order |-> o,
                         seen |-> orders[o].status, new |-> new]
          /\ <<orders[o].status, new>> \in ValidOrderTransitions
          /\ Permitted(u, <<orders[o].status, new>>)
          /\ OwnsTransition(u, o, <<orders[o].status, new>>)
          /\ OrderExists(o) /\ HasBeen(o, orders[o].status)
          /\ orders' = orders /\ payments' = payments /\ history' = history
      BY <2>2, StatusWasRecorded DEF LoadOrderForUpdate, dataVars
    <3> QED
      BY <3>1 DEF RequestValid, OrderExists, HasBeen, OwnsTransition, Transition,
                  Permitted
  <2>3. ASSUME CheckPaymentGate(t), ~Finish(t)
        PROVE  RequestValid(desk[t])'
    <3>1. /\ desk'[t] = [desk[t] EXCEPT !.step = "commit"]
          /\ desk[t].step = "gate"
          /\ GateOpen(Transition(desk[t]), payments[desk[t].order])
          /\ orders' = orders /\ payments' = payments /\ history' = history
      BY <2>3 DEF CheckPaymentGate, Continue, dataVars
    <3>2. /\ desk[t] \in DeskRequest
          /\ RequestValid(desk[t])
      BY DEF RequestsValid
    <3>3. /\ desk'[t].step = "commit"
          /\ desk'[t].order = desk[t].order /\ desk'[t].user = desk[t].user
          /\ desk'[t].seen = desk[t].seen /\ desk'[t].new = desk[t].new
      BY <3>1, <3>2 DEF DeskRequest
    <3> QED
      BY <3>1, <3>2, <3>3 DEF RequestValid, OrderExists, HasBeen, OwnsTransition,
                              Transition, Permitted, GateOpen
  <2>4. ASSUME NEW u \in Users, NEW o \in Orders, LoadOrderForCollect(t, u, o)
        PROVE  RequestValid(desk[t])'
    <3>1. /\ desk'[t] = [step |-> "load_payment", user |-> u, order |-> o,
                         seen |-> orders[o].status, new |-> "NONE"]
          /\ OrderExists(o) /\ HasBeen(o, orders[o].status)
          /\ orders' = orders /\ payments' = payments /\ history' = history
      BY <2>4, StatusWasRecorded DEF LoadOrderForCollect, dataVars
    <3> QED
      BY <3>1 DEF RequestValid, OrderExists, HasBeen
  <2>5. ASSUME LoadPaymentForCollect(t) \/ MarkPaidIfPending(t), ~Finish(t)
        PROVE  RequestValid(desk[t])'
    <3>1. desk[t] \in DeskRequest /\ RequestValid(desk[t]) /\ desk[t].step # "idle"
      BY <2>5 DEF RequestsValid, LoadPaymentForCollect, MarkPaidIfPending
    <3>2. /\ desk'[t].step \in {"mark", "report"}
          /\ desk'[t].order = desk[t].order /\ desk'[t].user = desk[t].user
          /\ desk'[t].seen = desk[t].seen
          /\ orders' = orders /\ history' = history
      BY <2>5, <3>1 DEF LoadPaymentForCollect, MarkPaidIfPending, Continue, DeskRequest,
                        dataVars
    <3>3. payments[desk[t].order].method = "COD" /\ HasBeen(desk[t].order, "OUT_FOR_DELIVERY")
      BY <2>5, <3>1 DEF LoadPaymentForCollect, Collectable, MarkPaidIfPending, RequestValid
    <3>4. payments'[desk[t].order].method = "COD"
      BY <3>1, <3>3, Stability DEF Stable, RequestValid
    <3> QED
      BY <3>1, <3>2, <3>3, <3>4 DEF RequestValid, OrderExists, HasBeen
  <2> QED
    BY <1>2, <2>1, <2>2, <2>3, <2>4, <2>5
       DEF ThreadStep, CommitStatus, ReportCollected, AbortDesk
<1>3. CASE \E t \in Threads : ThreadStep(t)
  <2>1. PICK t \in Threads : ThreadStep(t)
    BY <1>3
  <2>2. ASSUME NEW s \in Threads
        PROVE  RequestValid(desk[s])'
    BY <1>1, <1>2, <2>1, RequestKept
  <2> QED
    BY <2>2 DEF RequestsValid
<1>4. CASE UNCHANGED desk
  BY <1>4, RequestKept DEF RequestsValid
<1> QED
  BY <1>3, <1>4 DEF Next, DeskStepOfUser, PlaceOrder, ClaimPickup, ClaimDelivery,
                    OnlineSettlement, deskVars

-----------------------------------------------------------------------------
(***************************************************************************)
(* The audit trail.                                                        *)
(***************************************************************************)

\* A new order and its first row.
LEMMA CreatedRow ==
    ASSUME TypeOK, StatusIsLatest,
           NEW o \in Orders, NEW u \in Users, NEW m \in PaymentMethod, NEW n \in Amounts,
           CreateOrder(o, u, m, n)
    PROVE  /\ history[o] = <<>>
           /\ orders'[o] = NewOrder(u)
           /\ history'[o] = FirstHistory(u)
           /\ payments'[o] = [method |-> m, status |-> "PENDING", amount |-> n]
           /\ \A p \in Orders \ {o} : /\ orders'[p] = orders[p]
                                      /\ history'[p] = history[p]
                                      /\ payments'[p] = payments[p]
BY DEF CreateOrder, StatusIsLatest, TypeOK, DataTypeOK

\* A step of the kinds that leave the audit trail alone.
LEMMA QuietStep ==
    ASSUME TypeOK, NEW o \in Orders,
           \/ UNCHANGED dataVars
           \/ \E u \in Users, p \in Orders : ClaimPickup(u, p) \/ ClaimDelivery(u, p)
           \/ \E t \in Threads : MarkPaidIfPending(t)
           \/ \E p \in Orders, s \in {"PENDING", "PAID", "FAILED"} :
                 OnlineSettlement(p, s)
    PROVE  history' = history /\ orders'[o].status = orders[o].status
BY DEF dataVars, ClaimPickup, ClaimDelivery, MarkPaidIfPending, OnlineSettlement,
       TypeOK, DataTypeOK, OrderRow

LEMMA StatusStep ==
    ASSUME TypeOK, RequestsValid, StatusIsLatest, [Next]_deskVars
    PROVE  StatusIsLatest'
<1> SUFFICES ASSUME NEW p \in Orders
             PROVE  IF OrderExists(p)'
                    THEN /\ history'[p] # <<>>
                         /\ orders'[p].status = history'[p][Len(history'[p])].status
                    ELSE history'[p] = <<>> /\ payments'[p] = NoPayment
  BY DEF StatusIsLatest
<1>1. CASE \/ UNCHANGED dataVars
           \/ \E u \in Users, o \in Orders : ClaimPickup(u, o) \/ ClaimDelivery(u, o)
           \/ \E t \in Threads : MarkPaidIfPending(t)
           \/ \E o \in Orders, s \in {"PENDING", "PAID", "FAILED"} :
                 OnlineSettlement(o, s)
  <2>1. history' = history /\ orders'[p].status = orders[p].status
    BY <1>1, QuietStep
  <2>2. ~OrderExists(p) => payments'[p] = payments[p]
    <3>1. SUFFICES ASSUME ~OrderExists(p)
                   PROVE  payments'[p] = payments[p]
      OBVIOUS
    <3>2. payments[p] = NoPayment
      BY <3>1 DEF StatusIsLatest
    <3>3. ASSUME NEW t \in Threads, MarkPaidIfPending(t)
          PROVE  payments'[p] = payments[p]
      <4>1. desk[t].order # p
        BY <3>1, <3>3 DEF MarkPaidIfPending, RequestsValid, RequestValid
      <4> QED
        BY <3>3, <4>1 DEF MarkPaidIfPending, TypeOK, DataTypeOK
    <3>4. ASSUME NEW o \in Orders, NEW s \in {"PENDING", "PAID", "FAILED"},
                 OnlineSettlement(o, s)
          PROVE  payments'[p] = payments[p]
      <4>1. o # p
        BY <3>2, <3>4 DEF OnlineSettlement, NoPayment
      <4> QED
        BY <3>4, <4>1 DEF OnlineSettlement, TypeOK, DataTypeOK
    <3> QED
      BY <1>1, <3>3, <3>4 DEF dataVars, ClaimPickup, ClaimDelivery
  <2> QED
    BY <2>1, <2>2 DEF StatusIsLatest, OrderExists
<1>2. ASSUME NEW o \in Orders, NEW u \in Users, NEW m \in PaymentMethod,
             NEW n \in Amounts, CreateOrder(o, u, m, n)
      PROVE  IF OrderExists(p)'
             THEN /\ history'[p] # <<>>
                  /\ orders'[p].status = history'[p][Len(history'[p])].status
             ELSE history'[p] = <<>> /\ payments'[p] = NoPayment
  <2>1. CASE p = o
    <3>1. orders'[p].status = "PENDING_PICKUP" /\ history'[p] = FirstHistory(u)
      BY <1>2, <2>1, CreatedRow DEF NewOrder, NoOrder
    <3>2. /\ FirstHistory(u) # <<>>
          /\ FirstHistory(u)[Len(FirstHistory(u))].status = "PENDING_PICKUP"
      BY DEF FirstHistory
    <3> QED
      BY <3>1, <3>2 DEF OrderExists
  <2>2. CASE p # o
    <3>1. /\ orders'[p] = orders[p] /\ history'[p] = history[p]
          /\ payments'[p] = payments[p]
      BY <1>2, <2>2, CreatedRow
    <3> QED
      BY <3>1 DEF StatusIsLatest, OrderExists
  <2> QED
    BY <2>1, <2>2
<1>3. ASSUME NEW t \in Threads, CommitStatus(t)
      PROVE  IF OrderExists(p)'
             THEN /\ history'[p] # <<>>
                  /\ orders'[p].status = history'[p][Len(history'[p])].status
             ELSE history'[p] = <<>> /\ payments'[p] = NoPayment
  <2>1. desk[t].order \in Orders
    BY <1>3 DEF CommitStatus, RequestsValid, RequestValid
  <2>2. CASE p = desk[t].order
    <3> DEFINE e == HistoryEntry(desk[t])
    <3>1. /\ e \in HistoryRow
          /\ Len(history[p]) \in Nat
          /\ Len(history'[p]) = Len(history[p]) + 1
          /\ history'[p][Len(history[p]) + 1] = e
          /\ orders'[p].status = e.status
      BY <1>3, <2>2, CommittedRow
    <3>2. history'[p] # <<>> /\ orders'[p].status # "NONE"
      BY <3>1 DEF HistoryRow, OrderStatus
    <3> QED
      BY <3>1, <3>2 DEF OrderExists
  <2>3. CASE p # desk[t].order
    BY <1>3, <2>1, <2>3, CommittedRow DEF StatusIsLatest, OrderExists
  <2> QED
    BY <2>2, <2>3
<1> QED
  BY <1>1, <1>2, <1>3, DataSteps

LEMMA ProvenanceStep ==
    ASSUME TypeOK, RequestsValid, StatusIsLatest, Provenance, [Next]_deskVars
    PROVE  Provenance'
<1> DEFINE Derived(h, i) ==
        \E j \in 1 .. i - 1 :
            /\ <<h[j].status, h[i].status>> \in ValidOrderTransitions
            /\ <<<<h[j].status, h[i].status>>, RoleOf[h[i].by]>> \in TransitionPermissions
<1> SUFFICES ASSUME NEW p \in Orders, NEW i \in DOMAIN history'[p], i > 1
             PROVE  Derived(history'[p], i)
  BY DEF Provenance
<1>1. i \in DOMAIN history[p] => Derived(history[p], i)
  BY DEF Provenance
<1>2. CASE history'[p] = history[p]
  BY <1>1, <1>2
<1>3. ASSUME NEW o \in Orders, NEW u \in Users, NEW m \in PaymentMethod,
             NEW n \in Amounts, CreateOrder(o, u, m, n)
      PROVE  Derived(history'[p], i)
  <2>1. CASE p = o
    <3>1. history'[p] = FirstHistory(u)
      BY <1>3, <2>1, CreatedRow
    <3>2. DOMAIN FirstHistory(u) = {1}
      BY DEF FirstHistory
    <3> QED
      BY <3>1, <3>2
  <2>2. CASE p # o
    BY <1>2, <1>3, <2>2, CreatedRow
  <2> QED
    BY <2>1, <2>2
<1>4. ASSUME NEW t \in Threads, CommitStatus(t)
      PROVE  Derived(history'[p], i)
  <2>1. CASE p # desk[t].order
    BY <1>2, <1>4, <2>1 DEF CommitStatus, TypeOK, DataTypeOK
  <2>2. CASE p = desk[t].order
    <3>1. /\ DOMAIN history[p] = 1 .. Len(history[p])
          /\ Len(history[p]) \in Nat
          /\ DOMAIN history'[p] = 1 .. Len(history[p]) + 1
          /\ \A j \in DOMAIN history[p] : history'[p][j] = history[p][j]
      BY <1>4, <2>2, CommittedRow
    <3>2. history'[p][Len(history[p]) + 1] = HistoryEntry(desk[t])
      BY <1>4, <2>2, CommittedRow
    <3>3. CASE i \in DOMAIN history[p]
      <4>1. PICK j \in 1 .. i - 1 :
               /\ <<history[p][j].status, history[p][i].status>> \in ValidOrderTransitions
               /\ <<<<history[p][j].status, history[p][i].status>>,
                    RoleOf[history[p][i].by]>> \in TransitionPermissions
        BY <1>1, <3>3
      <4>2. j \in DOMAIN history[p]
        BY <3>1, <3>3, <4>1
      <4> QED
        BY <3>1, <3>3, <4>1, <4>2
    <3>4. CASE i \notin DOMAIN history[p]
      <4>1. i = Len(history[p]) + 1
        BY <3>1, <3>4
      <4>2. /\ HasBeen(p, desk[t].seen)
            /\ <<desk[t].seen, desk[t].new>> \in ValidOrderTransitions
            /\ <<<<desk[t].seen, desk[t].new>>, RoleOf[desk[t].user]>>
                  \in TransitionPermissions
        BY <1>4, <2>2 DEF CommitStatus, RequestsValid, RequestValid, Transition, Permitted
      <4>3. PICK j \in DOMAIN history[p] : history[p][j].status = desk[t].seen
        BY <4>2 DEF HasBeen
      <4>4. j \in 1 .. i - 1 /\ history'[p][j].status = desk[t].seen
        BY <3>1, <4>1, <4>3
      <4>5. history'[p][i].status = desk[t].new /\ history'[p][i].by = desk[t].user
        BY <3>2, <4>1 DEF HistoryEntry
      <4> QED
        BY <4>2, <4>4, <4>5
    <3> QED
      BY <3>3, <3>4
  <2> QED
    BY <2>1, <2>2
<1> QED
  BY <1>2, <1>3, <1>4, DataSteps, QuietStep

\* A row of the audit trail after a step was there before, or is the first
\* of a new order, or comes from a status change.
LEMMA RowsOfStep ==
    ASSUME TypeOK, RequestsValid, StatusIsLatest, [Next]_deskVars,
           NEW p \in Orders, NEW i \in DOMAIN history'[p]
    PROVE  \/ OrderExists(p) /\ i \in DOMAIN history[p] /\ history'[p][i] = history[p][i]
           \/ \E u \in Users : /\ history'[p][i] = [status |-> "PENDING_PICKUP", by |-> u]
                               /\ orders'[p] = NewOrder(u)
           \/ \E t \in Threads : /\ CommitStatus(t)
                                 /\ p = desk[t].order
                                 /\ history'[p][i] = HistoryEntry(desk[t])
<1>1. CASE history'[p] = history[p]
  <2>1. history[p] # <<>>
    BY <1>1
  <2> QED
    BY <1>1, <2>1 DEF StatusIsLatest
<1>2. ASSUME NEW o \in Orders, NEW u \in Users, NEW m \in PaymentMethod,
             NEW n \in Amounts, CreateOrder(o, u, m, n), history'[p] # history[p]
      PROVE  /\ history'[p][i] = [status |-> "PENDING_PICKUP", by |-> u]
             /\ orders'[p] = NewOrder(u)
  <2>1. p = o
    BY <1>2, CreatedRow
  <2>2. history'[p] = FirstHistory(u) /\ orders'[p] = NewOrder(u)
    BY <1>2, <2>1, CreatedRow
  <2>3. \A k \in DOMAIN FirstHistory(u) :
            FirstHistory(u)[k] = [status |-> "PENDING_PICKUP", by |-> u]
    BY DEF FirstHistory
  <2> QED
    BY <2>2, <2>3
<1>3. ASSUME NEW t \in Threads, CommitStatus(t), history'[p] # history[p]
      PROVE  \/ OrderExists(p) /\ i \in DOMAIN history[p] /\ history'[p][i] = history[p][i]
             \/ p = desk[t].order /\ history'[p][i] = HistoryEntry(desk[t])
  <2>1. p = desk[t].order
    BY <1>3 DEF CommitStatus, TypeOK, DataTypeOK
  <2>2. /\ OrderExists(p)
        /\ DOMAIN history[p] = 1 .. Len(history[p])
        /\ Len(history[p]) \in Nat
        /\ DOMAIN history'[p] = 1 .. Len(history[p]) + 1
        /\ \A j \in DOMAIN history[p] : history'[p][j] = history[p][j]
    BY <1>3, <2>1, CommittedRow
  <2>3. history'[p][Len(history[p]) + 1] = HistoryEntry(desk[t])
    BY <1>3, <2>1, CommittedRow
  <2> QED
    BY <2>1, <2>2, <2>3
<1> QED
  BY <1>1, <1>2, <1>3, DataSteps, QuietStep

LEMMA CustodyStep ==
    ASSUME TypeOK, RequestsValid, StatusIsLatest, Custody, [Next]_deskVars
    PROVE  Custody'
<1> DEFINE Kept(e, order) ==
        /\ RoleOf[e.by] = "DELIVERY_AGENT" =>
              /\ e.status = "PICKED_UP" => order.pickup_agent = e.by
              /\ e.status = "DELIVERED" => order.delivery_agent = e.by
        /\ RoleOf[e.by] = "CUSTOMER" => order.user = e.by
<1> SUFFICES ASSUME NEW p \in Orders, NEW i \in DOMAIN history'[p]
             PROVE  Kept(history'[p][i], orders'[p])
  BY DEF Custody
<1>1. CASE /\ OrderExists(p) /\ i \in DOMAIN history[p]
           /\ history'[p][i] = history[p][i]
  <2>1. Kept(history[p][i], orders[p])
    BY <1>1 DEF Custody
  <2>2. history[p][i] \in HistoryRow
    BY <1>1 DEF TypeOK, DataTypeOK
  <2>3. history[p][i].by # Null
    BY <2>2, DataAssumption DEF HistoryRow
  <2>4. Stable(p)
    BY <1>1, Stability
  <2> QED
    BY <1>1, <2>1, <2>3, <2>4 DEF Stable
<1>2. ASSUME NEW u \in Users, orders'[p] = NewOrder(u),
             history'[p][i] = [status |-> "PENDING_PICKUP", by |-> u]
      PROVE  Kept(history'[p][i], orders'[p])
  BY <1>2 DEF NewOrder, NoOrder
<1>3. ASSUME NEW t \in Threads, CommitStatus(t), p = desk[t].order,
             history'[p][i] = HistoryEntry(desk[t])
      PROVE  Kept(history'[p][i], orders'[p])
  <2>1. /\ <<desk[t].seen, desk[t].new>> \in ValidOrderTransitions
        /\ OwnsTransition(desk[t].user, p, <<desk[t].seen, desk[t].new>>)
    BY <1>3 DEF CommitStatus, RequestsValid, RequestValid, Transition
  <2>2. /\ desk[t].new = "PICKED_UP" => <<desk[t].seen, desk[t].new>> = Pickup
        /\ desk[t].new = "DELIVERED" => <<desk[t].seen, desk[t].new>> = Delivery
    BY <2>1 DEF ValidOrderTransitions, Pickup, Delivery
  <2>3. /\ history'[p][i].status = desk[t].new
        /\ history'[p][i].by = desk[t].user
    BY <1>3 DEF HistoryEntry
  <2>4. /\ orders'[p].user = orders[p].user
        /\ orders'[p].pickup_agent = orders[p].pickup_agent
        /\ orders'[p].delivery_agent = orders[p].delivery_agent
    BY <1>3, CommittedRow
  <2> QED
    BY <2>1, <2>2, <2>3, <2>4 DEF OwnsTransition
<1> QED
  <2> HIDE DEF Kept
  <2> QED
    BY <1>1, <1>2, <1>3, RowsOfStep

-----------------------------------------------------------------------------
(***************************************************************************)
(* The cash.                                                               *)
(***************************************************************************)
Cash ==
    /\ CashStatus
    /\ DeliveredIsCollected
    /\ CollectedAtTheDoor
    /\ CollectReplyIsTrue

\* How the payment of one order changes.
LEMMA PaymentOfStep ==
    ASSUME TypeOK, RequestsValid, StatusIsLatest, [Next]_deskVars, NEW p \in Orders
    PROVE  \/ payments'[p] = payments[p]
           \/ ~OrderExists(p) /\ payments'[p].status = "PENDING"
           \/ /\ payments[p].status = "PENDING"
              /\ payments'[p] = [payments[p] EXCEPT !.status = "PAID"]
              /\ \E t \in Threads : MarkPaidIfPending(t) /\ p = desk[t].order
           \/ payments[p].method = "RAZORPAY" /\ payments'[p].method = "RAZORPAY"
<1>1. ASSUME NEW o \in Orders, NEW u \in Users, NEW m \in PaymentMethod,
             NEW n \in Amounts, CreateOrder(o, u, m, n)
      PROVE  \/ payments'[p] = payments[p]
             \/ ~OrderExists(p) /\ payments'[p].status = "PENDING"
  BY <1>1 DEF CreateOrder, TypeOK, DataTypeOK
<1>2. ASSUME NEW t \in Threads, MarkPaidIfPending(t)
      PROVE  \/ payments'[p] = payments[p]
             \/ /\ payments[p].status = "PENDING"
                /\ payments'[p] = [payments[p] EXCEPT !.status = "PAID"]
                /\ p = desk[t].order
  BY <1>2 DEF MarkPaidIfPending, TypeOK, DataTypeOK
<1>3. ASSUME NEW o \in Orders, NEW s \in {"PENDING", "PAID", "FAILED"},
             OnlineSettlement(o, s)
      PROVE  \/ payments'[p] = payments[p]
             \/ payments[p].method = "RAZORPAY" /\ payments'[p].method = "RAZORPAY"
  BY <1>3 DEF OnlineSettlement, TypeOK, DataTypeOK, PaymentRow
<1> QED
  BY <1>1, <1>2, <1>3, DataSteps
     DEF dataVars, CommitStatus, ClaimPickup, ClaimDelivery

LEMMA CashStep ==
    ASSUME TypeOK, RequestsValid, StatusIsLatest, Cash, [Next]_deskVars
    PROVE  Cash'
<1> USE DEF Cash
<1>1. \A p \in Orders : payments[p] \in PaymentRow
  BY DEF TypeOK, DataTypeOK
<1>2. CashStatus'
  BY <1>1, PaymentOfStep DEF CashStatus, PaymentRow
<1>3. DeliveredIsCollected'
  <2> SUFFICES ASSUME NEW p \in Orders, payments'[p].method = "COD",
                      NEW i \in DOMAIN history'[p], history'[p][i].status = "DELIVERED"
               PROVE  payments'[p].status = "PAID"
    BY DEF DeliveredIsCollected, HasBeen
  <2>1. CASE /\ OrderExists(p) /\ i \in DOMAIN history[p]
             /\ history'[p][i] = history[p][i]
    <3>1. Stable(p)
      BY <2>1, Stability
    <3>2. payments[p].method = "COD" /\ HasBeen(p, "DELIVERED")
      BY <2>1, <3>1 DEF Stable, HasBeen
    <3> QED
      BY <3>1, <3>2 DEF Stable, DeliveredIsCollected
  <2>2. ASSUME NEW t \in Threads, CommitStatus(t), p = desk[t].order,
               history'[p][i] = HistoryEntry(desk[t])
        PROVE  payments'[p].status = "PAID"
    <3>1. desk[t].new = "DELIVERED" /\ payments' = payments
      BY <2>2 DEF HistoryEntry, CommitStatus
    <3>2. Transition(desk[t]) = Delivery
      BY <2>2, <3>1 DEF CommitStatus, RequestsValid, RequestValid, Transition,
                        ValidOrderTransitions, Pickup, Delivery
    <3>3. payments[p].method = "COD" => payments[p].status = "PAID"
      BY <2>2, <3>2 DEF CommitStatus, RequestsValid, RequestValid
    <3> QED
      BY <3>1, <3>3
  <2>3. ASSUME NEW u \in Users,
               history'[p][i] = [status |-> "PENDING_PICKUP", by |-> u]
        PROVE  FALSE
    BY <2>3
  <2> QED
    BY <2>1, <2>2, <2>3, RowsOfStep
<1>4. CollectedAtTheDoor'
  <2> SUFFICES ASSUME NEW p \in Orders, payments'[p].method = "COD",
                      payments'[p].status = "PAID"
               PROVE  HasBeen(p, "OUT_FOR_DELIVERY")'
    BY DEF CollectedAtTheDoor
  <2>1. OrderExists(p) /\ HasBeen(p, "OUT_FOR_DELIVERY")
    <3>1. CASE payments'[p] = payments[p]
      BY <3>1 DEF CollectedAtTheDoor, StatusIsLatest, NoPayment
    <3>2. ASSUME NEW t \in Threads, MarkPaidIfPending(t), p = desk[t].order
          PROVE  OrderExists(p) /\ HasBeen(p, "OUT_FOR_DELIVERY")
      BY <3>2 DEF MarkPaidIfPending, RequestsValid, RequestValid
    <3> QED
      BY <3>1, <3>2, PaymentOfStep
  <2> QED
    BY <2>1, Stability DEF Stable, HasBeen
<1>5. CollectReplyIsTrue'
  <2> SUFFICES ASSUME NEW t \in Threads, desk'[t].step = "report"
               PROVE  payments'[desk'[t].order].status = "PAID"
    BY DEF CollectReplyIsTrue
  <2>1. desk[t] \in DeskRequest
    BY DEF TypeOK, DeskTypeOK
  <2>2. CASE desk'[t] = desk[t]
    <3>1. /\ payments[desk[t].order].status = "PAID"
          /\ payments[desk[t].order].method = "COD"
          /\ desk[t].order \in Orders /\ OrderExists(desk[t].order)
      BY <2>2 DEF CollectReplyIsTrue, RequestsValid, RequestValid
    <3> QED
      BY <2>2, <3>1, Stability DEF Stable
  <2>3. CASE LoadPaymentForCollect(t)
    BY <2>1, <2>3 DEF LoadPaymentForCollect, Continue, Finish, Idle, DeskRequest, dataVars,
                      TypeOK, DeskTypeOK
  <2>4. CASE MarkPaidIfPending(t)
    <3>1. /\ payments[desk[t].order].status \in {"PENDING", "PAID"}
          /\ desk[t].order \in Orders
      BY <2>4 DEF MarkPaidIfPending, RequestsValid, RequestValid, CashStatus
    <3>2. desk'[t].order = desk[t].order
      BY <2>1, <2>4 DEF MarkPaidIfPending, Continue, DeskRequest, TypeOK, DeskTypeOK
    <3>3. payments'[desk[t].order].status = "PAID"
      <4> DEFINE o == desk[t].order
      <4>1. CASE payments[o].status = "PENDING"
        <5>1. payments'[o] = [payments[o] EXCEPT !.status = "PAID"]
          BY <2>4, <3>1, <4>1 DEF MarkPaidIfPending, TypeOK, DataTypeOK
        <5> QED
          BY <1>1, <3>1, <5>1 DEF PaymentRow
      <4>2. CASE payments[o].status # "PENDING"
        BY <2>4, <3>1, <4>2 DEF MarkPaidIfPending
      <4> QED
        BY <4>1, <4>2
    <3> QED
      BY <3>2, <3>3
  <2>5. \/ desk'[t] = desk[t] \/ LoadPaymentForCollect(t) \/ MarkPaidIfPending(t)
    <3>1. ASSUME NEW s \in Threads, ThreadStep(s), s # t
          PROVE  desk'[t] = desk[t]
      BY <3>1 DEF ThreadStep, LoadOrderForUpdate, CheckPaymentGate, CommitStatus,
           LoadOrderForCollect, LoadPaymentForCollect, MarkPaidIfPending, ReportCollected,
           AbortDesk, Continue, Finish, TypeOK, DeskTypeOK
    <3>2. CASE ThreadStep(t)
      <4> USE <2>1 DEF TypeOK, DeskTypeOK, DeskRequest
      <4>1. ASSUME NEW u \in Users, NEW o \in Orders, NEW new \in OrderStatus,
                   LoadOrderForUpdate(t, u, o, new)
            PROVE  desk'[t].step # "report"
        BY <4>1 DEF LoadOrderForUpdate
      <4>2. CASE CheckPaymentGate(t)
        BY <4>2 DEF CheckPaymentGate, Continue, Finish, Idle
      <4>3. CASE CommitStatus(t) \/ ReportCollected(t) \/ AbortDesk(t)
        BY <4>3 DEF CommitStatus, ReportCollected, AbortDesk, Finish, Idle
      <4>4. ASSUME NEW u \in Users, NEW o \in Orders, LoadOrderForCollect(t, u, o)
            PROVE  desk'[t].step # "report"
        BY <4>4 DEF LoadOrderForCollect
      <4> QED
        BY <3>2, <4>1, <4>2, <4>3, <4>4 DEF ThreadStep
    <3> QED
      BY <3>1, <3>2 DEF Next, DeskStepOfUser, PlaceOrder, ClaimPickup, ClaimDelivery,
                        OnlineSettlement, deskVars
  <2> QED
    BY <2>2, <2>3, <2>4, <2>5
<1> QED
  BY <1>2, <1>3, <1>4, <1>5

-----------------------------------------------------------------------------
(***************************************************************************)
(* The theorems.                                                           *)
(***************************************************************************)
LEMMA UnassignedStep ==
    ASSUME TypeOK, RequestsValid, Unassigned, [Next]_deskVars
    PROVE  Unassigned'
<1> SUFFICES ASSUME NEW p \in Orders, ~OrderExists(p)'
             PROVE  orders'[p].pickup_agent = Null /\ orders'[p].delivery_agent = Null
  BY DEF Unassigned
<1>1. ~OrderExists(p)
  BY Stability DEF Stable, OrderExists
<1>2. orders'[p] = orders[p] \/ \E u \in Users : orders'[p] = NewOrder(u)
  <2>1. ASSUME NEW t \in Threads, CommitStatus(t)
        PROVE  orders'[p] = orders[p]
    BY <1>1, <2>1, TypedRequest DEF CommitStatus, TypeOK, DataTypeOK
  <2> QED
    BY <1>1, <2>1, DataSteps
       DEF dataVars, CreateOrder, ClaimPickup, ClaimDelivery, MarkPaidIfPending,
           OnlineSettlement, OrderExists, TypeOK, DataTypeOK
<1> QED
  BY <1>1, <1>2 DEF Unassigned, NewOrder, NoOrder

LEMMA InvInit == Init => IInv
<1> SUFFICES ASSUME Init PROVE IInv
  OBVIOUS
<1> USE DataAssumption
<1>1. PICK owner \in [LegacyOrders -> Users] :
         /\ orders = [o \in Orders |-> IF o \in LegacyOrders
                                       THEN NewOrder(owner[o]) ELSE NoOrder]
         /\ history = [o \in Orders |-> IF o \in LegacyOrders
                                        THEN FirstHistory(owner[o]) ELSE <<>>]
         /\ payments = [o \in Orders |-> NoPayment]
         /\ desk = [t \in Threads |-> Idle]
  BY DEF Init, DataInit
<1>2. \A u \in Users : /\ NewOrder(u) \in OrderRow
                       /\ FirstHistory(u) \in Seq(HistoryRow)
  <2> SUFFICES ASSUME NEW u \in Users
               PROVE  NewOrder(u) \in OrderRow /\ FirstHistory(u) \in Seq(HistoryRow)
    OBVIOUS
  <2>1. NewOrder(u) \in OrderRow
    BY DEF NewOrder, NoOrder, OrderRow, OrderStatus
  <2>2. [status |-> "PENDING_PICKUP", by |-> u] \in HistoryRow
    BY DEF HistoryRow, OrderStatus
  <2> QED
    BY <2>1, <2>2 DEF FirstHistory
<1>3. TypeOK
  <2>1. NoOrder \in OrderRow /\ NoPayment \in PaymentRow /\ <<>> \in Seq(HistoryRow)
    BY DEF NoOrder, OrderRow, NoPayment, PaymentRow
  <2>2. \A o \in LegacyOrders : owner[o] \in Users
    OBVIOUS
  <2> QED
    BY <1>1, <1>2, <2>1, <2>2, IdleRequest DEF TypeOK, DataTypeOK, DeskTypeOK
<1>4. RequestsValid
  BY <1>1, IdleRequest DEF RequestsValid
<1>5. ASSUME NEW o \in Orders
      PROVE  \/ /\ o \in LegacyOrders
                /\ \E u \in Users : /\ orders[o] = NewOrder(u)
                                    /\ history[o] = FirstHistory(u)
             \/ orders[o] = NoOrder /\ history[o] = <<>>
  BY <1>1
<1>6. \A u \in Users : NewOrder(u).status = "PENDING_PICKUP" /\ NewOrder(u).user = u
  BY DEF NewOrder, NoOrder
<1>7. ASSUME NEW o \in Orders
      PROVE  \/ orders[o] = NoOrder /\ history[o] = <<>>
             \/ /\ orders[o].status = "PENDING_PICKUP"
                /\ history[o] = FirstHistory(orders[o].user)
                /\ orders[o].user \in Users
  <2>1. ASSUME NEW u \in Users, orders[o] = NewOrder(u), history[o] = FirstHistory(u)
        PROVE  /\ orders[o].status = "PENDING_PICKUP"
               /\ history[o] = FirstHistory(orders[o].user)
               /\ orders[o].user \in Users
    BY <1>6, <2>1
  <2> QED
    BY <1>5, <2>1
<1>8. StatusIsLatest
  <2> SUFFICES ASSUME NEW o \in Orders
               PROVE  IF OrderExists(o)
                      THEN /\ history[o] # <<>>
                           /\ orders[o].status = history[o][Len(history[o])].status
                      ELSE history[o] = <<>> /\ payments[o] = NoPayment
    BY DEF StatusIsLatest
  <2>1. payments[o] = NoPayment
    BY <1>1
  <2>2. CASE orders[o] = NoOrder /\ history[o] = <<>>
    BY <2>1, <2>2 DEF OrderExists, NoOrder
  <2>3. CASE /\ orders[o].status = "PENDING_PICKUP"
             /\ history[o] = FirstHistory(orders[o].user)
             /\ orders[o].user \in Users
    <3>1. /\ history[o] # <<>>
          /\ Len(history[o]) = 1
          /\ history[o][1].status = "PENDING_PICKUP"
      BY <2>3 DEF FirstHistory
    <3> QED
      BY <2>3, <3>1 DEF OrderExists
  <2> QED
    BY <2>2, <2>3, <1>7
<1> DEFINE First(o) == \A i \in DOMAIN history[o] :
                          /\ i = 1
                          /\ history[o][i].status = "PENDING_PICKUP"
                          /\ history[o][i].by = orders[o].user
<1>9. ASSUME NEW o \in Orders PROVE First(o)
  <2>1. CASE history[o] = <<>>
    BY <2>1
  <2>2. CASE orders[o].user \in Users /\ history[o] = FirstHistory(orders[o].user)
    <3>1. /\ DOMAIN history[o] = {1}
          /\ history[o][1].status = "PENDING_PICKUP"
          /\ history[o][1].by = orders[o].user
      BY <2>2 DEF FirstHistory
    <3> QED
      BY <3>1
  <2> QED
    BY <2>1, <2>2, <1>7
<1>10. Provenance /\ Custody
  <2>1. Provenance
    BY <1>9 DEF Provenance
  <2>2. Custody
    BY <1>9 DEF Custody
  <2> QED
    BY <2>1, <2>2
<1>11. Unassigned
  <2> SUFFICES ASSUME NEW o \in Orders, ~OrderExists(o)
               PROVE  orders[o].pickup_agent = Null /\ orders[o].delivery_agent = Null
    BY DEF Unassigned
  <2>1. orders[o] = NoOrder
    BY <1>7 DEF OrderExists
  <2> QED
    BY <2>1 DEF NoOrder
<1>12. Cash
  BY <1>1 DEF Cash, CashStatus, DeliveredIsCollected, CollectedAtTheDoor,
              CollectReplyIsTrue, NoPayment, Idle
<1> QED
  BY <1>3, <1>4, <1>8, <1>10, <1>11, <1>12 DEF IInv, Cash

LEMMA InvStep ==
    ASSUME IInv, [Next]_deskVars
    PROVE  IInv'
BY TypeStep, RequestsStep, StatusStep, ProvenanceStep, CustodyStep, CashStep,
   UnassignedStep DEF IInv, Cash

\* The inductive invariant: the properties below are conjuncts of it.
THEOREM Invariance == Spec => []IInv
BY InvInit, InvStep, PTL DEF Spec

\* The rows of the database and the requests stay well formed.
THEOREM TypeCorrect == Spec => []TypeOK
<1>1. IInv => TypeOK
  BY DEF IInv
<1> QED
  BY Invariance, <1>1, PTL

\* Overlapping requests never record a status that was not reached by a
\* permitted transition from a status the order had.
THEOREM ProvenanceCorrect == Spec => []Provenance
<1>1. IInv => Provenance
  BY DEF IInv
<1> QED
  BY Invariance, <1>1, PTL

\* Agents act only on orders assigned to them, customers on their own.
THEOREM CustodyCorrect == Spec => []Custody
<1>1. IInv => Custody
  BY DEF IInv
<1> QED
  BY Invariance, <1>1, PTL

\* No COD order is recorded as delivered before its cash is in.
THEOREM DeliveredCorrect == Spec => []DeliveredIsCollected
<1>1. IInv => DeliveredIsCollected
  BY DEF IInv
<1> QED
  BY Invariance, <1>1, PTL

\* Cash is collected only for orders that went out for delivery.
THEOREM CollectedCorrect == Spec => []CollectedAtTheDoor
<1>1. IInv => CollectedAtTheDoor
  BY DEF IInv
<1> QED
  BY Invariance, <1>1, PTL

\* The reply to a collection is true when it is given.
THEOREM ReplyCorrect == Spec => []CollectReplyIsTrue
<1>1. IInv => CollectReplyIsTrue
  BY DEF IInv
<1> QED
  BY Invariance, <1>1, PTL

\* A claim that was won stays won.
THEOREM ClaimsCorrect == Spec => ClaimsKept
<1> DEFINE Step == \A o \in Orders :
              /\ orders[o].pickup_agent # Null =>
                    orders'[o].pickup_agent = orders[o].pickup_agent
              /\ orders[o].delivery_agent # Null =>
                    orders'[o].delivery_agent = orders[o].delivery_agent
<1>1. ASSUME IInv, [Next]_deskVars
      PROVE  [Step]_deskVars
  <2>1. ASSUME NEW o \in Orders, OrderExists(o)
        PROVE  Stable(o)
    BY <1>1, <2>1, Stability DEF IInv
  <2>2. ASSUME NEW o \in Orders, ~OrderExists(o)
        PROVE  orders[o].pickup_agent = Null /\ orders[o].delivery_agent = Null
    BY <1>1, <2>2 DEF IInv, Unassigned
  <2> QED
    BY <2>1, <2>2 DEF Stable
<1> QED
  BY Invariance, <1>1, PTL DEF Spec, ClaimsKept

\* Cash that was collected stays collected, and its amount stands.
THEOREM CashCorrect == Spec => CashStaysCollected
<1> DEFINE Step == \A o \in Orders :
              payments[o].method = "COD" =>
                  /\ payments[o].status = "PAID" => payments'[o] = payments[o]
                  /\ payments'[o].amount = payments[o].amount
<1>1. ASSUME IInv, [Next]_deskVars
      PROVE  [Step]_deskVars
  <2> SUFFICES ASSUME NEW o \in Orders, payments[o].method = "COD"
               PROVE  /\ payments[o].status = "PAID" => payments'[o] = payments[o]
                      /\ payments'[o].amount = payments[o].amount
    OBVIOUS
  <2>1. OrderExists(o)
    BY <1>1 DEF IInv, StatusIsLatest, NoPayment
  <2>2. Stable(o)
    BY <1>1, <2>1, Stability DEF IInv
  <2>3. payments[o] \in PaymentRow /\ payments'[o] \in PaymentRow
    BY <1>1, TypeStep DEF IInv, TypeOK, DataTypeOK
  <2> QED
    BY <2>2, <2>3 DEF Stable, PaymentRow
<1> QED
  BY Invariance, <1>1, PTL DEF Spec, CashStaysCollected

-----------------------------------------------------------------------------
(***************************************************************************)
(* A status change whose read is not stale.                                *)
(***************************************************************************)

\* A status change that replaces the status it was checked against follows
\* on the last row of the audit trail.
LEMMA LegalStep ==
    ASSUME IInv, [Next]_deskVars, NEW p \in Orders, TrailLegal(p),
           \A t \in Threads : CommitStatus(t) /\ desk[t].order = p
                                  => orders[p].status = desk[t].seen
    PROVE  TrailLegal(p)'
<1> DEFINE Legal(h, i) ==
        /\ <<h[i - 1].status, h[i].status>> \in ValidOrderTransitions
        /\ <<<<h[i - 1].status, h[i].status>>, RoleOf[h[i].by]>> \in TransitionPermissions
<1> SUFFICES ASSUME NEW i \in DOMAIN history'[p], i > 1
             PROVE  Legal(history'[p], i)
  BY DEF TrailLegal
<1>typed. TypeOK /\ RequestsValid /\ StatusIsLatest
  BY DEF IInv
<1>1. i \in DOMAIN history[p] => Legal(history[p], i)
  BY DEF TrailLegal
<1>2. CASE history'[p] = history[p]
  BY <1>1, <1>2
<1>3. ASSUME NEW o \in Orders, NEW u \in Users, NEW m \in PaymentMethod,
             NEW n \in Amounts, CreateOrder(o, u, m, n)
      PROVE  Legal(history'[p], i)
  <2>1. CASE p = o
    <3>1. history'[p] = FirstHistory(u)
      BY <1>3, <1>typed, <2>1, CreatedRow
    <3>2. DOMAIN FirstHistory(u) = {1}
      BY DEF FirstHistory
    <3> QED
      BY <3>1, <3>2
  <2>2. CASE p # o
    BY <1>2, <1>3, <1>typed, <2>2, CreatedRow
  <2> QED
    BY <2>1, <2>2
<1>4. ASSUME NEW t \in Threads, CommitStatus(t)
      PROVE  Legal(history'[p], i)
  <2>1. CASE p # desk[t].order
    BY <1>2, <1>4, <1>typed, <2>1 DEF CommitStatus, TypeOK, DataTypeOK
  <2>2. CASE p = desk[t].order
    <3>1. /\ OrderExists(p)
          /\ DOMAIN history[p] = 1 .. Len(history[p])
          /\ Len(history[p]) \in Nat
          /\ DOMAIN history'[p] = 1 .. Len(history[p]) + 1
          /\ \A j \in DOMAIN history[p] : history'[p][j] = history[p][j]
      BY <1>4, <1>typed, <2>2, CommittedRow
    <3>2. history'[p][Len(history[p]) + 1] = HistoryEntry(desk[t])
      BY <1>4, <1>typed, <2>2, CommittedRow
    <3>3. CASE i \in DOMAIN history[p]
      <4>1. i - 1 \in DOMAIN history[p]
        BY <3>1, <3>3
      <4> QED
        BY <1>1, <3>1, <3>3, <4>1
    <3>4. CASE i \notin DOMAIN history[p]
      <4>1. i - 1 = Len(history[p]) /\ i - 1 \in DOMAIN history[p]
        BY <3>1, <3>4
      <4>2. /\ <<desk[t].seen, desk[t].new>> \in ValidOrderTransitions
            /\ <<<<desk[t].seen, desk[t].new>>, RoleOf[desk[t].user]>>
                  \in TransitionPermissions
        BY <1>4, <1>typed, <2>2 DEF CommitStatus, RequestsValid, RequestValid, Transition, Permitted
      <4>3. orders[p].status = desk[t].seen
        BY <1>4, <2>2
      <4>4. history'[p][i - 1].status = desk[t].seen
        BY <1>typed, <3>1, <4>1, <4>3 DEF StatusIsLatest
      <4>5. history'[p][i].status = desk[t].new /\ history'[p][i].by = desk[t].user
        BY <3>1, <3>2, <4>1 DEF HistoryEntry
      <4> QED
        BY <4>2, <4>4, <4>5
    <3> QED
      BY <3>3, <3>4
  <2> QED
    BY <2>1, <2>2
<1> QED
  BY <1>2, <1>3, <1>4, <1>typed, DataSteps, QuietStep

\* The audit trails are empty at first, or have one row.
LEMMA LegalInit == Init => LifecycleLegal
<1> SUFFICES ASSUME Init, NEW o \in Orders, NEW i \in DOMAIN history[o] PROVE ~(i > 1)
  BY DEF LifecycleLegal, TrailLegal
<1>1. PICK owner \in [LegacyOrders -> Users] :
          history = [p \in Orders |-> IF p \in LegacyOrders
                                      THEN FirstHistory(owner[p]) ELSE <<>>]
  BY DEF Init, DataInit
<1>2. history[o] = <<>> \/ \E u : history[o] = FirstHistory(u)
  BY <1>1
<1>3. \A u : DOMAIN FirstHistory(u) = {1}
  BY DEF FirstHistory
<1> QED
  BY <1>2, <1>3
=============================================================================
