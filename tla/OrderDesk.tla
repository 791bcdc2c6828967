----------------------------- MODULE OrderDesk -----------------------------
(***************************************************************************)
(* What customers, staff and agents do to an order at the desk: change its *)
(* status (PATCH /orders/{id}/status), claim its pickup or its delivery,   *)
(* and collect the cash of a COD order.                                    *)
(*                                                                         *)
(* A request that reads and later writes is a sequence of steps of the     *)
(* thread that serves it; desk[t] is what thread t carries from one step   *)
(* to the next.  The steps of two threads interleave, and nothing that a   *)
(* request has read is locked.  A request that is refused changes nothing, *)
(* so a refusal is an action only when it frees a thread.                  *)
(*                                                                         *)
(* The online payments of module OnlinePayment appear here as the          *)
(* environment: they move the status of a RAZORPAY payment at any time.    *)
(***************************************************************************)
EXTENDS LaundryData

CONSTANT MaxHistory \* bound: the history rows an order may have

ASSUME DeskAssumption == MaxHistory \in Nat

VARIABLE desk

deskVars == <<orders, payments, history, desk>>

(***************************************************************************)
(* step is what the thread does next, for the given user and order; seen   *)
(* is the status the order had when the thread read it, and new the status *)
(* the user asks for.                                                      *)
(***************************************************************************)
DeskStep == {"idle", "gate", "commit", "load_payment", "mark", "report"}

DeskRequest ==
    [step  : DeskStep,
     user  : Users \cup {Null},
     order : Orders \cup {Null},
     seen  : OrderStatus \cup {"NONE"},
     new   : OrderStatus \cup {"NONE"}]

Idle == [step |-> "idle", user |-> Null, order |-> Null,
         seen |-> "NONE", new |-> "NONE"]

Transition(request) == <<request.seen, request.new>>

DeskTypeOK == desk \in [Threads -> DeskRequest]

TypeOK == DataTypeOK /\ DeskTypeOK

Init == DataInit /\ desk = [t \in Threads |-> Idle]

Continue(t, step) == desk' = [desk EXCEPT ![t].step = step]
Finish(t)         == desk' = [desk EXCEPT ![t] = Idle]

-----------------------------------------------------------------------------
(***************************************************************************)
(* PATCH /orders/{id}/status.                                              *)
(***************************************************************************)

\* A customer acts on his own order, an agent on one assigned to him.
\* ADMIN overrides both, and STAFF own no orders.
OwnsTransition(u, o, transition) ==
    /\ RoleOf[u] = "CUSTOMER" => orders[o].user = u
    /\ RoleOf[u] = "DELIVERY_AGENT" =>
        /\ transition = Pickup   => orders[o].pickup_agent = u
        /\ transition = Delivery => orders[o].delivery_agent = u

\* Mutants: one of the two gates is missing.
GateOpen_NoPickupGate(transition, payment) ==
    transition = Delivery /\ payment.method = "COD" => payment.status = "PAID"
GateOpen_NoDeliveryGate(transition, payment) ==
    transition = Pickup /\ payment.method = "RAZORPAY" => payment.status = "PAID"

\* An online order is paid before it is picked up, a COD order before it
\* counts as delivered.  Legacy orders have no payment and no gate.
GateOpen(transition, payment) ==
    /\ transition = Pickup /\ payment.method = "RAZORPAY"
          => payment.status = "PAID"
    /\ transition = Delivery /\ payment.method = "COD"
          => payment.status = "PAID"

\* Mutant: the role is not checked.
Permitted_Anyone(u, transition) == TRUE

Permitted(u, transition) == <<transition, RoleOf[u]>> \in TransitionPermissions

\* Read the order and check the transition, the role and the ownership.
LoadOrderForUpdate(t, u, o, new) ==
    LET transition == <<orders[o].status, new>> IN
    /\ desk[t] = Idle
    /\ OrderExists(o)
    /\ transition \in ValidOrderTransitions
    /\ Permitted(u, transition)
    /\ OwnsTransition(u, o, transition)
    /\ desk' = [desk EXCEPT ![t] =
                   [step |-> "gate", user |-> u, order |-> o,
                    seen |-> orders[o].status, new |-> new]]
    /\ UNCHANGED dataVars

\* Load the payment through the relationship and check the gate.
CheckPaymentGate(t) ==
    /\ desk[t].step = "gate"
    /\ IF GateOpen(Transition(desk[t]), payments[desk[t].order])
       THEN Continue(t, "commit")
       ELSE Finish(t)
    /\ UNCHANGED dataVars

HistoryEntry(request) == [status |-> request.new, by |-> request.user]

\* One commit writes the status column and inserts the history row, after
\* the rows of earlier commits.  The UPDATE names the order by its id alone:
\* whatever status the row has by now is replaced.
CommitStatus(t) ==
    LET o == desk[t].order IN
    /\ desk[t].step = "commit"
    /\ Len(history[o]) < MaxHistory
    /\ orders' = [orders EXCEPT ![o].status = desk[t].new]
    /\ history' = [history EXCEPT ![o] = Append(@, HistoryEntry(desk[t]))]
    /\ Finish(t)
    /\ UNCHANGED payments

-----------------------------------------------------------------------------
(***************************************************************************)
(* POST /delivery/orders/{id}/pickup/claim and .../delivery/claim: one     *)
(* UPDATE ... WHERE each, atomic in the database.                          *)
(***************************************************************************)
AgentOrAdmin == {u \in Users : RoleOf[u] \in {"DELIVERY_AGENT", "ADMIN"}}

\* Mutant: the WHERE clause does not ask that the pickup is unclaimed.
ClaimPickup_Overwrites(u, o) ==
    /\ u \in AgentOrAdmin
    /\ orders[o].status = "PENDING_PICKUP"
    /\ orders' = [orders EXCEPT ![o].pickup_agent = u]
    /\ UNCHANGED <<payments, history, desk>>

ClaimPickup(u, o) ==
    /\ u \in AgentOrAdmin
    /\ orders[o].status = "PENDING_PICKUP"
    /\ orders[o].pickup_agent = Null
    /\ orders' = [orders EXCEPT ![o].pickup_agent = u]
    /\ UNCHANGED <<payments, history, desk>>

\* Mutant: the WHERE clause does not ask that the delivery is unclaimed.
ClaimDelivery_Overwrites(u, o) ==
    /\ u \in AgentOrAdmin
    /\ orders[o].status = "OUT_FOR_DELIVERY"
    /\ orders' = [orders EXCEPT ![o].delivery_agent = u]
    /\ UNCHANGED <<payments, history, desk>>

ClaimDelivery(u, o) ==
    /\ u \in AgentOrAdmin
    /\ orders[o].status = "OUT_FOR_DELIVERY"
    /\ orders[o].delivery_agent = Null
    /\ orders' = [orders EXCEPT ![o].delivery_agent = u]
    /\ UNCHANGED <<payments, history, desk>>

-----------------------------------------------------------------------------
(***************************************************************************)
(* POST /payments/orders/{id}/cod/collect.                                 *)
(***************************************************************************)

\* Read the order; an agent must be the one assigned to its delivery.
LoadOrderForCollect(t, u, o) ==
    /\ desk[t] = Idle
    /\ u \in AgentOrAdmin
    /\ OrderExists(o)
    /\ RoleOf[u] = "DELIVERY_AGENT" => orders[o].delivery_agent = u
    /\ desk' = [desk EXCEPT ![t] =
                   [step |-> "load_payment", user |-> u, order |-> o,
                    seen |-> orders[o].status, new |-> "NONE"]]
    /\ UNCHANGED dataVars

\* Mutant: the status of the order is not checked.
Collectable_Anywhere(request, payment) == payment.method = "COD"

Collectable(request, payment) ==
    payment.method = "COD" /\ request.seen = "OUT_FOR_DELIVERY"

\* Read the payment.  A collected payment is reported as it is; a pending
\* one is marked next; everything else is refused.
LoadPaymentForCollect(t) ==
    LET payment == payments[desk[t].order]
        collectable == Collectable(desk[t], payment)
    IN
    /\ desk[t].step = "load_payment"
    /\ \/ collectable /\ payment.status = "PAID" /\ Continue(t, "report")
       \/ collectable /\ payment.status = "PENDING" /\ Continue(t, "mark")
       \/ ~(collectable /\ payment.status \in {"PAID", "PENDING"}) /\ Finish(t)
    /\ UNCHANGED dataVars

\* Mutant: the UPDATE is never committed.
MarkPaidIfPending_NoCommit(t) ==
    /\ desk[t].step = "mark"
    /\ Continue(t, "report")
    /\ UNCHANGED dataVars

\* UPDATE ... WHERE payment_status = PENDING.  The request that finds no
\* such row any more has lost a race, and reports the row as it is.
MarkPaidIfPending(t) ==
    LET o == desk[t].order IN
    /\ desk[t].step = "mark"
    /\ payments' = IF payments[o].status = "PENDING"
                   THEN [payments EXCEPT ![o].status = "PAID"]
                   ELSE payments
    /\ Continue(t, "report")
    /\ UNCHANGED <<orders, history>>

\* Read the payment for the reply.
ReportCollected(t) ==
    /\ desk[t].step = "report"
    /\ Finish(t)
    /\ UNCHANGED dataVars

-----------------------------------------------------------------------------
\* A request dies between two steps: the connection, the database or the
\* process fails, and what was not committed is lost.
AbortDesk(t) ==
    /\ desk[t] # Idle
    /\ Finish(t)
    /\ UNCHANGED dataVars

\* The environment: a checkout, a verification or a webhook moves the status
\* of an online payment.
OnlineSettlement(o, status) ==
    /\ payments[o].method = "RAZORPAY"
    /\ payments' = [payments EXCEPT ![o].status = status]
    /\ UNCHANGED <<orders, history, desk>>

PlaceOrder(o, u, method, amount) ==
    CreateOrder(o, u, method, amount) /\ UNCHANGED desk

ThreadStep(t) ==
    \/ \E u \in Users, o \in Orders, new \in OrderStatus :
          LoadOrderForUpdate(t, u, o, new)
    \/ CheckPaymentGate(t)
    \/ CommitStatus(t)
    \/ \E u \in Users, o \in Orders : LoadOrderForCollect(t, u, o)
    \/ LoadPaymentForCollect(t)
    \/ MarkPaidIfPending(t)
    \/ ReportCollected(t)
    \/ AbortDesk(t)

DeskStepOfUser ==
    \E u \in Users, o \in Orders :
        \/ \E method \in PaymentMethod, amount \in Amounts :
              PlaceOrder(o, u, method, amount)
        \/ ClaimPickup(u, o)
        \/ ClaimDelivery(u, o)

Next ==
    \/ \E t \in Threads : ThreadStep(t)
    \/ DeskStepOfUser
    \/ \E o \in Orders, status \in {"PENDING", "PAID", "FAILED"} :
          OnlineSettlement(o, status)

Spec == Init /\ [][Next]_deskVars

-----------------------------------------------------------------------------
(***************************************************************************)
(* What holds however the requests interleave.                             *)
(***************************************************************************)

HasBeen(o, status) ==
    \E i \in DOMAIN history[o] : history[o][i].status = status

\* Even when stale requests overwrite each other, no status is made up:
\* every row of the audit trail after the first is a valid transition from a
\* status the order really had earlier, made by a role that may make it.
Provenance ==
    \A o \in Orders : \A i \in DOMAIN history[o] : i > 1 =>
        \E j \in 1 .. i - 1 :
            LET transition == <<history[o][j].status, history[o][i].status>> IN
            /\ transition \in ValidOrderTransitions
            /\ <<transition, RoleOf[history[o][i].by]>> \in TransitionPermissions

\* The agents who are recorded as having taken and handed over the laundry
\* are the ones the order is assigned to, also after the assignment raced
\* with the status change, and a customer changes only his own order.
Custody ==
    \A o \in Orders : \A i \in DOMAIN history[o] :
        LET entry == history[o][i] IN
        /\ RoleOf[entry.by] = "DELIVERY_AGENT" =>
              /\ entry.status = "PICKED_UP" => orders[o].pickup_agent = entry.by
              /\ entry.status = "DELIVERED" => orders[o].delivery_agent = entry.by
        /\ RoleOf[entry.by] = "CUSTOMER" => orders[o].user = entry.by

\* A COD order is recorded as delivered only when its cash is in: the gate
\* of update_order_status is read before the commit, and still holds then.
DeliveredIsCollected ==
    \A o \in Orders :
        HasBeen(o, "DELIVERED") /\ payments[o].method = "COD"
            => payments[o].status = "PAID"

\* Cash is collected only for an order that really went out for delivery,
\* although collect_cod_payment judges by a status it read earlier.
CollectedAtTheDoor ==
    \A o \in Orders :
        payments[o].method = "COD" /\ payments[o].status = "PAID"
            => HasBeen(o, "OUT_FOR_DELIVERY")

\* The reply "COD payment collected" is true when it is given, also to the
\* agent whose tap lost the race (the comment in collect_cod_payment).
CollectReplyIsTrue ==
    \A t \in Threads :
        desk[t].step = "report" => payments[desk[t].order].status = "PAID"

\* A claim, once won, is never taken over by another claim, and no stale
\* status change puts the columns back (claim_pickup, claim_delivery).
ClaimsKept ==
    [][\A o \in Orders :
          /\ orders[o].pickup_agent # Null =>
                orders'[o].pickup_agent = orders[o].pickup_agent
          /\ orders[o].delivery_agent # Null =>
                orders'[o].delivery_agent = orders[o].delivery_agent]_deskVars

\* Collected cash is never uncollected: the row of a COD payment leaves
\* PENDING once and keeps its amount.
CashStaysCollected ==
    [][\A o \in Orders :
          payments[o].method = "COD" =>
              /\ payments[o].status = "PAID" => payments'[o] = payments[o]
              /\ payments'[o].amount = payments[o].amount]_deskVars

-----------------------------------------------------------------------------
(***************************************************************************)
(* What the tables of workflow.py say of all executions, and update_order_ *)
(* status keeps as long as it commits on a status it has not read too long *)
(* ago (module Laundry): nothing locks the row of the order in between.    *)
(***************************************************************************)

\* Consecutive status changes of an order are valid transitions, each made
\* by a role that may make it.
TrailLegal(o) ==
    \A i \in DOMAIN history[o] : i > 1 =>
        LET transition == <<history[o][i - 1].status, history[o][i].status>> IN
        /\ transition \in ValidOrderTransitions
        /\ <<transition, RoleOf[history[o][i].by]>> \in TransitionPermissions

\* "Both checks must pass" (workflow.py), for every status change.
LifecycleLegal == \A o \in Orders : TrailLegal(o)
=============================================================================
