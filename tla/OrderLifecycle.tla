--------------------------- MODULE OrderLifecycle ---------------------------
(***************************************************************************)
(* What the service promises of an order, without requests, agents, audit  *)
(* trail or Razorpay: the order walks along the valid transitions, its     *)
(* payment is settled once and for all, and the two payment gates hold.    *)
(* An order older than the payments table has no payment and no gate.      *)
(* The promise ends for an order that two requests contest, the later one  *)
(* writing what it concluded from rows that the other has changed since.   *)
(***************************************************************************)
EXTENDS OrderWorkflow

CONSTANTS
    Orders,
    LegacyOrders \* the orders that are older than the payments table

VARIABLES
    stage,  \* stage[o] is the status of order o, or "NONE" or "CONTESTED"
    method, \* method[o] is how o is paid, or "NONE"
    settled \* the orders whose payment is complete

lifecycleVars == <<stage, method, settled>>

TypeOK ==
    /\ stage \in [Orders -> OrderStatus \cup {"NONE", "CONTESTED"}]
    /\ method \in [Orders -> PaymentMethod \cup {"NONE"}]
    /\ settled \subseteq Orders

Init ==
    /\ stage = [o \in Orders |-> IF o \in LegacyOrders THEN "PENDING_PICKUP"
                                                       ELSE "NONE"]
    /\ method = [o \in Orders |-> "NONE"]
    /\ settled = {}

Place(o, m) ==
    /\ stage[o] = "NONE"
    /\ stage' = [stage EXCEPT ![o] = "PENDING_PICKUP"]
    /\ method' = [method EXCEPT ![o] = m]
    /\ UNCHANGED settled

\* Cash changes hands at the door; money moves online at any time.
Pay(o) ==
    /\ method[o] # "NONE"
    /\ stage[o] # "CONTESTED"
    /\ method[o] = "COD" => stage[o] = "OUT_FOR_DELIVERY"
    /\ settled' = settled \cup {o}
    /\ UNCHANGED <<stage, method>>

Gate(o, next) ==
    /\ <<stage[o], next>> = Pickup /\ method[o] = "RAZORPAY" => o \in settled
    /\ <<stage[o], next>> = Delivery /\ method[o] = "COD" => o \in settled

Advance(o, next) ==
    /\ <<stage[o], next>> \in ValidOrderTransitions
    /\ Gate(o, next)
    /\ stage' = [stage EXCEPT ![o] = next]
    /\ UNCHANGED <<method, settled>>

\* Nothing is promised of the status and the payment of the order any more.
Contest(o) ==
    /\ stage[o] # "NONE"
    /\ stage' = [stage EXCEPT ![o] = "CONTESTED"]
    /\ settled' = settled \ {o}
    /\ UNCHANGED method

Next ==
    \E o \in Orders :
        \/ \E m \in PaymentMethod : Place(o, m)
        \/ Pay(o)
        \/ \E next \in OrderStatus : Advance(o, next)
        \/ Contest(o)

Spec == Init /\ [][Next]_lifecycleVars

-----------------------------------------------------------------------------
\* The stages of an order that the laundry has taken in.
InHand == OrderStatus \ {"PENDING_PICKUP", "CANCELLED"}

\* The laundry never works on an online order that is not paid for, and no
\* order with a payment is delivered unpaid (step 4 of update_order_status).
NoUnpaidWork ==
    \A o \in Orders :
        /\ method[o] = "RAZORPAY" /\ stage[o] \in InHand => o \in settled
        /\ method[o] # "NONE" /\ stage[o] = "DELIVERED" => o \in settled
=============================================================================
