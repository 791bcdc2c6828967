--------------------------- MODULE OrderWorkflow ---------------------------
(***************************************************************************)
(* The tables of app/core/workflow.py and the enumerations they are built  *)
(* from.  A Python dict from a status to the list of its successors is the *)
(* relation of the pairs <<from, to>> it allows; a dict from such a pair   *)
(* to a list of roles is the relation of the pairs <<<<from, to>>, role>>. *)
(***************************************************************************)

OrderStatus ==
    {"PENDING_PICKUP", "PICKED_UP", "RECEIVED", "SORTING", "WASHING",
     "DRYING", "IRONING", "PACKING", "OUT_FOR_DELIVERY", "DELIVERED",
     "CANCELLED"}

UserRole == {"CUSTOMER", "STAFF", "DELIVERY_AGENT", "ADMIN"}

PaymentMethod == {"RAZORPAY", "COD"}

PaymentStatus == {"PENDING", "PAID", "FAILED", "REFUNDED"}

\* The two transitions in which an agent takes or hands over the laundry.
Pickup   == <<"PENDING_PICKUP", "PICKED_UP">>
Delivery == <<"OUT_FOR_DELIVERY", "DELIVERED">>

\* Is the transition itself valid, whoever asks?
ValidOrderTransitions ==
    { Pickup,
      <<"PENDING_PICKUP", "CANCELLED">>,
      <<"PICKED_UP", "RECEIVED">>,
      <<"PICKED_UP", "CANCELLED">>,
      <<"RECEIVED", "SORTING">>,
      <<"RECEIVED", "OUT_FOR_DELIVERY">>,
      <<"SORTING", "WASHING">>,
      <<"WASHING", "DRYING">>,
      <<"DRYING", "IRONING">>,
      <<"DRYING", "PACKING">>,
      <<"IRONING", "PACKING">>,
      <<"PACKING", "OUT_FOR_DELIVERY">>,
      Delivery }

\* The transitions an agent performs for an order assigned to him.
AgentOwnershipTransitions == {Pickup, Delivery}

\* The transitions that happen inside the laundry.
StaffTransitions ==
    { <<"PICKED_UP", "RECEIVED">>,
      <<"PICKED_UP", "CANCELLED">>,
      <<"RECEIVED", "SORTING">>,
      <<"RECEIVED", "OUT_FOR_DELIVERY">>,
      <<"SORTING", "WASHING">>,
      <<"WASHING", "DRYING">>,
      <<"DRYING", "IRONING">>,
      <<"DRYING", "PACKING">>,
      <<"IRONING", "PACKING">>,
      <<"PACKING", "OUT_FOR_DELIVERY">> }

\* Who may perform a transition, valid or not?
TransitionPermissions ==
    (AgentOwnershipTransitions \X {"DELIVERY_AGENT", "ADMIN"})
    \cup ({<<"PENDING_PICKUP", "CANCELLED">>} \X {"CUSTOMER", "STAFF", "ADMIN"})
    \cup (StaffTransitions \X {"STAFF", "ADMIN"})
=============================================================================
