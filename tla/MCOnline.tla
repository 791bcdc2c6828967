----------------------------- MODULE MCOnline ------------------------------
(***************************************************************************)
(* Instances of OnlinePayment.  The identity of the owner plays no part in *)
(* the payment of an order, so one customer is enough.                     *)
(***************************************************************************)
EXTENDS OnlinePayment, TLC

RoleOfUser == [u \in Users |-> "CUSTOMER"]

(***************************************************************************)
(* A reduction that, unlike SYMMETRY, may be combined with liveness.  Ids  *)
(* are interchangeable, so it is enough to look at the behaviors that take *)
(* them in one order; placing an order commutes with every step that is    *)
(* not about it, so it is enough to look at those that place them first.   *)
(***************************************************************************)
TakenInOrder(Ids, used(_), usedNext(_)) ==
    \A id \in Ids :
        ~used(id) /\ usedNext(id) => id = CHOOSE x \in Ids : ~used(x)

Reduced ==
    /\ orders' = orders => \A o \in Orders : OrderExists(o)
    /\ TakenInOrder(Orders, OrderExists, LAMBDA o : orders'[o] # NoOrder)
    /\ TakenInOrder(RzpOrders, LAMBDA r : receipt[r] # Null,
                               LAMBDA r : receipt'[r] # Null)
    /\ TakenInOrder(Attempts, LAMBDA a : attempt[a].state # "none",
                              LAMBDA a : attempt'[a].state # "none")

ReducedFairSpec == Init /\ [][Next /\ Reduced]_paymentVars /\ Fairness
=============================================================================
