----------------------------- MODULE MCLaundry -----------------------------
(***************************************************************************)
(* Instances of Laundry, with an agent and a member of the staff, who      *)
(* share the work, or an admin, who may do all of it.                      *)
(***************************************************************************)
EXTENDS Laundry, TLC

CONSTANTS admin, agent, staff

RoleOfUser ==
    [u \in Users |->
        CASE u = admin -> "ADMIN"
          [] u = agent -> "DELIVERY_AGENT"
          [] u = staff -> "STAFF"]

Symmetry ==
    Permutations(Threads \ {EventLoop}) \cup Permutations(Orders \ LegacyOrders)
    \cup Permutations(RzpOrders) \cup Permutations(Attempts)

Placed(trail) ==
    [i \in DOMAIN trail |-> IF i = 1 THEN [trail[i] EXCEPT !.by = Null] ELSE trail[i]]

\* Without a customer among the users it is immaterial who has placed an
\* order: nothing that an agent or the staff may do depends on it.
WithoutOwners ==
    <<[o \in Orders |-> [orders[o] EXCEPT !.user = Null]], payments,
      [o \in Orders |-> Placed(history[o])], desk, onlineVars, contested>>
=============================================================================
