------------------------------- MODULE MCDesk -------------------------------
(***************************************************************************)
(* Instances of OrderDesk: each kind of user, and two agents who compete.  *)
(***************************************************************************)
EXTENDS OrderDesk, TLC

CONSTANTS customer, staff, agent1, agent2, admin

RoleOfUser ==
    [u \in Users |->
        CASE u = customer           -> "CUSTOMER"
          [] u = staff              -> "STAFF"
          [] u \in {agent1, agent2} -> "DELIVERY_AGENT"
          [] u = admin              -> "ADMIN"]

Symmetry == Permutations(Threads) \cup Permutations(Users \cap {agent1, agent2})
=============================================================================
