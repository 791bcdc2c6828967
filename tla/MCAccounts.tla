----------------------------- MODULE MCAccounts ----------------------------
(***************************************************************************)
(* Instances of Accounts.                                                  *)
(***************************************************************************)
EXTENDS Accounts, TLC

Symmetry == Permutations(Threads) \cup Permutations(Codes) \cup Permutations(Users)
    \cup Permutations(Phones) \cup Permutations(Emails)
=============================================================================
