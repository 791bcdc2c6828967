----------------------------- MODULE MCSessions -----------------------------
(***************************************************************************)
(* Instances of AuthSessions.  Sessions, tokens and passwords are as many  *)
(* as are ever created.                                                    *)
(***************************************************************************)
EXTENDS AuthSessions, TLC

Symmetry ==
    Permutations(Threads) \cup Permutations(Sessions) \cup Permutations(Tokens)
        \cup Permutations(Passwords \ {First})
=============================================================================
