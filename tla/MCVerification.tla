--------------------------- MODULE MCVerification ---------------------------
(***************************************************************************)
(* Instances of Verification.  Codes are as many as are ever sent.         *)
(***************************************************************************)
EXTENDS Verification, TLC

Symmetry == Permutations(Threads) \cup Permutations(Codes)

\* The requests that will write to the row of code v, or read it again.
Holders(v) ==
    {t \in Threads : request[t].code = v
                     /\ request[t].step \in {"count", "recount", "retire", "use"}}

Dead(v) == code[v].used \/ code[v].invalidated \/ code[v].age = "expired"

\* What the future and the invariants depend on in a row.  Of a code that is
\* dead and that nobody works on it is the key alone; while somebody works on
\* a dead code it matters whether it may be deleted.
Abbreviated(v) ==
    IF ~Dead(v) THEN code[v]
    ELSE IF Holders(v) # {}
         THEN [code[v] EXCEPT !.age = IF @ = "expired" THEN @ ELSE "cool"]
         ELSE [NoCode EXCEPT !.key = code[v].key, !.deleted = TRUE]

\* The guesses at a code matter until nobody can make another.
Open(v) == ~Dead(v) \/ Holders(v) # {}

\* States that differ in nothing else are taken for one.  The OTP of a dead
\* code is as good as a wrong one.
View ==
    <<[v \in Codes |-> Abbreviated(v)], {v \in mailed : ~Dead(v)},
      effects, request, [v \in {w \in Codes : Open(w)} |-> counted[v]]>>
=============================================================================
