-------------------------- MODULE AccountRegistry --------------------------
(***************************************************************************)
(* What the service promises about accounts.  An e-mail address and a      *)
(* phone number belong to one account; an account becomes verified, and    *)
(* moves to another address, only when a code that was mailed to that      *)
(* address on its behalf has come back.                                    *)
(***************************************************************************)
CONSTANTS
    Users,  \* ids of accounts
    Emails, \* e-mail addresses
    Phones, \* phone numbers
    Null    \* no value

VARIABLES
    account, \* account[u] is the row of account u, Null if there is none
    proven   \* proven[u] are the addresses from which a code of u came back

registryVars == <<account, proven>>

AccountRow == [email : Emails, phone : Phones, verified : BOOLEAN]

Exists(u) == account[u] # Null

EmailTaken(e) == \E u \in Users : Exists(u) /\ account[u].email = e
PhoneTaken(p) == \E u \in Users : Exists(u) /\ account[u].phone = p

Init ==
    /\ account = [u \in Users |-> Null]
    /\ proven = [u \in Users |-> {}]

Register(u, e, p) ==
    /\ ~Exists(u)
    /\ ~EmailTaken(e)
    /\ ~PhoneTaken(p)
    /\ account' = [account EXCEPT ![u] =
                      [email |-> e, phone |-> p, verified |-> FALSE]]
    /\ UNCHANGED proven

Prove(u, e) ==
    /\ Exists(u)
    /\ proven' = [proven EXCEPT ![u] = @ \cup {e}]
    /\ UNCHANGED account

Verify(u) ==
    /\ Exists(u)
    /\ account[u].email \in proven[u]
    /\ account' = [account EXCEPT ![u].verified = TRUE]
    /\ UNCHANGED proven

Move(u, e) ==
    /\ Exists(u)
    /\ e \in proven[u]
    /\ ~EmailTaken(e)
    /\ account' = [account EXCEPT ![u].email = e, ![u].verified = TRUE]
    /\ UNCHANGED proven

Next ==
    \E u \in Users :
        \/ \E e \in Emails, p \in Phones : Register(u, e, p)
        \/ \E e \in Emails : Prove(u, e) \/ Move(u, e)
        \/ Verify(u)

Spec == Init /\ [][Next]_registryVars

-----------------------------------------------------------------------------
TypeOK ==
    /\ account \in [Users -> AccountRow \cup {Null}]
    /\ proven \in [Users -> SUBSET Emails]

\* No two accounts share an address or a phone number.
OneAccountEach ==
    \A u, v \in Users :
        Exists(u) /\ Exists(v) /\ u # v =>
            /\ account[u].email # account[v].email
            /\ account[u].phone # account[v].phone

\* Whoever is verified has shown that the address he has is his.
VerifiedIsProven ==
    \A u \in Users :
        Exists(u) /\ account[u].verified => account[u].email \in proven[u]
=============================================================================
