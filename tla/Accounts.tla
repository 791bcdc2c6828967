------------------------------ MODULE Accounts -----------------------------
(***************************************************************************)
(* Sign-up, verification of the e-mail address and change of the address,  *)
(* as AuthService and VerificationService serve them: each SELECT and each *)
(* commit is a step, and the requests of different threads interleave.     *)
(*                                                                         *)
(* Of the codes only what accounts depend on is kept: whom a code was made *)
(* for, the address it was mailed to, and whether it is active.  Wrong     *)
(* OTPs, attempts and the cooldown are the matter of module Verification;  *)
(* here they are requests that end early.                                  *)
(***************************************************************************)
CONSTANTS
    Users,   \* ids of accounts
    Emails,  \* e-mail addresses
    Phones,  \* phone numbers
    Codes,   \* ids of the codes that are active or in the hands of a request
    Threads, \* the threads that serve requests
    Null     \* no value

VARIABLES
    users,   \* users[u] is the row of user u, Null if there is none
    codes,   \* codes[c] is an active row of verifications, or Null
    request, \* request[t] is what thread t carries between two steps
    proven,  \* proven[u] are the addresses from which a code of u came back
    held     \* held[t] is what others held while the sign-up of t ran

rows == <<users, codes, proven>>
vars == <<rows, request, held>>

UserRow == [email : Emails, phone : Phones, verified : BOOLEAN]

Purposes == {"EMAIL_VERIFICATION", "EMAIL_CHANGE"}

CodeRow == [user : Users, identifier : Emails, purpose : Purposes]

ASSUME AccountsAssumption ==
    /\ Null \notin Users \cup Emails \cup Phones \cup Codes
    /\ Null \notin UserRow
    /\ Null \notin CodeRow

(***************************************************************************)
(* email and phone are those the request names and purpose that of the     *)
(* code it sends or accepts; user is the account it is about and row its   *)
(* columns as the session has read them; code is the code it has accepted. *)
(***************************************************************************)
Request ==
    [step    : {"idle", "phone", "insert", "clear", "store",
                "accept", "use", "load", "update"},
     email   : Emails \cup {Null},
     phone   : Phones \cup {Null},
     purpose : Purposes \cup {Null},
     user    : Users \cup {Null},
     row     : UserRow \cup {Null},
     code    : Codes \cup {Null}]

Idle == [step |-> "idle", email |-> Null, phone |-> Null, purpose |-> Null,
         user |-> Null, row |-> Null, code |-> Null]

TypeOK ==
    /\ users \in [Users -> UserRow \cup {Null}]
    /\ codes \in [Codes -> CodeRow \cup {Null}]
    /\ proven \in [Users -> SUBSET Emails]
    /\ request \in [Threads -> Request]
    /\ held \in [Threads -> SUBSET {"email", "phone"}]

Exists(u) == users[u] # Null

\* The accounts that have an address, or a phone number: one at most.
WithEmail(e) == {u \in Users : Exists(u) /\ users[u].email = e}
WithPhone(p) == {u \in Users : Exists(u) /\ users[u].phone = p}

Init ==
    /\ users = [u \in Users |-> Null]
    /\ codes = [c \in Codes |-> Null]
    /\ request = [t \in Threads |-> Idle]
    /\ proven = [u \in Users |-> {}]
    /\ held = [t \in Threads |-> {}]

Begin(t, r)    == request[t] = Idle /\ request' = [request EXCEPT ![t] = r]
Continue(t, r) == request' = [request EXCEPT ![t] = r]
Finish(t)      == request' = [request EXCEPT ![t] = Idle]

-----------------------------------------------------------------------------
(***************************************************************************)
(* Sending a code: the active codes of the address and purpose are         *)
(* invalidated, whoever they were made for, and a new one is stored.       *)
(***************************************************************************)

\* Mutant: the purpose is not handed on.
Sending_NoPurpose(u, e, purpose) ==
    [Idle EXCEPT !.step = "clear", !.user = u, !.email = e]

Sending(u, e, purpose) ==
    [Idle EXCEPT !.step = "clear", !.user = u, !.email = e, !.purpose = purpose]

Active(c, r) ==
    /\ codes[c] # Null
    /\ codes[c].identifier = r.email
    /\ codes[c].purpose = r.purpose

ClearCodes(t) ==
    LET r == request[t] IN
    /\ r.step = "clear"
    /\ codes' = [c \in Codes |-> IF Active(c, r) THEN Null ELSE codes[c]]
    /\ Continue(t, [r EXCEPT !.step = "store"])
    /\ UNCHANGED <<users, proven>>

\* Then the code is mailed.
StoreCode(t, c) ==
    LET r == request[t] IN
    /\ r.step = "store"
    /\ codes[c] = Null
    /\ \A w \in Threads : request[w].code # c
    /\ codes' = [codes EXCEPT ![c] = [user |-> r.user, identifier |-> r.email,
                                      purpose |-> r.purpose]]
    /\ Finish(t)
    /\ UNCHANGED <<users, proven>>

\* Ten minutes have passed.
Expire(c) ==
    /\ codes[c] # Null
    /\ codes' = [codes EXCEPT ![c] = Null]
    /\ UNCHANGED <<users, request, proven>>

-----------------------------------------------------------------------------
(***************************************************************************)
(* POST /auth/signup.                                                      *)
(***************************************************************************)
SignupReadsEmail(t, e, p) ==
    LET r == [Idle EXCEPT !.step = "phone", !.email = e, !.phone = p] IN
    /\ \/ WithEmail(e) = {} /\ Begin(t, r)
       \/ \E u \in WithEmail(e) :
             Begin(t, [r EXCEPT !.user = u, !.row = users[u]])
    /\ UNCHANGED rows

\* No account has the address, and no other one the phone number: a new
\* account, or another code for one that is not verified yet.
SignupReadsPhone(t) ==
    LET r == request[t] IN
    /\ r.step = "phone"
    /\ WithPhone(r.phone) \subseteq {r.user}
    /\ \/ r.user = Null /\ Continue(t, [r EXCEPT !.step = "insert"])
       \/ /\ r.user # Null /\ ~r.row.verified
          /\ Continue(t, Sending(r.user, r.email, "EMAIL_VERIFICATION"))
    /\ UNCHANGED rows

\* The columns of a new account that the unique constraints of a table refuse.
Taken(table, r) ==
    {column \in {"email", "phone"} :
        \E u \in Users : table[u] # Null /\ table[u][column] = r[column]}

\* Mutant: nothing but the checks before keeps the columns unique.
Refused_Never(r) == {}

Refused(r) == Taken(users, r)

SignupInserts(t, u) ==
    LET r == request[t] IN
    /\ r.step = "insert"
    /\ Refused(r) = {}
    /\ ~Exists(u)
    /\ users' = [users EXCEPT ![u] = [email |-> r.email, phone |-> r.phone,
                                      verified |-> FALSE]]
    /\ Continue(t, Sending(u, r.email, "EMAIL_VERIFICATION"))
    /\ UNCHANGED <<codes, proven>>

\* Mutant: the words are looked for in the other order.
Blamed_EmailFirst(column) == {"email"}

\* What the client is told when the constraint of column is broken: "phone"
\* is looked for first in the text of the error, which quotes the value; an
\* address may contain the word.
Blamed(column) == IF column = "phone" THEN {"phone"} ELSE {"email", "phone"}

\* The sign-up is refused and told that column is taken, by one of the
\* checks or after the INSERT has failed.
SignupRefused(t, column) ==
    LET r == request[t] IN
    /\ \/ /\ r.step = "phone"
          /\ WithPhone(r.phone) \ {r.user} # {}
          /\ column = "phone"
       \/ /\ r.step = "phone"
          /\ WithPhone(r.phone) \subseteq {r.user}
          /\ r.user # Null /\ r.row.verified
          /\ column = "email"
       \/ /\ r.step = "insert"
          /\ \E broken \in Refused(r) : column \in Blamed(broken)
    /\ Finish(t)
    /\ UNCHANGED rows

(***************************************************************************)
(* POST /auth/resend-verification, and the login of a user who is not      *)
(* verified.                                                               *)
(***************************************************************************)
Resend(t, u) ==
    /\ Exists(u) /\ ~users[u].verified
    /\ Begin(t, Sending(u, users[u].email, "EMAIL_VERIFICATION"))
    /\ UNCHANGED rows

\* POST /auth/change-email, by a user who has logged in, and so is verified.
ChangeEmail(t, u, e) ==
    /\ Exists(u) /\ users[u].verified
    /\ WithEmail(e) \subseteq {u}
    /\ Begin(t, Sending(u, e, "EMAIL_CHANGE"))
    /\ UNCHANGED rows

-----------------------------------------------------------------------------
(***************************************************************************)
(* POST /auth/verify-email and /auth/confirm-change-email.  A code is used *)
(* up in one transaction, and takes effect in the next.                    *)
(***************************************************************************)
Accepting(e, purpose) ==
    [Idle EXCEPT !.step = "accept", !.email = e, !.purpose = purpose]

VerifyEmail(t, e) ==
    /\ \A u \in WithEmail(e) : ~users[u].verified
    /\ Begin(t, Accepting(e, "EMAIL_VERIFICATION"))
    /\ UNCHANGED rows

\* By a user who has logged in: u is looked at here, and never again.
ConfirmChangeEmail(t, u, e) ==
    /\ Exists(u) /\ users[u].verified
    /\ WithEmail(e) \subseteq {u}
    /\ Begin(t, Accepting(e, "EMAIL_CHANGE"))
    /\ UNCHANGED rows

\* Any of several active codes may be the first of the SELECT; its OTP is
\* the one the client has.
AcceptCode(t, c) ==
    LET r == request[t] IN
    /\ r.step = "accept"
    /\ Active(c, r)
    /\ Continue(t, [r EXCEPT !.step = "use", !.code = c, !.user = codes[c].user])
    /\ UNCHANGED rows

UseCode(t) ==
    LET r == request[t] IN
    /\ r.step = "use"
    /\ codes' = [codes EXCEPT ![r.code] = Null]
    /\ proven' = [proven EXCEPT ![r.user] = @ \cup {r.email}]
    /\ Continue(t, [r EXCEPT !.step = "load", !.code = Null])
    /\ UNCHANGED users

\* The commit has expired the user's columns: they are read again.
LoadUser(t) ==
    LET r == request[t]
        row == users[r.user]
    IN
    /\ r.step = "load"
    /\ IF r.purpose = "EMAIL_VERIFICATION" /\ row.verified
       THEN Finish(t)
       ELSE Continue(t, [r EXCEPT !.step = "update", !.row = row])
    /\ UNCHANGED rows

SetVerified(t) ==
    LET r == request[t] IN
    /\ r.step = "update"
    /\ r.purpose = "EMAIL_VERIFICATION"
    /\ users' = [users EXCEPT ![r.user].verified = TRUE]
    /\ Finish(t)
    /\ UNCHANGED <<codes, proven>>

\* The address goes to the user the code was made for.  It is written if it
\* differs from what was read; nobody catches the error when the unique
\* constraint refuses it (Abort).
SetEmail(t) ==
    LET r == request[t] IN
    /\ r.step = "update"
    /\ r.purpose = "EMAIL_CHANGE"
    /\ \/ /\ r.row.email # r.email
          /\ WithEmail(r.email) \subseteq {r.user}
          /\ users' = [users EXCEPT ![r.user].email = r.email,
                                    ![r.user].verified = TRUE]
       \/ /\ r.row.email = r.email
          /\ users' = [users EXCEPT ![r.user].verified = TRUE]
    /\ Finish(t)
    /\ UNCHANGED <<codes, proven>>

-----------------------------------------------------------------------------
\* The database, the mail provider or the process fails between two steps,
\* or the request is refused for its OTP or the cooldown.
Abort(t) ==
    /\ request[t] # Idle
    /\ Finish(t)
    /\ UNCHANGED rows

ThreadStep(t) ==
    \/ \E e \in Emails, p \in Phones : SignupReadsEmail(t, e, p)
    \/ SignupReadsPhone(t)
    \/ \E u \in Users : SignupInserts(t, u)
    \/ \E column \in {"email", "phone"} : SignupRefused(t, column)
    \/ \E u \in Users : Resend(t, u)
    \/ \E u \in Users, e \in Emails : ChangeEmail(t, u, e) \/ ConfirmChangeEmail(t, u, e)
    \/ \E e \in Emails : VerifyEmail(t, e)
    \/ ClearCodes(t)
    \/ \E c \in Codes : StoreCode(t, c) \/ AcceptCode(t, c)
    \/ UseCode(t)
    \/ LoadUser(t)
    \/ SetVerified(t)
    \/ SetEmail(t)
    \/ Abort(t)

\* What a running sign-up could have found taken, before this step or after.
Witness ==
    held' = [t \in Threads |->
        IF request'[t].step \in {"phone", "insert"}
        THEN held[t] \cup Taken(users, request'[t]) \cup Taken(users', request'[t])
        ELSE {}]

Next ==
    /\ (\E t \in Threads : ThreadStep(t)) \/ (\E c \in Codes : Expire(c))
    /\ Witness

Spec == Init /\ [][Next]_vars

-----------------------------------------------------------------------------
(***************************************************************************)
(* What holds however the requests interleave.                             *)
(***************************************************************************)

\* The checks before the writes are stale by the time of the writes, codes
\* are used up one transaction before they take effect, and a code may be
\* invalidated or replaced while a request holds it; still each step is one
\* that AccountRegistry allows (signup, verify_email, confirm_change_email).
Registry == INSTANCE AccountRegistry WITH account <- users

RegistryContract == Registry!Spec

\* A sign-up is refused only for what was so at some moment while it ran: if
\* it is told that the address is taken, an account had the address; if it is
\* told so of the phone number, an account had one of the two (signup,
\* create_user).
RefusalsAreTrue ==
    [][\A t \in Threads :
          /\ SignupRefused(t, "email") => "email" \in held[t]
          /\ SignupRefused(t, "phone") => held[t] # {}]_vars
=============================================================================
