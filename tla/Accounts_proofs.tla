-------------------------- MODULE Accounts_proofs --------------------------
(***************************************************************************)
(* Proofs about accounts, for any number of users, addresses, codes and    *)
(* threads: the service implements AccountRegistry, and a sign-up is never *)
(* refused without a reason.                                               *)
(***************************************************************************)
EXTENDS Accounts, TLAPS

-----------------------------------------------------------------------------
(***************************************************************************)
(* The inductive invariant.                                                *)
(***************************************************************************)

\* What a code for u, mailed to e, may still be used for (table holds the
\* users): u is verified, or e is the address that is to be verified.  Steps of others keep it so.
Backed(table, u, e, purpose) ==
    /\ u \in Users /\ table[u] # Null
    /\ table[u].verified \/ (purpose = "EMAIL_VERIFICATION" /\ table[u].email = e)

CodesBacked ==
    \A c \in Codes : codes[c] # Null =>
        Backed(users, codes[c].user, codes[c].identifier, codes[c].purpose)

\* What a request carries when it gets to a step that uses it.
RequestValid(r) ==
    /\ r.step \in {"phone", "insert"} => r.email \in Emails /\ r.phone \in Phones
    /\ r.step = "phone" /\ r.user # Null =>
          r.row \in UserRow /\ Backed(users, r.user, r.email, "EMAIL_VERIFICATION")
    /\ r.step \in {"clear", "store", "use", "load", "update"} =>
          /\ r.email \in Emails /\ r.purpose \in Purposes
          /\ Backed(users, r.user, r.email, r.purpose)
    /\ r.step = "use" => r.code \in Codes
    /\ r.step \in {"load", "update"} => r.email \in proven[r.user]

RequestsValid == \A t \in Threads : RequestValid(request[t])

\* What a sign-up has found, or could find, taken.
RequestWitnessed(t) ==
    LET r == request[t] IN
    /\ r.step \in {"phone", "insert"} => Taken(users, r) \subseteq held[t]
    /\ r.step = "phone" /\ r.user # Null => "email" \in held[t]

Witnessed == \A t \in Threads : RequestWitnessed(t)

IInv ==
    /\ TypeOK
    /\ CodesBacked
    /\ RequestsValid
    /\ Witnessed

-----------------------------------------------------------------------------
(***************************************************************************)
(* The steps.                                                              *)
(***************************************************************************)

\* What a step may be, other than Witness.
Step ==
    \/ \E t \in Threads : ThreadStep(t)
    \/ \E c \in Codes : Expire(c)

LEMMA Steps ==
    ASSUME Step
    PROVE  \/ \E t \in Threads, e \in Emails, p \in Phones : SignupReadsEmail(t, e, p)
           \/ \E t \in Threads : SignupReadsPhone(t)
           \/ \E t \in Threads, u \in Users : SignupInserts(t, u)
           \/ \E t \in Threads, column \in {"email", "phone"} : SignupRefused(t, column)
           \/ \E t \in Threads, u \in Users : Resend(t, u)
           \/ \E t \in Threads, u \in Users, e \in Emails : ChangeEmail(t, u, e)
           \/ \E t \in Threads, u \in Users, e \in Emails : ConfirmChangeEmail(t, u, e)
           \/ \E t \in Threads, e \in Emails : VerifyEmail(t, e)
           \/ \E t \in Threads : ClearCodes(t)
           \/ \E t \in Threads, c \in Codes : StoreCode(t, c)
           \/ \E t \in Threads, c \in Codes : AcceptCode(t, c)
           \/ \E t \in Threads : UseCode(t)
           \/ \E t \in Threads : LoadUser(t)
           \/ \E t \in Threads : SetVerified(t)
           \/ \E t \in Threads : SetEmail(t)
           \/ \E t \in Threads : Abort(t)
           \/ \E c \in Codes : Expire(c)
BY DEF Step, ThreadStep

LEMMA IdleType == Idle \in Request
BY AccountsAssumption DEF Idle, Request

LEMMA TakenType ==
    ASSUME NEW table, NEW r
    PROVE  Taken(table, r) \subseteq {"email", "phone"}
BY DEF Taken

\* Users, codes and the addresses proven stay well formed.
LEMMA RowsStep ==
    ASSUME TypeOK, RequestsValid, Step
    PROVE  /\ users' \in [Users -> UserRow \cup {Null}]
           /\ codes' \in [Codes -> CodeRow \cup {Null}]
           /\ proven' \in [Users -> SUBSET Emails]
<1> USE DEF TypeOK
<1>rows. ASSUME UNCHANGED rows
         PROVE  /\ users' \in [Users -> UserRow \cup {Null}]
                /\ codes' \in [Codes -> CodeRow \cup {Null}]
                /\ proven' \in [Users -> SUBSET Emails]
    BY <1>rows DEF rows
<1>1. CASE \E t \in Threads, u \in Users : SignupInserts(t, u)
    <2>1. PICK t \in Threads, u \in Users : SignupInserts(t, u)
        BY <1>1
    <2>2. RequestValid(request[t]) /\ request[t].step = "insert"
        BY <2>1 DEF SignupInserts, RequestsValid
    <2>3. [email |-> request[t].email, phone |-> request[t].phone, verified |-> FALSE] \in UserRow
        BY <2>2 DEF RequestValid, UserRow
    <2> QED
        BY <2>1, <2>3 DEF SignupInserts
<1>2. CASE \E t \in Threads : ClearCodes(t)
    BY <1>2 DEF ClearCodes
<1>3. CASE \E t \in Threads, c \in Codes : StoreCode(t, c)
    <2>1. PICK t \in Threads, c \in Codes : StoreCode(t, c)
        BY <1>3
    <2>2. RequestValid(request[t]) /\ request[t].step = "store"
        BY <2>1 DEF StoreCode, RequestsValid
    <2>3. [user |-> request[t].user, identifier |-> request[t].email,
           purpose |-> request[t].purpose] \in CodeRow
        BY <2>2 DEF RequestValid, Backed, CodeRow
    <2> QED
        BY <2>1, <2>3 DEF StoreCode
<1>4. CASE \E t \in Threads : UseCode(t)
    <2>1. PICK t \in Threads : UseCode(t)
        BY <1>4
    <2>2. request[t].email \in Emails
        BY <2>1 DEF UseCode, RequestsValid, RequestValid
    <2> QED
        BY <2>1, <2>2 DEF UseCode
<1>5. CASE \E t \in Threads : SetVerified(t)
    <2>1. PICK t \in Threads : SetVerified(t)
        BY <1>5
    <2>2. request[t].user \in Users /\ users[request[t].user] \in UserRow
        BY <2>1 DEF SetVerified, RequestsValid, RequestValid, Backed, Exists
    <2>3. [users[request[t].user] EXCEPT !.verified = TRUE] \in UserRow
        BY <2>2 DEF UserRow
    <2> QED
        BY <2>1, <2>2, <2>3 DEF SetVerified
<1>6. CASE \E t \in Threads : SetEmail(t)
    <2>1. PICK t \in Threads : SetEmail(t)
        BY <1>6
    <2>2. /\ request[t].user \in Users /\ users[request[t].user] \in UserRow
          /\ request[t].email \in Emails
        BY <2>1 DEF SetEmail, RequestsValid, RequestValid, Backed, Exists
    <2>3. /\ [users[request[t].user] EXCEPT !.verified = TRUE] \in UserRow
          /\ [[users[request[t].user] EXCEPT !.email = request[t].email] EXCEPT !.verified = TRUE] \in UserRow
          /\ [users[request[t].user] EXCEPT !.email = request[t].email, !.verified = TRUE] \in UserRow
        BY <2>2 DEF UserRow
    <2>4. \/ users' = [users EXCEPT ![request[t].user].email = request[t].email,
                                   ![request[t].user].verified = TRUE]
          \/ users' = [users EXCEPT ![request[t].user].verified = TRUE]
        BY <2>1 DEF SetEmail
    <2>5. users' \in [Users -> UserRow \cup {Null}]
        BY <2>2, <2>3, <2>4
    <2> QED
        BY <2>1, <2>5 DEF SetEmail
<1>7. CASE \E c \in Codes : Expire(c)
    BY <1>7 DEF Expire
<1>8. QED
    BY <1>rows, <1>1, <1>2, <1>3, <1>4, <1>5, <1>6, <1>7, Steps
       DEF SignupReadsEmail, SignupReadsPhone, SignupRefused, Resend, ChangeEmail,
           ConfirmChangeEmail, VerifyEmail, AcceptCode, LoadUser, Abort

\* The requests stay well formed.
LEMMA RequestStep ==
    ASSUME TypeOK, RequestsValid, Step
    PROVE  request' \in [Threads -> Request]
<1> USE AccountsAssumption, IdleType DEF TypeOK
<1>1. CASE \E c \in Codes : Expire(c)
    BY <1>1 DEF Expire
<1>2. CASE \E t \in Threads : ThreadStep(t)
    <2>1. PICK t \in Threads : ThreadStep(t)
        BY <1>2
    <2> DEFINE Becomes(r) == r \in Request /\ request' = [request EXCEPT ![t] = r]
    <2>2. SUFFICES \E r : Becomes(r)
        BY DEF Becomes
    <2> HIDE DEF Becomes
    <2>valid. request[t] \in Request /\ RequestValid(request[t])
        BY DEF RequestsValid
    <2>finish. ASSUME Finish(t) PROVE \E r : Becomes(r)
        BY <2>finish DEF Finish, Becomes
    <2>sending. ASSUME NEW u \in Users, NEW e \in Emails, NEW purpose \in Purposes
                PROVE  Sending(u, e, purpose) \in Request
        BY DEF Sending, Idle, Request
    <2>accepting. ASSUME NEW e \in Emails, NEW purpose \in Purposes
                  PROVE  Accepting(e, purpose) \in Request
        BY DEF Accepting, Idle, Request
    <2>3. CASE \E e \in Emails, p \in Phones : SignupReadsEmail(t, e, p)
        <3>1. PICK e \in Emails, p \in Phones : SignupReadsEmail(t, e, p)
            BY <2>3
        <3> DEFINE r == [Idle EXCEPT !.step = "phone", !.email = e, !.phone = p]
        <3>2. r \in Request
            BY DEF Idle, Request
        <3>3. CASE Begin(t, r)
            BY <3>2, <3>3 DEF Begin, Becomes
        <3>4. ASSUME NEW u \in WithEmail(e), Begin(t, [r EXCEPT !.user = u, !.row = users[u]])
              PROVE  \E q : Becomes(q)
            <4>1. u \in Users /\ users[u] \in UserRow
                BY DEF WithEmail, Exists
            <4>2. [r EXCEPT !.user = u, !.row = users[u]] \in Request
                BY <3>2, <4>1 DEF Request
            <4> QED
                BY <3>4, <4>2 DEF Begin, Becomes
        <3> QED
            BY <3>1, <3>3, <3>4 DEF SignupReadsEmail
    <2>4. CASE SignupReadsPhone(t)
        <3>1. request[t].email \in Emails
            BY <2>4, <2>valid DEF SignupReadsPhone, RequestValid
        <3>2. CASE Continue(t, [request[t] EXCEPT !.step = "insert"])
            <4>1. [request[t] EXCEPT !.step = "insert"] \in Request
                BY <2>valid DEF Request
            <4> QED
                BY <3>2, <4>1 DEF Continue, Becomes
        <3>3. CASE /\ request[t].user # Null
                   /\ Continue(t, Sending(request[t].user, request[t].email, "EMAIL_VERIFICATION"))
            <4>1. request[t].user \in Users
                BY <3>3, <2>valid DEF Request
            <4> QED
                BY <3>1, <3>3, <4>1, <2>sending DEF Continue, Becomes, Purposes
        <3> QED
            BY <2>4, <3>2, <3>3 DEF SignupReadsPhone
    <2>5. CASE \E u \in Users : SignupInserts(t, u)
        <3>1. request[t].email \in Emails
            BY <2>5, <2>valid DEF SignupInserts, RequestValid
        <3> QED
            BY <2>5, <3>1, <2>sending DEF SignupInserts, Continue, Becomes, Purposes
    <2>6. CASE \E u \in Users : Resend(t, u)
        <3>1. PICK u \in Users : Resend(t, u)
            BY <2>6
        <3>2. users[u].email \in Emails
            BY <3>1 DEF Resend, Exists, UserRow
        <3> QED
            BY <3>1, <3>2, <2>sending DEF Resend, Begin, Becomes, Purposes
    <2>7. CASE \E u \in Users, e \in Emails : ChangeEmail(t, u, e)
        BY <2>7, <2>sending DEF ChangeEmail, Begin, Becomes, Purposes
    <2>8. CASE \E u \in Users, e \in Emails : ConfirmChangeEmail(t, u, e)
        BY <2>8, <2>accepting DEF ConfirmChangeEmail, Begin, Becomes, Purposes
    <2>9. CASE \E e \in Emails : VerifyEmail(t, e)
        BY <2>9, <2>accepting DEF VerifyEmail, Begin, Becomes, Purposes
    <2>10. CASE ClearCodes(t)
        <3>1. [request[t] EXCEPT !.step = "store"] \in Request
            BY <2>valid DEF Request
        <3> QED
            BY <2>10, <3>1 DEF ClearCodes, Continue, Becomes
    <2>11. CASE \E c \in Codes : AcceptCode(t, c)
        <3>1. PICK c \in Codes : AcceptCode(t, c)
            BY <2>11
        <3>2. codes[c].user \in Users
            BY <3>1 DEF AcceptCode, Active, CodeRow
        <3>3. [request[t] EXCEPT !.step = "use", !.code = c, !.user = codes[c].user] \in Request
            BY <2>valid, <3>2 DEF Request
        <3> QED
            BY <3>1, <3>3 DEF AcceptCode, Continue, Becomes
    <2>12. CASE UseCode(t)
        <3>1. [request[t] EXCEPT !.step = "load", !.code = Null] \in Request
            BY <2>valid DEF Request
        <3> QED
            BY <2>12, <3>1 DEF UseCode, Continue, Becomes
    <2>13. CASE LoadUser(t)
        <3>1. users[request[t].user] \in UserRow
            BY <2>13, <2>valid DEF LoadUser, RequestValid, Backed, Exists
        <3>2. [request[t] EXCEPT !.step = "update", !.row = users[request[t].user]] \in Request
            BY <2>valid, <3>1 DEF Request
        <3>3. \/ Finish(t)
              \/ Continue(t, [request[t] EXCEPT !.step = "update", !.row = users[request[t].user]])
            BY <2>13 DEF LoadUser
        <3> QED
            BY <3>2, <3>3, <2>finish DEF Continue, Becomes
    <2> QED
        BY <2>1, <2>finish, <2>3, <2>4, <2>5, <2>6, <2>7, <2>8, <2>9, <2>10, <2>11, <2>12,
           <2>13
           DEF ThreadStep, SignupRefused, StoreCode, SetVerified, SetEmail, Abort
<1> QED
    BY <1>1, <1>2 DEF Step

\* A thread leaves the requests of the others alone.
LEMMA OthersStay ==
    ASSUME TypeOK, NEW t \in Threads, NEW w \in Threads \ {t}, ThreadStep(w)
    PROVE  request'[t] = request[t]
BY DEF TypeOK, ThreadStep, Begin, Continue, Finish, SignupReadsEmail, SignupReadsPhone,
       SignupInserts, SignupRefused, Resend, ChangeEmail, ConfirmChangeEmail, VerifyEmail,
       ClearCodes, StoreCode, AcceptCode, UseCode, LoadUser, SetVerified, SetEmail, Abort

\* Nobody loses a verification, or an address that was proven; a code that
\* is good for something stays good for it.
LEMMA BackedStays ==
    ASSUME TypeOK, RequestsValid, Step,
           NEW u \in Users, NEW e \in Emails, NEW purpose \in Purposes
    PROVE  /\ Backed(users, u, e, purpose) => Backed(users', u, e, purpose)
           /\ proven[u] \subseteq proven'[u]
<1> USE DEF TypeOK
<1>rows. ASSUME UNCHANGED <<users, proven>>
         PROVE  /\ Backed(users, u, e, purpose) => Backed(users', u, e, purpose)
                /\ proven[u] \subseteq proven'[u]
    BY <1>rows DEF Backed, Exists
<1>1. CASE \E t \in Threads, v \in Users : SignupInserts(t, v)
    <2>1. PICK t \in Threads, v \in Users : SignupInserts(t, v)
        BY <1>1
    <2>2. Exists(u) => users'[u] = users[u]
        BY <2>1 DEF SignupInserts, Exists
    <2> QED
        BY <2>1, <2>2 DEF SignupInserts, Backed, Exists
<1>2. CASE \E t \in Threads : UseCode(t)
    BY <1>2 DEF UseCode, Backed, Exists
<1>3. CASE \E t \in Threads : SetVerified(t)
    <2>1. PICK t \in Threads : SetVerified(t)
        BY <1>3
    <2>2. CASE u # request[t].user
        BY <2>1, <2>2 DEF SetVerified, Backed, Exists
    <2>3. CASE u = request[t].user
        <3>1. users[u] \in UserRow
            BY <2>1, <2>3 DEF SetVerified, RequestsValid, RequestValid, Backed, Exists
        <3>2. [users[u] EXCEPT !.verified = TRUE] \in UserRow
            BY <3>1 DEF UserRow
        <3>3. users'[u] = [users[u] EXCEPT !.verified = TRUE]
            BY <2>1, <2>3 DEF SetVerified
        <3>4. users'[u] # Null /\ users'[u].verified
            BY <3>1, <3>2, <3>3, AccountsAssumption DEF UserRow
        <3> QED
            BY <2>1, <3>4 DEF SetVerified, Backed, Exists
    <2> QED
        BY <2>2, <2>3
<1>4. CASE \E t \in Threads : SetEmail(t)
    <2>1. PICK t \in Threads : SetEmail(t)
        BY <1>4
    <2>2. CASE u # request[t].user
        BY <2>1, <2>2 DEF SetEmail, Backed, Exists
    <2>3. CASE u = request[t].user
        <3>1. users[u] \in UserRow /\ request[t].email \in Emails
            BY <2>1, <2>3 DEF SetEmail, RequestsValid, RequestValid, Backed, Exists
        <3>2. users'[u] \in UserRow /\ users'[u].verified
            <4>1. CASE users' = [users EXCEPT ![u].email = request[t].email, ![u].verified = TRUE]
                BY <3>1, <4>1 DEF UserRow
            <4>2. CASE users' = [users EXCEPT ![u].verified = TRUE]
                BY <3>1, <4>2 DEF UserRow
            <4> QED
                BY <2>1, <2>3, <4>1, <4>2 DEF SetEmail
        <3>4. users'[u] # Null /\ users'[u].verified
            BY <3>2, AccountsAssumption
        <3> QED
            BY <2>1, <3>4 DEF SetEmail, Backed, Exists
    <2> QED
        BY <2>2, <2>3
<1> QED
    BY <1>rows, <1>1, <1>2, <1>3, <1>4, Steps
       DEF rows, SignupReadsEmail, SignupReadsPhone, SignupRefused, Resend, ChangeEmail,
           ConfirmChangeEmail, VerifyEmail, ClearCodes, StoreCode, AcceptCode, LoadUser,
           Abort, Expire

-----------------------------------------------------------------------------
(***************************************************************************)
(* The invariant holds.                                                    *)
(***************************************************************************)
LEMMA TypeStep ==
    ASSUME TypeOK, RequestsValid, Next
    PROVE  TypeOK'
<1>1. Step /\ Witness
    BY DEF Next, Step
<1>2. held' \in [Threads -> SUBSET {"email", "phone"}]
    <2>1. \A t \in Threads : Taken(users, request'[t]) \subseteq {"email", "phone"}
                           /\ Taken(users', request'[t]) \subseteq {"email", "phone"}
        BY TakenType
    <2> QED
        BY <1>1, <2>1 DEF Witness, TypeOK
<1> QED
    BY <1>1, <1>2, RowsStep, RequestStep DEF TypeOK

\* A code is stored for what the request that makes it is good for.
LEMMA CodesStep ==
    ASSUME TypeOK, RequestsValid, CodesBacked, Step
    PROVE  CodesBacked'
<1> SUFFICES ASSUME NEW c \in Codes, codes'[c] # Null
             PROVE  Backed(users', codes'[c].user, codes'[c].identifier, codes'[c].purpose)
    BY DEF CodesBacked
<1>1. CASE codes'[c] = codes[c]
    <2>1. codes[c] \in CodeRow /\ Backed(users, codes[c].user, codes[c].identifier, codes[c].purpose)
        BY <1>1 DEF CodesBacked, TypeOK
    <2> DEFINE u == codes[c].user
               e == codes[c].identifier
               purpose == codes[c].purpose
    <2>2. u \in Users /\ e \in Emails /\ purpose \in Purposes
        BY <2>1 DEF CodeRow
    <2> QED
        BY <1>1, <2>1, <2>2, BackedStays DEF Backed, Exists
<1>2. CASE codes'[c] # codes[c]
    <2>1. PICK t \in Threads : StoreCode(t, c)
        BY <1>2, Steps
           DEF TypeOK, rows, SignupReadsEmail, SignupReadsPhone, SignupInserts, SignupRefused,
               Resend, ChangeEmail, ConfirmChangeEmail, VerifyEmail, ClearCodes, StoreCode,
               AcceptCode, UseCode, LoadUser, SetVerified, SetEmail, Abort, Expire
    <2>2. Backed(users, request[t].user, request[t].email, request[t].purpose)
        BY <2>1 DEF StoreCode, RequestsValid, RequestValid
    <2>3. /\ codes'[c].user = request[t].user
          /\ codes'[c].identifier = request[t].email
          /\ codes'[c].purpose = request[t].purpose
        BY <2>1 DEF StoreCode, TypeOK
    <2> QED
        BY <2>1, <2>2, <2>3 DEF StoreCode, Backed, Exists
<1> QED
    BY <1>1, <1>2

LEMMA RequestsStep ==
    ASSUME TypeOK, TypeOK', RequestsValid, CodesBacked, Step
    PROVE  RequestsValid'
<1> SUFFICES ASSUME NEW t \in Threads
             PROVE  RequestValid(request[t])'
    BY DEF RequestsValid
<1> DEFINE r == request[t]
<1>valid. r \in Request /\ RequestValid(r)
    BY DEF RequestsValid, TypeOK
<1>stays. ASSUME NEW u, NEW e \in Emails, NEW purpose \in Purposes, Backed(users, u, e, purpose)
          PROVE  Backed(users', u, e, purpose) /\ proven[u] \subseteq proven'[u]
    BY <1>stays, BackedStays DEF Backed
<1>1. CASE request'[t] = r
    <2>1. r.step = "phone" /\ r.user # Null => Backed(users', r.user, r.email, "EMAIL_VERIFICATION")
        BY <1>valid, <1>stays DEF RequestValid, Purposes
    <2>2. r.step \in {"clear", "store", "use", "load", "update"} =>
              Backed(users', r.user, r.email, r.purpose) /\ proven[r.user] \subseteq proven'[r.user]
        BY <1>valid, <1>stays DEF RequestValid
    <2> QED
        BY <1>1, <1>valid, <2>1, <2>2 DEF RequestValid, Backed, Exists
<1>idle. CASE request'[t] = Idle
    BY <1>idle DEF RequestValid, Idle
\* A request that sends a code.
<1>sending. ASSUME NEW u \in Users, NEW e \in Emails, NEW purpose \in Purposes,
                   request'[t] = Sending(u, e, purpose), Backed(users', u, e, purpose)
            PROVE  RequestValid(request[t])'
    <2>1. /\ request'[t].step = "clear" /\ request'[t].user = u
          /\ request'[t].email = e /\ request'[t].purpose = purpose
        BY <1>sending DEF Sending, Idle
    <2> QED
        BY <1>sending, <2>1 DEF RequestValid, Backed, Exists
<1>accepting. ASSUME request'[t].step \in {"insert", "accept"},
                     request'[t].step = "insert" => r.step = "phone" /\ request'[t].email = r.email
                                                        /\ request'[t].phone = r.phone
              PROVE  RequestValid(request[t])'
    BY <1>accepting, <1>valid DEF RequestValid
<1>2. CASE \E e \in Emails, p \in Phones : SignupReadsEmail(t, e, p)
    <2>1. PICK e \in Emails, p \in Phones : SignupReadsEmail(t, e, p)
        BY <1>2
    <2>2. CASE request'[t] = [Idle EXCEPT !.step = "phone", !.email = e, !.phone = p]
        BY <2>2 DEF RequestValid, Idle
    <2>3. CASE \E u \in WithEmail(e) :
                  request'[t] = [[Idle EXCEPT !.step = "phone", !.email = e, !.phone = p]
                                      EXCEPT !.user = u, !.row = users[u]]
        <3>1. PICK u \in WithEmail(e) :
                  request'[t] = [[Idle EXCEPT !.step = "phone", !.email = e, !.phone = p]
                                      EXCEPT !.user = u, !.row = users[u]]
            BY <2>3
        <3>2. /\ request'[t].step = "phone" /\ request'[t].email = e /\ request'[t].phone = p
              /\ request'[t].user = u /\ request'[t].row = users[u]
            BY <3>1 DEF Idle
        <3>3. users[u] \in UserRow /\ Backed(users, u, e, "EMAIL_VERIFICATION")
            BY DEF WithEmail, Backed, Exists, TypeOK
        <3> QED
            BY <1>stays, <3>2, <3>3 DEF RequestValid, Backed, Exists, Purposes
    <2> QED
        BY <2>1, <2>2, <2>3 DEF SignupReadsEmail, Begin, TypeOK
<1>3. CASE SignupReadsPhone(t)
    <2>1. r.step = "phone"
        BY <1>3 DEF SignupReadsPhone
    <2>2. CASE request'[t] = [r EXCEPT !.step = "insert"]
        BY <1>accepting, <1>valid, <2>1, <2>2 DEF Request
    <2>3. CASE /\ r.user # Null
               /\ request'[t] = Sending(r.user, r.email, "EMAIL_VERIFICATION")
        <3>1. /\ r.email \in Emails /\ r.user \in Users
              /\ Backed(users', r.user, r.email, "EMAIL_VERIFICATION")
            BY <1>valid, <1>stays, <2>1, <2>3 DEF RequestValid, Request, Purposes
        <3> QED
            BY <1>sending, <2>3, <3>1 DEF Purposes
    <2> QED
        BY <1>3, <2>2, <2>3 DEF SignupReadsPhone, Continue, TypeOK
<1>4. CASE \E u \in Users : SignupInserts(t, u)
    <2>1. PICK u \in Users : SignupInserts(t, u)
        BY <1>4
    <2>2. r.email \in Emails /\ r.phone \in Phones
        BY <1>valid, <2>1 DEF SignupInserts, RequestValid
    <2>3. users'[u] = [email |-> r.email, phone |-> r.phone, verified |-> FALSE]
        BY <2>1 DEF SignupInserts, TypeOK
    <2>4. users'[u] \in UserRow /\ users'[u].email = r.email
        BY <2>2, <2>3 DEF UserRow
    <2>5. Backed(users', u, r.email, "EMAIL_VERIFICATION")
        BY <2>4, AccountsAssumption DEF Backed, Exists
    <2> QED
        BY <1>sending, <2>1, <2>2, <2>5 DEF SignupInserts, Continue, TypeOK, Purposes
<1>5. CASE \E u \in Users : Resend(t, u)
    <2>1. PICK u \in Users : Resend(t, u)
        BY <1>5
    <2>2. users[u].email \in Emails /\ Backed(users, u, users[u].email, "EMAIL_VERIFICATION")
        BY <2>1 DEF Resend, Exists, Backed, TypeOK, UserRow
    <2> QED
        BY <1>sending, <1>stays, <2>1, <2>2 DEF Resend, Begin, TypeOK, Purposes
<1>6. CASE \E u \in Users, e \in Emails : ChangeEmail(t, u, e)
    <2>1. PICK u \in Users, e \in Emails : ChangeEmail(t, u, e)
        BY <1>6
    <2>2. Backed(users, u, e, "EMAIL_CHANGE")
        BY <2>1 DEF ChangeEmail, Backed, Exists
    <2> QED
        BY <1>sending, <1>stays, <2>1, <2>2 DEF ChangeEmail, Begin, TypeOK, Purposes
<1>7. CASE \E e \in Emails : VerifyEmail(t, e) \/ \E u \in Users : ConfirmChangeEmail(t, u, e)
    <2>1. PICK e \in Emails, purpose \in Purposes : request'[t] = Accepting(e, purpose)
        BY <1>7 DEF VerifyEmail, ConfirmChangeEmail, Begin, TypeOK, Purposes
    <2> QED
        BY <1>accepting, <2>1 DEF Accepting, Idle
<1>8. CASE ClearCodes(t)
    <2>1. r.step = "clear" /\ request'[t] = [r EXCEPT !.step = "store"]
        BY <1>8 DEF ClearCodes, Continue, TypeOK
    <2>2. /\ request'[t].step = "store" /\ request'[t].user = r.user
          /\ request'[t].email = r.email /\ request'[t].purpose = r.purpose
        BY <1>valid, <2>1 DEF Request
    <2> QED
        BY <1>valid, <1>stays, <2>1, <2>2 DEF RequestValid, Backed, Exists
<1>9. CASE \E c \in Codes : AcceptCode(t, c)
    <2>1. PICK c \in Codes : AcceptCode(t, c)
        BY <1>9
    <2>2. /\ codes[c] \in CodeRow
          /\ Backed(users, codes[c].user, codes[c].identifier, codes[c].purpose)
          /\ codes[c].identifier = r.email /\ codes[c].purpose = r.purpose
        BY <2>1 DEF AcceptCode, Active, CodesBacked, TypeOK
    <2>3. request'[t] = [r EXCEPT !.step = "use", !.code = c, !.user = codes[c].user]
        BY <2>1 DEF AcceptCode, Continue, TypeOK
    <2>4. /\ request'[t].step = "use" /\ request'[t].user = codes[c].user /\ request'[t].code = c
          /\ request'[t].email = r.email /\ request'[t].purpose = r.purpose
        BY <1>valid, <2>3 DEF Request
    <2>5. r.email \in Emails /\ r.purpose \in Purposes /\ Backed(users', codes[c].user, r.email, r.purpose)
        BY <1>stays, <2>2 DEF CodeRow
    <2> QED
        BY <2>4, <2>5 DEF RequestValid, Backed, Exists
<1>10. CASE UseCode(t)
    <2>1. r.step = "use" /\ request'[t] = [r EXCEPT !.step = "load", !.code = Null]
        BY <1>10 DEF UseCode, Continue, TypeOK
    <2>2. /\ request'[t].step = "load" /\ request'[t].user = r.user
          /\ request'[t].email = r.email /\ request'[t].purpose = r.purpose
        BY <1>valid, <2>1 DEF Request
    <2>3. r.user \in Users /\ r.email \in proven'[r.user]
        BY <1>10, <1>valid, <2>1 DEF UseCode, RequestValid, Backed, TypeOK
    <2> QED
        BY <1>valid, <1>stays, <2>1, <2>2, <2>3 DEF RequestValid, Backed, Exists
<1>11. CASE LoadUser(t) /\ request'[t] # Idle
    <2>1. r.step = "load" /\ request'[t] = [r EXCEPT !.step = "update", !.row = users[r.user]]
        BY <1>11 DEF LoadUser, Finish, Continue, TypeOK
    <2>2. /\ request'[t].step = "update" /\ request'[t].user = r.user
          /\ request'[t].email = r.email /\ request'[t].purpose = r.purpose
        BY <1>valid, <2>1 DEF Request
    <2> QED
        BY <1>valid, <1>stays, <2>1, <2>2 DEF RequestValid, Backed, Exists
<1>12. CASE ThreadStep(t)
    <2>1. Finish(t) => request'[t] = Idle
        BY DEF Finish, TypeOK
    <2>2. CASE \/ \E column \in {"email", "phone"} : SignupRefused(t, column)
               \/ \E c \in Codes : StoreCode(t, c)
               \/ SetVerified(t) \/ SetEmail(t) \/ Abort(t)
        BY <1>idle, <2>1, <2>2 DEF SignupRefused, StoreCode, SetVerified, SetEmail, Abort
    <2> QED
        BY <1>12, <1>idle, <1>2, <1>3, <1>4, <1>5, <1>6, <1>7, <1>8, <1>9, <1>10, <1>11, <2>2
           DEF ThreadStep
<1> QED
    BY <1>1, <1>12, OthersStay DEF Step, Expire

\* What a step gives a thread that goes to, or is at, the step "phone".
LEMMA AtPhone ==
    ASSUME TypeOK, Step, NEW t \in Threads, request'[t].step = "phone", request'[t].user # Null
    PROVE  \/ request'[t] = request[t]
           \/ "email" \in Taken(users, request'[t])
<1>1. CASE \E e \in Emails, p \in Phones : SignupReadsEmail(t, e, p)
    <2>1. PICK e \in Emails, p \in Phones : SignupReadsEmail(t, e, p)
        BY <1>1
    <2>2. PICK u \in WithEmail(e) :
              request'[t] = [[Idle EXCEPT !.step = "phone", !.email = e, !.phone = p]
                                  EXCEPT !.user = u, !.row = users[u]]
        <3>1. request'[t] # [Idle EXCEPT !.step = "phone", !.email = e, !.phone = p]
            BY DEF Idle
        <3> QED
            BY <2>1, <3>1 DEF SignupReadsEmail, Begin, TypeOK
    <2>3. request'[t].email = e
        BY <2>2 DEF Idle
    <2>4. u \in Users /\ users[u] # Null /\ users[u].email = e
        BY DEF WithEmail, Exists
    <2>5. users[u]["email"] = request'[t]["email"]
        BY <2>3, <2>4
    <2> QED
        BY <2>4, <2>5 DEF Taken
<1>2. CASE ThreadStep(t) /\ request'[t].step # "phone"
    BY <1>2
<1>idle. ASSUME Finish(t) PROVE FALSE
    BY <1>idle DEF Finish, Idle, TypeOK
<1>sending. ASSUME NEW u, NEW e, NEW purpose,
                   request'[t] = Sending(u, e, purpose) \/ request'[t] = Accepting(e, purpose)
            PROVE  FALSE
    BY <1>sending DEF Sending, Accepting, Idle
<1>moved. ASSUME NEW step \in {"insert", "store", "use", "load", "update"},
                 request'[t].step = step
          PROVE  FALSE
    BY <1>moved
<1>3. CASE ThreadStep(t)
    <2>1. request[t] \in Request
        BY DEF TypeOK
    <2>2. CASE SignupReadsPhone(t) \/ ClearCodes(t) \/ UseCode(t)
                  \/ LoadUser(t) \/ \E c \in Codes : AcceptCode(t, c)
        <3>1. ASSUME SignupReadsPhone(t) PROVE FALSE
            <4>1. CASE request'[t] = [request[t] EXCEPT !.step = "insert"]
                BY <1>moved, <2>1, <4>1 DEF Request
            <4>2. CASE request'[t] = Sending(request[t].user, request[t].email, "EMAIL_VERIFICATION")
                BY <1>sending, <4>2
            <4> QED
                BY <3>1, <4>1, <4>2 DEF SignupReadsPhone, Continue, TypeOK
        <3>2. ASSUME ClearCodes(t) \/ UseCode(t) PROVE FALSE
            <4>1. \/ request'[t] = [request[t] EXCEPT !.step = "store"]
                  \/ request'[t] = [request[t] EXCEPT !.step = "load", !.code = Null]
                BY <3>2 DEF ClearCodes, UseCode, Continue, TypeOK
            <4>2. request'[t].step \in {"store", "load"}
                BY <2>1, <4>1 DEF Request
            <4> QED
                BY <1>moved, <4>2
        <3>3. ASSUME LoadUser(t) PROVE FALSE
            <4>1. ASSUME Continue(t, [request[t] EXCEPT !.step = "update", !.row = users[request[t].user]])
                  PROVE  FALSE
                <5>1. request'[t] = [request[t] EXCEPT !.step = "update", !.row = users[request[t].user]]
                    BY <4>1 DEF Continue, TypeOK
                <5> QED
                    BY <1>moved, <2>1, <5>1 DEF Request
            <4>2. \/ Finish(t)
                  \/ Continue(t, [request[t] EXCEPT !.step = "update", !.row = users[request[t].user]])
                BY <3>3 DEF LoadUser
            <4> QED
                BY <1>idle, <4>1, <4>2
        <3>4. ASSUME NEW c \in Codes, AcceptCode(t, c) PROVE FALSE
            <4>1. request'[t] = [request[t] EXCEPT !.step = "use", !.code = c, !.user = codes[c].user]
                BY <3>4 DEF AcceptCode, Continue, TypeOK
            <4> QED
                BY <1>moved, <2>1, <4>1 DEF Request
        <3> QED
            BY <2>2, <3>1, <3>2, <3>3, <3>4
    <2>3. CASE \/ \E u \in Users : SignupInserts(t, u) \/ Resend(t, u)
               \/ \E u \in Users, e \in Emails : ChangeEmail(t, u, e) \/ ConfirmChangeEmail(t, u, e)
               \/ \E e \in Emails : VerifyEmail(t, e)
        BY <1>sending, <2>3
           DEF SignupInserts, Resend, ChangeEmail, ConfirmChangeEmail, VerifyEmail, Begin,
               Continue, TypeOK
    <2>4. CASE \/ \E column \in {"email", "phone"} : SignupRefused(t, column)
               \/ \E c \in Codes : StoreCode(t, c)
               \/ SetVerified(t) \/ SetEmail(t) \/ Abort(t)
        BY <1>idle, <2>4 DEF SignupRefused, StoreCode, SetVerified, SetEmail, Abort
    <2> QED
        BY <1>3, <1>1, <2>2, <2>3, <2>4 DEF ThreadStep
<1> QED
    BY <1>3, OthersStay DEF Step, Expire

LEMMA WitnessStep ==
    ASSUME TypeOK, Witnessed, Next
    PROVE  Witnessed'
<1> SUFFICES ASSUME NEW t \in Threads
             PROVE  RequestWitnessed(t)'
    BY DEF Witnessed
<1>1. Step /\ Witness
    BY DEF Next, Step
<1>2. CASE request'[t].step \in {"phone", "insert"}
    <2>1. held'[t] = held[t] \cup Taken(users, request'[t]) \cup Taken(users', request'[t])
        BY <1>1, <1>2 DEF Witness
    <2>2. request'[t].step = "phone" /\ request'[t].user # Null => "email" \in held'[t]
        BY <1>1, <2>1, AtPhone DEF Witnessed, RequestWitnessed
    <2>3. Taken(users', request'[t]) \subseteq held'[t]
        BY <2>1
    <2> QED
        BY <2>2, <2>3 DEF RequestWitnessed, Taken
<1>3. CASE request'[t].step \notin {"phone", "insert"}
    BY <1>3 DEF RequestWitnessed
<1> QED
    BY <1>2, <1>3

\* The inductive invariant holds.
THEOREM Invariance == Spec => []IInv
<1>1. Init => IInv
    <2>1. ASSUME Init PROVE TypeOK
        BY <2>1, IdleType DEF Init, TypeOK
    <2>2. ASSUME Init PROVE RequestsValid /\ Witnessed
        BY <2>2 DEF Init, RequestsValid, RequestValid, Witnessed, RequestWitnessed, Idle
    <2>3. ASSUME Init PROVE CodesBacked
        BY <2>3 DEF Init, CodesBacked
    <2> QED
        BY <2>1, <2>2, <2>3 DEF IInv
<1>2. IInv /\ [Next]_vars => IInv'
    <2>1. ASSUME IInv, Next PROVE IInv'
        <3>1. Step
            BY <2>1 DEF Next, Step
        <3>2. TypeOK'
            BY <2>1, TypeStep DEF IInv
        <3>3. CodesBacked' /\ RequestsValid'
            BY <2>1, <3>1, <3>2, CodesStep, RequestsStep DEF IInv
        <3>4. Witnessed'
            BY <2>1, WitnessStep DEF IInv
        <3> QED
            BY <3>2, <3>3, <3>4 DEF IInv
    <2>2. ASSUME IInv, UNCHANGED vars PROVE IInv'
        BY <2>2 DEF IInv, vars, rows, TypeOK, CodesBacked, RequestsValid, RequestValid, Backed,
                    Witnessed, RequestWitnessed, Taken
    <2> QED
        BY <2>1, <2>2
<1> QED
    BY <1>1, <1>2, PTL DEF Spec

\* The rows, the codes and the requests stay well formed.
THEOREM TypeCorrect == Spec => []TypeOK
<1>1. IInv => TypeOK
    BY DEF IInv
<1> QED
    BY <1>1, Invariance, PTL

-----------------------------------------------------------------------------
(***************************************************************************)
(* A sign-up is refused only for what was so at some moment while it ran.  *)
(***************************************************************************)
THEOREM RefusalsCorrect == Spec => RefusalsAreTrue
<1>1. ASSUME IInv, NEW t \in Threads
      PROVE  /\ SignupRefused(t, "email") => "email" \in held[t]
             /\ SignupRefused(t, "phone") => held[t] # {}
    <2> DEFINE r == request[t]
    <2>1. /\ r.step \in {"phone", "insert"} => Taken(users, r) \subseteq held[t]
          /\ r.step = "phone" /\ r.user # Null => "email" \in held[t]
        BY <1>1 DEF IInv, Witnessed, RequestWitnessed
    <2>2. ASSUME r.step = "phone", WithPhone(r.phone) \ {r.user} # {}
          PROVE  "phone" \in Taken(users, r)
        <3>1. PICK u \in Users : users[u] # Null /\ users[u].phone = r.phone
            BY <2>2 DEF WithPhone, Exists
        <3>2. users[u]["phone"] = r["phone"]
            BY <3>1
        <3> QED
            BY <3>1, <3>2 DEF Taken
    <2>3. ASSUME SignupRefused(t, "email") PROVE "email" \in held[t]
        <3>1. CASE r.step = "insert"
            <4>1. PICK broken \in Refused(r) : "email" \in Blamed(broken)
                BY <2>3, <3>1 DEF SignupRefused
            <4>2. broken = "email" /\ broken \in Taken(users, r)
                <5>1. broken # "phone"
                    BY <4>1 DEF Blamed
                <5>2. broken \in Taken(users, r) /\ broken \in {"email", "phone"}
                    BY <4>1, TakenType DEF Refused
                <5> QED
                    BY <5>1, <5>2
            <4> QED
                BY <2>1, <3>1, <4>2
        <3> QED
            BY <2>1, <2>3, <3>1 DEF SignupRefused
    <2>4. ASSUME SignupRefused(t, "phone") PROVE held[t] # {}
        BY <2>1, <2>2, <2>4 DEF SignupRefused, Refused
    <2> QED
        BY <2>3, <2>4
<1>2. IInv /\ [Next]_vars => [\A t \in Threads :
          /\ SignupRefused(t, "email") => "email" \in held[t]
          /\ SignupRefused(t, "phone") => held[t] # {}]_vars
    BY <1>1
<1> QED
    BY <1>2, Invariance, PTL DEF Spec, RefusalsAreTrue

-----------------------------------------------------------------------------
(***************************************************************************)
(* The service implements AccountRegistry.                                 *)
(***************************************************************************)

\* Making somebody verified who is verified already changes nothing.
LEMMA VerifiedAgain ==
    ASSUME TypeOK, NEW u \in Users, Exists(u), users[u].verified,
           users' = [users EXCEPT ![u].verified = TRUE]
    PROVE  users' = users
<1>1. users[u] \in UserRow
    BY DEF TypeOK, Exists
<1>2. [users[u] EXCEPT !.verified = TRUE] = users[u]
    BY <1>1 DEF UserRow
<1> QED
    BY <1>2 DEF TypeOK

LEMMA StepRefines ==
    ASSUME TypeOK, RequestsValid, Step
    PROVE  Registry!Next \/ UNCHANGED <<users, proven>>
<1> USE DEF Registry!Next
<1>1. CASE \E t \in Threads, u \in Users : SignupInserts(t, u)
    <2>1. PICK t \in Threads, u \in Users : SignupInserts(t, u)
        BY <1>1
    <2> DEFINE r == request[t]
    <2>2. r.email \in Emails /\ r.phone \in Phones
        BY <2>1 DEF SignupInserts, RequestsValid, RequestValid
    <2>3. \A v \in Users : users[v] # Null =>
              users[v]["email"] # r["email"] /\ users[v]["phone"] # r["phone"]
        BY <2>1 DEF SignupInserts, Refused, Taken
    <2>4. \A v \in Users : users[v] # Null => users[v].email # r.email /\ users[v].phone # r.phone
        BY <2>3
    <2>5. Registry!Register(u, r.email, r.phone)
        BY <2>1, <2>4 DEF SignupInserts, Exists, Registry!Register, Registry!Exists,
                          Registry!EmailTaken, Registry!PhoneTaken
    <2> QED
        BY <2>2, <2>5
<1>2. CASE \E t \in Threads : UseCode(t)
    <2>1. PICK t \in Threads : UseCode(t)
        BY <1>2
    <2> DEFINE r == request[t]
    <2>2. r.user \in Users /\ Exists(r.user) /\ r.email \in Emails
        BY <2>1 DEF UseCode, RequestsValid, RequestValid, Backed, Exists
    <2>3. Registry!Prove(r.user, r.email)
        BY <2>1, <2>2 DEF UseCode, Registry!Prove, Registry!Exists, Exists
    <2> QED
        BY <2>2, <2>3
<1>3. CASE \E t \in Threads : SetVerified(t)
    <2>1. PICK t \in Threads : SetVerified(t)
        BY <1>3
    <2> DEFINE u == request[t].user
               e == request[t].email
    <2>2. /\ u \in Users /\ Exists(u) /\ e \in proven[u]
          /\ users[u].verified \/ users[u].email = e
        BY <2>1 DEF SetVerified, RequestsValid, RequestValid, Backed, Exists
    <2>3. users' = [users EXCEPT ![u].verified = TRUE] /\ proven' = proven
        BY <2>1 DEF SetVerified
    <2>4. CASE users[u].verified
        BY <2>2, <2>3, <2>4, VerifiedAgain
    <2>5. CASE users[u].email = e
        <3>1. Registry!Verify(u)
            BY <2>2, <2>3, <2>5 DEF Registry!Verify, Registry!Exists, Exists
        <3> QED
            BY <2>2, <3>1
    <2> QED
        BY <2>2, <2>4, <2>5
<1>4. CASE \E t \in Threads : SetEmail(t)
    <2>1. PICK t \in Threads : SetEmail(t)
        BY <1>4
    <2> DEFINE u == request[t].user
               e == request[t].email
    <2>2. /\ u \in Users /\ Exists(u) /\ e \in Emails /\ e \in proven[u]
          /\ users[u].verified
        BY <2>1 DEF SetEmail, RequestsValid, RequestValid, Backed, Exists
    <2>3. CASE /\ WithEmail(e) \subseteq {u}
               /\ users' = [users EXCEPT ![u].email = e, ![u].verified = TRUE]
        <3>1. CASE users[u].email = e
            <4>1. users[u] \in UserRow
                BY <2>2 DEF TypeOK, Exists
            <4>2. [users[u] EXCEPT !.email = e] = users[u]
                BY <3>1, <4>1 DEF UserRow
            <4>3. [users EXCEPT ![u].email = e] = users
                BY <4>2 DEF TypeOK
            <4> QED
                BY <2>1, <2>2, <2>3, <4>3, VerifiedAgain DEF SetEmail
        <3>2. CASE users[u].email # e
            <4>1. ~Registry!EmailTaken(e)
                BY <2>3, <3>2 DEF WithEmail, Exists, Registry!EmailTaken, Registry!Exists
            <4>2. Registry!Move(u, e)
                BY <2>1, <2>2, <2>3, <4>1
                   DEF SetEmail, Registry!Move, Registry!Exists, Exists
            <4> QED
                BY <2>2, <4>2
        <3> QED
            BY <3>1, <3>2
    <2>4. CASE users' = [users EXCEPT ![u].verified = TRUE]
        BY <2>1, <2>2, <2>4, VerifiedAgain DEF SetEmail
    <2> QED
        BY <2>1, <2>3, <2>4 DEF SetEmail
<1> QED
    BY <1>1, <1>2, <1>3, <1>4, Steps
       DEF rows, SignupReadsEmail, SignupReadsPhone, SignupRefused, Resend, ChangeEmail,
           ConfirmChangeEmail, VerifyEmail, ClearCodes, StoreCode, AcceptCode, LoadUser,
           Abort, Expire

\* However sign-ups, verifications and changes of the address interleave and
\* fail, the accounts change only as AccountRegistry says: no address or phone
\* number has two owners, and nobody is verified for an address from which no
\* code of his came back.
THEOREM RegistryCorrect == Spec => RegistryContract
<1>1. Init => Registry!Init
    BY DEF Init, Registry!Init
<1>2. IInv /\ [Next]_vars => [Registry!Next]_Registry!registryVars
    <2>1. ASSUME IInv, Next PROVE [Registry!Next]_Registry!registryVars
        BY <2>1, StepRefines DEF IInv, Next, Step, Registry!registryVars
    <2>2. ASSUME UNCHANGED vars PROVE [Registry!Next]_Registry!registryVars
        BY <2>2 DEF vars, rows, Registry!registryVars
    <2> QED
        BY <2>1, <2>2
<1> QED
    BY <1>1, <1>2, Invariance, PTL DEF Spec, RegistryContract, Registry!Spec

-----------------------------------------------------------------------------
(***************************************************************************)
(* What the registry of accounts guarantees, whoever implements it.  The   *)
(* rows of the users stand for its accounts; any function would do.        *)
(***************************************************************************)
RegistryInv ==
    /\ Registry!TypeOK
    /\ Registry!OneAccountEach
    /\ Registry!VerifiedIsProven

LEMMA RegisterKeeps ==
    ASSUME RegistryInv, NEW u \in Users, NEW e \in Emails, NEW p \in Phones,
           Registry!Register(u, e, p)
    PROVE  RegistryInv'
<1> USE DEF RegistryInv, Registry!TypeOK
<1>1. users'[u] = [email |-> e, phone |-> p, verified |-> FALSE]
    BY DEF Registry!Register
<1>2. \A v \in Users \ {u} : users'[v] = users[v]
    BY DEF Registry!Register
<1>3. Registry!TypeOK'
    BY DEF Registry!Register, Registry!AccountRow
<1>4. Registry!OneAccountEach'
    BY <1>1, <1>2
       DEF Registry!Register, Registry!OneAccountEach, Registry!Exists,
           Registry!EmailTaken, Registry!PhoneTaken
<1>5. Registry!VerifiedIsProven'
    BY <1>1, <1>2 DEF Registry!Register, Registry!VerifiedIsProven, Registry!Exists
<1> QED
    BY <1>3, <1>4, <1>5

LEMMA ProveKeeps ==
    ASSUME RegistryInv, NEW u \in Users, NEW e \in Emails, Registry!Prove(u, e)
    PROVE  RegistryInv'
BY DEF RegistryInv, Registry!TypeOK, Registry!OneAccountEach, Registry!VerifiedIsProven,
       Registry!Exists, Registry!Prove

\* What Verify and Move write into the row of u.
LEMMA UpdateKeeps ==
    ASSUME RegistryInv, NEW u \in Users, NEW e \in Emails, Registry!Exists(u),
           users' = [users EXCEPT ![u].email = e, ![u].verified = TRUE],
           e \in proven[u], UNCHANGED proven,
           users[u].email = e \/ ~Registry!EmailTaken(e)
    PROVE  RegistryInv'
<1> USE DEF RegistryInv, Registry!TypeOK
<1>1. users[u] \in Registry!AccountRow
    BY DEF Registry!Exists
<1>2. /\ users'[u] \in Registry!AccountRow
      /\ users'[u].email = e /\ users'[u].phone = users[u].phone
    BY <1>1 DEF Registry!AccountRow
<1>3. \A v \in Users \ {u} : users'[v] = users[v]
    OBVIOUS
<1>4. Registry!TypeOK'
    BY <1>2, <1>3
<1>5. Registry!OneAccountEach'
    BY <1>2, <1>3 DEF Registry!OneAccountEach, Registry!Exists, Registry!EmailTaken
<1>6. Registry!VerifiedIsProven'
    BY <1>2, <1>3 DEF Registry!VerifiedIsProven, Registry!Exists
<1> QED
    BY <1>4, <1>5, <1>6

LEMMA VerifyKeeps ==
    ASSUME RegistryInv, NEW u \in Users, Registry!Verify(u)
    PROVE  RegistryInv'
<1>1. users[u] \in Registry!AccountRow
    BY DEF RegistryInv, Registry!TypeOK, Registry!Verify, Registry!Exists
<1>2. users[u].email \in Emails /\ [users[u] EXCEPT !.email = users[u].email] = users[u]
    BY <1>1 DEF Registry!AccountRow
<1>3. [users EXCEPT ![u].email = users[u].email] = users
    BY <1>2 DEF RegistryInv, Registry!TypeOK
<1>4. users' = [users EXCEPT ![u].email = users[u].email, ![u].verified = TRUE]
    BY <1>3 DEF Registry!Verify
<1> QED
    BY <1>2, <1>4, UpdateKeeps DEF Registry!Verify

\* The invariants hold in every registry.
THEOREM RegistryInvariance == Registry!Spec => []RegistryInv
<1>1. Registry!Init => RegistryInv
    BY DEF Registry!Init, RegistryInv, Registry!TypeOK, Registry!OneAccountEach,
           Registry!VerifiedIsProven, Registry!Exists
<1>2. RegistryInv /\ [Registry!Next]_Registry!registryVars => RegistryInv'
    <2>1. ASSUME RegistryInv, Registry!Next PROVE RegistryInv'
        <3>1. ASSUME NEW u \in Users, NEW e \in Emails, Registry!Move(u, e) PROVE RegistryInv'
            BY <2>1, <3>1, UpdateKeeps DEF Registry!Move
        <3> QED
            BY <2>1, <3>1, RegisterKeeps, ProveKeeps, VerifyKeeps DEF Registry!Next
    <2>2. ASSUME RegistryInv, UNCHANGED Registry!registryVars PROVE RegistryInv'
        BY <2>2
           DEF Registry!registryVars, RegistryInv, Registry!TypeOK,
               Registry!OneAccountEach, Registry!VerifiedIsProven, Registry!Exists
    <2> QED
        BY <2>1, <2>2
<1> QED
    BY <1>1, <1>2, PTL DEF Registry!Spec

\* An address and a phone number belong to one account at a time.
THEOREM UniqueAccounts == Registry!Spec => []Registry!OneAccountEach
<1>1. RegistryInv => Registry!OneAccountEach
    BY DEF RegistryInv
<1> QED
    BY <1>1, RegistryInvariance, PTL

\* Whoever is verified has shown that his address is his.
THEOREM ProvenAccounts == Registry!Spec => []Registry!VerifiedIsProven
<1>1. RegistryInv => Registry!VerifiedIsProven
    BY DEF RegistryInv
<1> QED
    BY <1>1, RegistryInvariance, PTL

\* So an address and a phone number belong to one account at a time, and who
\* is verified has shown that his address is his (signup, verify_email,
\* confirm_change_email).
THEOREM AccountsCorrect ==
    Spec => [](Registry!OneAccountEach /\ Registry!VerifiedIsProven)
BY RegistryCorrect, UniqueAccounts, ProvenAccounts, PTL DEF RegistryContract
=============================================================================
