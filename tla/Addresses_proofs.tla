-------------------------- MODULE Addresses_proofs --------------------------
(***************************************************************************)
(* Proofs about the address book, for any number of users, addresses and   *)
(* threads: how far overlapping requests can exceed the limit, and how     *)
(* many defaults they can leave.                                           *)
(***************************************************************************)
EXTENDS Addresses, FiniteSetTheorems, TLAPS

-----------------------------------------------------------------------------
(***************************************************************************)
(* The inductive invariant.                                                *)
(***************************************************************************)

\* What a request carries when it gets to a step that uses it.
RequestValid(r) ==
    /\ r.step # "idle" => r.user \in Users
    /\ r.step = "insert" => r.id = Null
    /\ r.step \in {"write", "delete"} => r.id \in Ids

RequestsValid == \A t \in Threads : RequestValid(request[t])

\* A user works on his own addresses.
RowsOwned ==
    \A t \in Threads : request[t].id \in Ids =>
        request[t].user \in Users /\ address[request[t].id].user = request[t].user

\* If thread t is on its way to set a default of user u, the default a of u
\* is one that t will have cleared by then, or the address it will set.
WillClear(t, a, u) ==
    LET r == request[t] IN
    r.user = u /\ r.default = "true" =>
        /\ r.step = "meet" => a \in r.todo \cup r.cleared \cup {r.id}
        /\ r.step \in {"insert", "write"} => a \in r.cleared \cup {r.id}

\* Each default has a thread of its own, the one that set it last, which
\* clears it before it sets another.
Setters(u) ==
    {f \in Injection(DefaultsOf(u), Threads) :
        \A a \in DefaultsOf(u) : WillClear(f[a], a, u)}

DefaultsSet == \A u \in Users : Setters(u) # {}

\* A PATCH never clears the row it is about, and a DELETE sets no default.
OwnRowKept ==
    \A t \in Threads :
        /\ request[t].id \notin request[t].todo \cup request[t].cleared
        /\ request[t].step = "delete" => request[t].default = "unset"

\* The rows that an UPDATE meets and clears are those of its user.
ClearsOwn ==
    \A t \in Threads : \A a \in request[t].todo \cup request[t].cleared :
        request[t].user \in Users /\ address[a].user = request[t].user

\* A request in progress with another of its user is among the disturbed.
MeetingsNoticed ==
    \A t \in Threads :
        request[t] # Idle /\ HasCompany(t) => t \in disturbed

\* What the row of a PATCH holds when it is written is what was read.
RowAsRead(t) ==
    request[t].step \in {"clear", "meet", "write"} /\ request[t].id # Null =>
        /\ Live(request[t].id)
        /\ address[request[t].id].is_default = request[t].seen

\* A request that is alone with the addresses of its user knows its own row, and
\* clears all the defaults there are.
AloneKnows ==
    \A t \in Threads \ disturbed :
        /\ RowAsRead(t)
        /\ \A a \in DefaultsOf(request[t].user) : WillClear(t, a, request[t].user)

IInv ==
    /\ TypeOK
    /\ RequestsValid
    /\ RowsOwned
    /\ LimitOvershoot
    /\ DefaultsSet
    /\ OwnRowKept
    /\ ClearsOwn
    /\ MeetingsNoticed
    /\ AloneKnows

-----------------------------------------------------------------------------
(***************************************************************************)
(* The steps.                                                              *)
(***************************************************************************)
LEMMA Steps ==
    ASSUME Next
    PROVE  \/ \E t \in Threads, u \in Users, default \in {"true", "false"} :
                  CountForCreate(t, u, default)
           \/ \E t \in Threads, u \in Users, a \in Ids,
                 default \in {"true", "false", "unset"}, other \in BOOLEAN :
                  LoadForUpdate(t, u, a, default, other)
           \/ \E t \in Threads, u \in Users, a \in Ids : LoadForDelete(t, u, a)
           \/ \E t \in Threads : ClearDefaultForUser(t)
           \/ \E t \in Threads, a \in Ids : MeetRow(t, a)
           \/ \E t \in Threads : Met(t)
           \/ \E t \in Threads : CreateAddress(t)
           \/ \E t \in Threads : UpdateAddress(t)
           \/ \E t \in Threads : DeleteAddress(t)
           \/ \E t \in Threads : Release(t) /\ UNCHANGED address
  BY DEF Next, Serve, Work, Abort, Deadlocks, ResolveDeadlock

\* The request of thread t becomes r, the others stay.
Becomes(t, r) ==
    /\ request' \in [Threads -> Request]
    /\ request'[t] = r
    /\ \A s \in Threads \ {t} : request'[s] = request[s]

LEMMA IdleRequest == Idle \in Request /\ RequestValid(Idle)
  BY DEF Idle, Request, RequestValid

LEMMA Rewrite ==
    ASSUME TypeOK, NEW t \in Threads, NEW r \in Request,
           request' = [request EXCEPT ![t] = r]
    PROVE  Becomes(t, r)
  BY DEF TypeOK, Becomes

LEMMA Releases ==
    ASSUME TypeOK, NEW t \in Threads, Release(t)
    PROVE  /\ Becomes(t, Idle)
           /\ lock' \in [Ids -> Threads \cup {Null}]
  BY Rewrite, IdleRequest DEF Release, TypeOK

\* The requests that begin.
CreateRequest(u, default) ==
    [Idle EXCEPT !.user = u, !.default = default,
                 !.step = IF default = "true" THEN "clear" ELSE "insert"]

UpdateRequest(u, a, default, other) ==
    [Idle EXCEPT !.user = u, !.id = a, !.default = default,
                 !.other = other, !.seen = address[a].is_default,
                 !.step = IF default = "true" THEN "clear" ELSE "write"]

DeleteRequest(u, a) == [Idle EXCEPT !.user = u, !.id = a, !.step = "delete"]

LEMMA Creates ==
    ASSUME TypeOK, NEW t \in Threads, NEW u \in Users,
           NEW default \in {"true", "false"}, CountForCreate(t, u, default)
    PROVE  /\ Becomes(t, CreateRequest(u, default))
           /\ CreateRequest(u, default).user = u
           /\ CreateRequest(u, default).id = Null
           /\ CreateRequest(u, default).default = default
           /\ CreateRequest(u, default).step =
                 IF default = "true" THEN "clear" ELSE "insert"
           /\ request[t] = Idle
           /\ UNCHANGED <<address, lock>>
<1>1. CreateRequest(u, default) \in Request
  BY DEF CreateRequest, Idle, Request
<1>2. Begin(t, CreateRequest(u, default))
  BY DEF CountForCreate, CreateRequest
<1>3. Becomes(t, CreateRequest(u, default))
  BY <1>1, <1>2, Rewrite DEF Begin
<1>4. /\ CreateRequest(u, default).user = u
      /\ CreateRequest(u, default).id = Null
      /\ CreateRequest(u, default).default = default
      /\ CreateRequest(u, default).step =
            IF default = "true" THEN "clear" ELSE "insert"
  BY DEF CreateRequest, Idle
<1>5. QED  BY <1>2, <1>3, <1>4 DEF Begin

LEMMA Updates ==
    ASSUME TypeOK, NEW t \in Threads, NEW u \in Users, NEW a \in Ids,
           NEW default \in {"true", "false", "unset"}, NEW other \in BOOLEAN,
           LoadForUpdate(t, u, a, default, other)
    PROVE  /\ Becomes(t, UpdateRequest(u, a, default, other))
           /\ UpdateRequest(u, a, default, other).user = u
           /\ UpdateRequest(u, a, default, other).id = a
           /\ UpdateRequest(u, a, default, other).default = default
           /\ UpdateRequest(u, a, default, other).step =
                 IF default = "true" THEN "clear" ELSE "write"
           /\ request[t] = Idle
           /\ UNCHANGED <<address, lock>>
<1>1. address[a].is_default \in BOOLEAN
  BY DEF TypeOK, AddressRow
<1>2. UpdateRequest(u, a, default, other) \in Request
  BY <1>1 DEF UpdateRequest, Idle, Request
<1>3. Begin(t, UpdateRequest(u, a, default, other))
  BY DEF LoadForUpdate, UpdateRequest
<1>4. Becomes(t, UpdateRequest(u, a, default, other))
  BY <1>2, <1>3, Rewrite DEF Begin
<1>5. /\ UpdateRequest(u, a, default, other).user = u
      /\ UpdateRequest(u, a, default, other).id = a
      /\ UpdateRequest(u, a, default, other).default = default
      /\ UpdateRequest(u, a, default, other).step =
            IF default = "true" THEN "clear" ELSE "write"
  BY DEF UpdateRequest, Idle
<1>6. QED  BY <1>3, <1>4, <1>5 DEF Begin

LEMMA Deletes ==
    ASSUME TypeOK, NEW t \in Threads, NEW u \in Users, NEW a \in Ids,
           LoadForDelete(t, u, a)
    PROVE  /\ Becomes(t, DeleteRequest(u, a))
           /\ DeleteRequest(u, a).user = u
           /\ DeleteRequest(u, a).id = a
           /\ DeleteRequest(u, a).step = "delete"
           /\ request[t] = Idle
           /\ UNCHANGED <<address, lock>>
<1>1. DeleteRequest(u, a) \in Request
  BY DEF DeleteRequest, Idle, Request
<1>2. Begin(t, DeleteRequest(u, a))
  BY DEF LoadForDelete, DeleteRequest
<1>3. Becomes(t, DeleteRequest(u, a))
  BY <1>1, <1>2, Rewrite DEF Begin
<1>4. /\ DeleteRequest(u, a).user = u
      /\ DeleteRequest(u, a).id = a
      /\ DeleteRequest(u, a).step = "delete"
  BY DEF DeleteRequest, Idle
<1>5. QED  BY <1>2, <1>3, <1>4 DEF Begin

\* The requests that go on.
LEMMA Clears ==
    ASSUME TypeOK, NEW t \in Threads, ClearDefaultForUser(t)
    PROVE  /\ Becomes(t, [request[t] EXCEPT !.step = "meet",
                                            !.todo = Candidates(request[t])])
           /\ UNCHANGED <<address, lock>>
<1>1. Candidates(request[t]) \in SUBSET Ids
  BY DEF Candidates, DefaultsOf, AddressesOf
<1>2. request[t] \in Request
  BY DEF TypeOK
<1>3. [request[t] EXCEPT !.step = "meet", !.todo = Candidates(request[t])] \in Request
  BY <1>1, <1>2 DEF Request
<1>4. request' = [request EXCEPT ![t] =
         [request[t] EXCEPT !.step = "meet", !.todo = Candidates(request[t])]]
  BY <1>2 DEF ClearDefaultForUser, TypeOK, Request
<1>5. QED  BY <1>3, <1>4, Rewrite DEF ClearDefaultForUser

LEMMA Meets ==
    ASSUME TypeOK, NEW t \in Threads, NEW a \in Ids, MeetRow(t, a)
    PROVE  /\ \/ /\ Live(a) /\ address[a].is_default
                 /\ Becomes(t, [request[t] EXCEPT !.todo = @ \ {a},
                                                  !.cleared = @ \cup {a}])
              \/ /\ ~(Live(a) /\ address[a].is_default)
                 /\ Becomes(t, [request[t] EXCEPT !.todo = @ \ {a}])
           /\ request[t].step = "meet"
           /\ lock' \in [Ids -> Threads \cup {Null}]
           /\ UNCHANGED address
<1>1. request[t] \in Request
  BY DEF TypeOK
<1>2. CASE Live(a) /\ address[a].is_default
  <2>1. [request[t] EXCEPT !.todo = @ \ {a}, !.cleared = @ \cup {a}] \in Request
    BY <1>1 DEF Request
  <2>2. request' = [request EXCEPT ![t] =
           [request[t] EXCEPT !.todo = @ \ {a}, !.cleared = @ \cup {a}]]
    BY <1>1, <1>2 DEF MeetRow, TypeOK, Request
  <2>3. Becomes(t, [request[t] EXCEPT !.todo = @ \ {a}, !.cleared = @ \cup {a}])
    BY <2>1, <2>2, Rewrite
  <2>4. QED  BY <1>2, <2>3 DEF MeetRow, TypeOK
<1>3. CASE ~(Live(a) /\ address[a].is_default)
  <2>1. [request[t] EXCEPT !.todo = @ \ {a}] \in Request
    BY <1>1 DEF Request
  <2>2. request' = [request EXCEPT ![t] = [request[t] EXCEPT !.todo = @ \ {a}]]
    BY <1>1, <1>3 DEF MeetRow, TypeOK, Request
  <2>3. Becomes(t, [request[t] EXCEPT !.todo = @ \ {a}])
    BY <2>1, <2>2, Rewrite
  <2>4. QED  BY <1>3, <2>3 DEF MeetRow, TypeOK
<1>4. QED  BY <1>2, <1>3

LEMMA GoesOn ==
    ASSUME TypeOK, NEW t \in Threads, Met(t)
    PROVE  /\ Becomes(t, [request[t] EXCEPT !.step =
                             IF request[t].id = Null THEN "insert" ELSE "write"])
           /\ request[t].step = "meet" /\ request[t].todo = {}
           /\ UNCHANGED <<address, lock>>
<1>1. request[t] \in Request
  BY DEF TypeOK
<1>2. [request[t] EXCEPT !.step = IF request[t].id = Null THEN "insert" ELSE "write"]
         \in Request
  BY <1>1 DEF Request
<1>3. QED  BY <1>2, Rewrite DEF Met

\* A step leaves the requests alone, rewrites one, or ends it.
LEMMA Continues ==
    ASSUME TypeOK, NEW t \in Threads,
           \/ ClearDefaultForUser(t) \/ (\E a \in Ids : MeetRow(t, a)) \/ Met(t)
    PROVE  /\ request' \in [Threads -> Request]
           /\ \A s \in Threads \ {t} : request'[s] = request[s]
           /\ request[t].step \in {"clear", "meet"}
           /\ request'[t].step \in {"meet", "insert", "write"}
           /\ request'[t].user = request[t].user
           /\ request'[t].id = request[t].id
           /\ request'[t].default = request[t].default
           /\ request'[t].step = "insert" => request[t].id = Null
           /\ request'[t].step = "write" => request[t].id # Null
           /\ lock' \in [Ids -> Threads \cup {Null}]
           /\ UNCHANGED address
<1>1. request[t] \in Request
  BY DEF TypeOK
<1> DEFINE Kept == /\ request' \in [Threads -> Request]
                   /\ \A s \in Threads \ {t} : request'[s] = request[s]
                   /\ request'[t].user = request[t].user
                   /\ request'[t].id = request[t].id
                   /\ request'[t].default = request[t].default
<1>2. ASSUME NEW r \in Request, Becomes(t, r), r.user = request[t].user,
             r.id = request[t].id, r.default = request[t].default
      PROVE  Kept /\ request'[t] = r
  BY <1>2 DEF Becomes
<1>3. CASE ClearDefaultForUser(t)
  <2> DEFINE r == [request[t] EXCEPT !.step = "meet", !.todo = Candidates(request[t])]
  <2>1. Becomes(t, r) /\ UNCHANGED <<address, lock>>
    BY <1>3, Clears
  <2>2. /\ r.step = "meet" /\ r.user = request[t].user
        /\ r.id = request[t].id /\ r.default = request[t].default
    BY <1>1 DEF Request
  <2>3. request'[t] = r /\ r \in Request
    BY <2>1 DEF Becomes
  <2>4. request[t].step = "clear"
    BY <1>3 DEF ClearDefaultForUser
  <2> HIDE DEF r
  <2>5. Kept
    BY <1>2, <2>1, <2>2, <2>3
  <2>6. QED  BY <2>1, <2>2, <2>3, <2>4, <2>5 DEF TypeOK
<1>4. ASSUME NEW a \in Ids, MeetRow(t, a)
      PROVE  /\ Kept /\ UNCHANGED address
             /\ request[t].step = "meet" /\ request'[t].step = "meet"
             /\ lock' \in [Ids -> Threads \cup {Null}]
  <2>1. PICK r : /\ Becomes(t, r)
                 /\ \/ r = [request[t] EXCEPT !.todo = @ \ {a}, !.cleared = @ \cup {a}]
                    \/ r = [request[t] EXCEPT !.todo = @ \ {a}]
    BY <1>4, Meets
  <2>2. request'[t] = r /\ r \in Request
    BY <2>1 DEF Becomes
  <2>3. /\ r.step = request[t].step /\ r.user = request[t].user
        /\ r.id = request[t].id /\ r.default = request[t].default
    BY <1>1, <2>1 DEF Request
  <2>4. Kept
    BY <1>2, <2>1, <2>2, <2>3
  <2>5. QED  BY <1>4, <2>2, <2>3, <2>4, Meets
<1>5. CASE Met(t)
  <2> DEFINE r == [request[t] EXCEPT !.step =
                      IF request[t].id = Null THEN "insert" ELSE "write"]
  <2>1. Becomes(t, r) /\ request[t].step = "meet" /\ UNCHANGED <<address, lock>>
    BY <1>5, GoesOn
  <2>2. /\ r.step = IF request[t].id = Null THEN "insert" ELSE "write"
        /\ r.user = request[t].user
        /\ r.id = request[t].id /\ r.default = request[t].default
    BY <1>1 DEF Request
  <2>3. request'[t] = r /\ r \in Request
    BY <2>1 DEF Becomes
  <2> HIDE DEF r
  <2>4. Kept
    BY <1>2, <2>1, <2>2, <2>3
  <2>5. QED  BY <2>1, <2>2, <2>3, <2>4 DEF TypeOK
<1>6. QED  BY <1>3, <1>4, <1>5

-----------------------------------------------------------------------------
(***************************************************************************)
(* The rows.                                                               *)
(***************************************************************************)
LEMMA ClearedRows ==
    ASSUME TypeOK, NEW t \in Threads
    PROVE  /\ Cleared(t) \in [Ids -> AddressRow]
           /\ \A a \in Ids :
                 /\ Cleared(t)[a].state = address[a].state
                 /\ Cleared(t)[a].user = address[a].user
                 /\ Cleared(t)[a].is_default =>
                       address[a].is_default /\ a \notin request[t].cleared
<1>1. \A a \in Ids : [address[a] EXCEPT !.is_default = FALSE] \in AddressRow
  BY DEF TypeOK, AddressRow
<1>2. Cleared(t) \in [Ids -> AddressRow]
  BY <1>1 DEF Cleared, TypeOK
<1>3. ASSUME NEW a \in Ids
      PROVE  /\ Cleared(t)[a].state = address[a].state
             /\ Cleared(t)[a].user = address[a].user
             /\ Cleared(t)[a].is_default =>
                   address[a].is_default /\ a \notin request[t].cleared
  <2>1. address[a] \in AddressRow
    BY DEF TypeOK
  <2>2. Cleared(t)[a] = IF a \in request[t].cleared
                        THEN [address[a] EXCEPT !.is_default = FALSE]
                        ELSE address[a]
    BY DEF Cleared
  <2>3. QED  BY <2>1, <2>2 DEF AddressRow
<1>4. QED  BY <1>2, <1>3

\* An INSERT adds one row and clears what its UPDATE has met.
LEMMA Created ==
    ASSUME TypeOK, RequestsValid, NEW t \in Threads, CreateAddress(t)
    PROVE  /\ address' \in [Ids -> AddressRow]
           /\ \/ address' = address
              \/ \E a \in Ids :
                    /\ address[a] = Unused
                    /\ address'[a] = NewAddress(request[t], a)
                    /\ \A b \in Ids \ {a} : address'[b] = Cleared(t)[b]
<1>1. CASE UnusedIds = {}
  BY <1>1 DEF CreateAddress, TypeOK
<1>2. CASE UnusedIds # {}
  <2>1. PICK a \in UnusedIds :
           address' = [Cleared(t) EXCEPT ![a] = NewAddress(request[t], a)]
    BY <1>2 DEF CreateAddress
  <2>2. a \in Ids /\ address[a] = Unused
    BY DEF UnusedIds
  <2>3. request[t].user \in Users
    BY DEF CreateAddress, RequestsValid, RequestValid
  <2>4. NewAddress(request[t], a) \in AddressRow
    BY <2>3 DEF NewAddress, AddressRow
  <2>5. QED  BY <2>1, <2>2, <2>4, ClearedRows
<1>3. QED  BY <1>1, <1>2

\* The row of a PATCH changes nothing but the default.
LEMMA Updated ==
    ASSUME TypeOK, RequestsValid, NEW t \in Threads, UpdateAddress(t)
    PROVE  /\ address' \in [Ids -> AddressRow]
           /\ \A a \in Ids : /\ address'[a].state = address[a].state
                             /\ address'[a].user = address[a].user
           /\ \/ address' = address
              \/ \A a \in Ids : address'[a].is_default =>
                    \/ address[a].is_default /\ a \notin request[t].cleared
                    \/ a = request[t].id /\ request[t].default = "true"
<1> DEFINE r == request[t]
           new == IF Wanted(r) # r.seen THEN Wanted(r) ELSE Cleared(t)[r.id].is_default
<1>1. r \in Request /\ r.id \in Ids /\ r.step = "write"
  BY DEF TypeOK, UpdateAddress, RequestsValid, RequestValid
<1>2. \/ address' = address
      \/ address' = Cleared(t)
      \/ address' = [Cleared(t) EXCEPT ![r.id] = [Cleared(t)[r.id] EXCEPT !.is_default = new]]
  <2>1. Cleared(t) \in [Ids -> AddressRow]
    BY ClearedRows
  <2>2. [Cleared(t) EXCEPT ![r.id].is_default =
            IF Wanted(r) # r.seen THEN Wanted(r) ELSE @]
        = [Cleared(t) EXCEPT ![r.id] = [Cleared(t)[r.id] EXCEPT !.is_default = new]]
    BY <1>1, <2>1 DEF AddressRow
  <2>3. QED  BY <2>2 DEF UpdateAddress
<1>3. new \in BOOLEAN
  <2>1. Cleared(t)[r.id].is_default \in BOOLEAN
    BY <1>1, ClearedRows DEF AddressRow
  <2>2. Wanted(r) \in BOOLEAN
    BY <1>1 DEF Wanted, Request
  <2> QED
    BY <2>1, <2>2
<1>4. new => Cleared(t)[r.id].is_default \/ r.default = "true"
  BY <1>1 DEF Wanted, Request
<1> HIDE DEF new
<1>5. CASE address' = address
  BY <1>5 DEF TypeOK
<1>6. CASE address' = Cleared(t)
  BY <1>6, ClearedRows
<1>7. CASE address' = [Cleared(t) EXCEPT ![r.id] = [Cleared(t)[r.id] EXCEPT !.is_default = new]]
  <2> DEFINE row == [Cleared(t)[r.id] EXCEPT !.is_default = new]
  <2>1. /\ row \in AddressRow
        /\ row.state = Cleared(t)[r.id].state
        /\ row.user = Cleared(t)[r.id].user
        /\ row.is_default = new
    BY <1>1, <1>3, ClearedRows DEF AddressRow
  <2>2. address'[r.id] = row /\ \A a \in Ids \ {r.id} : address'[a] = Cleared(t)[a]
    BY <1>1, <1>7, ClearedRows
  <2>3. address' \in [Ids -> AddressRow]
    BY <1>1, <1>7, <2>1, ClearedRows
  <2> HIDE DEF row
  <2>4. ASSUME NEW a \in Ids
        PROVE  /\ address'[a].state = address[a].state
               /\ address'[a].user = address[a].user
               /\ address'[a].is_default =>
                     \/ address[a].is_default /\ a \notin r.cleared
                     \/ a = r.id /\ r.default = "true"
    <3>1. CASE a = r.id
      BY <1>4, <2>1, <2>2, <3>1, ClearedRows
    <3>2. CASE a # r.id
      BY <2>2, <3>2, ClearedRows
    <3>3. QED  BY <3>1, <3>2
  <2>5. QED  BY <2>3, <2>4
<1>8. QED  BY <1>2, <1>5, <1>6, <1>7

LEMMA Deleted ==
    ASSUME TypeOK, RequestsValid, NEW t \in Threads, DeleteAddress(t)
    PROVE  /\ address' \in [Ids -> AddressRow]
           /\ \A a \in Ids :
                 \/ address'[a] = address[a]
                 \/ address'[a].state = "deleted" /\ ~address'[a].is_default
<1>1. request[t].id \in Ids
  BY DEF DeleteAddress, RequestsValid, RequestValid
<1> DEFINE row == [address[request[t].id] EXCEPT !.state = "deleted", !.is_default = FALSE]
<1>2. address[request[t].id] \in AddressRow
  BY <1>1 DEF TypeOK
<1>3. row \in AddressRow /\ row.state = "deleted" /\ ~row.is_default
  BY <1>2 DEF AddressRow
<1>4. address' = [address EXCEPT ![request[t].id] = row]
  BY <1>1, <1>2 DEF DeleteAddress, TypeOK, AddressRow
<1> HIDE DEF row
<1>5. QED  BY <1>1, <1>3, <1>4 DEF TypeOK

-----------------------------------------------------------------------------
(***************************************************************************)
(* The conjuncts of the invariant, one by one.                             *)
(***************************************************************************)
LEMMA TypeStep ==
    ASSUME TypeOK, RequestsValid, [Next]_vars
    PROVE  TypeOK'
<1>1. CASE UNCHANGED vars
  BY <1>1 DEF TypeOK, vars
<1> SUFFICES ASSUME Next PROVE TypeOK'
  BY <1>1
<1>2. disturbed' \subseteq Threads
  BY DEF Next, Observe, TypeOK
<1>3. ASSUME NEW t \in Threads, NEW u \in Users, NEW default \in {"true", "false"},
             CountForCreate(t, u, default)
      PROVE  TypeOK'
  BY <1>2, <1>3, Creates DEF TypeOK, Becomes
<1>4. ASSUME NEW t \in Threads, NEW u \in Users, NEW a \in Ids,
             NEW default \in {"true", "false", "unset"}, NEW other \in BOOLEAN,
             LoadForUpdate(t, u, a, default, other)
      PROVE  TypeOK'
  BY <1>2, <1>4, Updates DEF TypeOK, Becomes
<1>5. ASSUME NEW t \in Threads, NEW u \in Users, NEW a \in Ids, LoadForDelete(t, u, a)
      PROVE  TypeOK'
  BY <1>2, <1>5, Deletes DEF TypeOK, Becomes
<1>6. ASSUME NEW t \in Threads,
             ClearDefaultForUser(t) \/ (\E a \in Ids : MeetRow(t, a)) \/ Met(t)
      PROVE  TypeOK'
  BY <1>2, <1>6, Continues DEF TypeOK
<1>7. ASSUME NEW t \in Threads, CreateAddress(t)
      PROVE  TypeOK'
  <2>1. Release(t)
    BY <1>7 DEF CreateAddress
  <2>2. QED  BY <1>2, <1>7, <2>1, Created, Releases DEF TypeOK, Becomes
<1>8. ASSUME NEW t \in Threads, UpdateAddress(t)
      PROVE  TypeOK'
  <2>1. Release(t)
    BY <1>8 DEF UpdateAddress
  <2>2. QED  BY <1>2, <1>8, <2>1, Updated, Releases DEF TypeOK, Becomes
<1>9. ASSUME NEW t \in Threads, DeleteAddress(t)
      PROVE  TypeOK'
  <2>1. Release(t)
    BY <1>9 DEF DeleteAddress
  <2>2. QED  BY <1>2, <1>9, <2>1, Deleted, Releases DEF TypeOK, Becomes
<1>10. ASSUME NEW t \in Threads, Release(t), UNCHANGED address
       PROVE  TypeOK'
  BY <1>2, <1>10, Releases DEF TypeOK, Becomes
<1>11. QED
  BY Steps, <1>3, <1>4, <1>5, <1>6, <1>7, <1>8, <1>9, <1>10

\* How the request of one thread changes: it begins, goes on or ends.
Begins(t) ==
    /\ request[t] = Idle
    /\ request'[t].user \in Users
    /\ \/ /\ request'[t].id = Null
          /\ request'[t].step \in {"clear", "insert"}
          /\ Cardinality(AddressesOf(request'[t].user)) < MAX_ADDRESSES_PER_USER
       \/ /\ request'[t].id \in AddressesOf(request'[t].user)
          /\ request'[t].step \in {"clear", "write", "delete"}
    /\ request'[t].step \in {"insert", "write"} => request'[t].default # "true"
    /\ UNCHANGED address

GoesOnAs(t) ==
    /\ ClearDefaultForUser(t) \/ (\E a \in Ids : MeetRow(t, a)) \/ Met(t)
    /\ request[t].step \in {"clear", "meet"}
    /\ request'[t].step \in {"meet", "insert", "write"}
    /\ request'[t].user = request[t].user
    /\ request'[t].id = request[t].id
    /\ request'[t].default = request[t].default
    /\ request'[t].step = "insert" => request[t].id = Null
    /\ request'[t].step = "write" => request[t].id # Null
    /\ UNCHANGED address

Ends(t) == request'[t] = Idle

LEMMA OneMoves ==
    ASSUME TypeOK, RequestsValid, [Next]_vars
    PROVE  \/ UNCHANGED <<address, request>>
           \/ \E t \in Threads : /\ Begins(t) \/ GoesOnAs(t) \/ Ends(t)
                                 /\ \A s \in Threads \ {t} : request'[s] = request[s]
<1> DEFINE Moves == \E t \in Threads : /\ Begins(t) \/ GoesOnAs(t) \/ Ends(t)
                                       /\ \A s \in Threads \ {t} : request'[s] = request[s]
<1>1. CASE UNCHANGED vars
  BY <1>1 DEF vars
<1>3. ASSUME NEW t \in Threads, NEW u \in Users, NEW default \in {"true", "false"},
             CountForCreate(t, u, default)
      PROVE  Moves
  <2>1. /\ request[t] = Idle /\ UNCHANGED address
        /\ request'[t] = CreateRequest(u, default)
        /\ \A s \in Threads \ {t} : request'[s] = request[s]
    BY <1>3, Creates DEF Becomes
  <2>2. /\ request'[t].user = u /\ request'[t].id = Null
        /\ request'[t].step = IF default = "true" THEN "clear" ELSE "insert"
        /\ request'[t].default = default
    BY <1>3, <2>1, Creates
  <2>3. Cardinality(AddressesOf(u)) < MAX_ADDRESSES_PER_USER
    BY <1>3 DEF CountForCreate, HasRoom
  <2>4. QED  BY <2>1, <2>2, <2>3 DEF Begins
<1>4. ASSUME NEW t \in Threads, NEW u \in Users, NEW a \in Ids,
             NEW default \in {"true", "false", "unset"}, NEW other \in BOOLEAN,
             LoadForUpdate(t, u, a, default, other)
      PROVE  Moves
  <2>1. /\ request[t] = Idle /\ UNCHANGED address
        /\ request'[t] = UpdateRequest(u, a, default, other)
        /\ \A s \in Threads \ {t} : request'[s] = request[s]
    BY <1>4, Updates DEF Becomes
  <2>2. /\ request'[t].user = u /\ request'[t].id = a
        /\ request'[t].step = IF default = "true" THEN "clear" ELSE "write"
        /\ request'[t].default = default
    BY <1>4, <2>1, Updates
  <2>3. a \in AddressesOf(u)
    BY <1>4 DEF LoadForUpdate
  <2>4. QED  BY <2>1, <2>2, <2>3 DEF Begins
<1>5. ASSUME NEW t \in Threads, NEW u \in Users, NEW a \in Ids, LoadForDelete(t, u, a)
      PROVE  Moves
  <2>1. /\ request[t] = Idle /\ UNCHANGED address
        /\ request'[t] = DeleteRequest(u, a)
        /\ \A s \in Threads \ {t} : request'[s] = request[s]
    BY <1>5, Deletes DEF Becomes
  <2>2. request'[t].user = u /\ request'[t].id = a /\ request'[t].step = "delete"
    BY <1>5, <2>1, Deletes
  <2>3. a \in AddressesOf(u)
    BY <1>5 DEF LoadForDelete
  <2>4. QED  BY <2>1, <2>2, <2>3 DEF Begins
<1>6. ASSUME NEW t \in Threads,
             ClearDefaultForUser(t) \/ (\E a \in Ids : MeetRow(t, a)) \/ Met(t)
      PROVE  Moves
  BY <1>6, Continues DEF GoesOnAs
<1>7. ASSUME NEW t \in Threads, Release(t)
      PROVE  Moves
  BY <1>7, Releases DEF Becomes, Ends
<1>8. CASE Next
  BY <1>8, Steps, <1>3, <1>4, <1>5, <1>6, <1>7
  DEF CreateAddress, UpdateAddress, DeleteAddress
<1>9. QED  BY <1>1, <1>8

LEMMA RequestsStep ==
    ASSUME TypeOK, RequestsValid, RowsOwned, [Next]_vars
    PROVE  RequestsValid'
<1>1. CASE UNCHANGED <<address, request>>
  BY <1>1 DEF RequestsValid, RequestValid
<1>2. ASSUME NEW t \in Threads, \A s \in Threads \ {t} : request'[s] = request[s],
             Begins(t) \/ GoesOnAs(t) \/ Ends(t)
      PROVE  RequestsValid'
  <2>1. RequestValid(request'[t])
    <3>1. CASE Begins(t)
      BY <3>1 DEF Begins, RequestValid, AddressesOf
    <3>2. CASE GoesOnAs(t)
      BY <3>2 DEF GoesOnAs, RequestsValid, RequestValid, TypeOK, Request
    <3>3. CASE Ends(t)
      BY <3>3, IdleRequest DEF Ends
    <3>4. QED  BY <1>2, <3>1, <3>2, <3>3
  <2>2. QED  BY <1>2, <2>1 DEF RequestsValid, RequestValid
<1>3. QED  BY <1>1, <1>2, OneMoves

\* The user of a row stays, and only an unused row becomes live.
LEMMA RowsKept ==
    ASSUME TypeOK, RequestsValid, [Next]_vars, NEW a \in Ids
    PROVE  /\ address[a].user # Null => address'[a].user = address[a].user
           /\ \/ \E t \in Threads : CreateAddress(t)
              \/ address'[a].user = address[a].user /\ (Live(a)' => Live(a))
<1>1. CASE UNCHANGED address
  BY <1>1 DEF Live
<1>2. ASSUME NEW t \in Threads, CreateAddress(t)
      PROVE  address[a].user # Null => address'[a].user = address[a].user
  BY <1>2, Created, ClearedRows DEF Unused
<1>3. ASSUME NEW t \in Threads, UpdateAddress(t)
      PROVE  address'[a].user = address[a].user /\ (Live(a)' => Live(a))
  BY <1>3, Updated DEF Live
<1>4. ASSUME NEW t \in Threads, DeleteAddress(t)
      PROVE  address'[a].user = address[a].user /\ (Live(a)' => Live(a))
  <2>1. request[t].id \in Ids /\ address[request[t].id] \in AddressRow
    BY <1>4 DEF DeleteAddress, RequestsValid, RequestValid, TypeOK
  <2>2. CASE a = request[t].id
    BY <1>4, <2>1, <2>2 DEF DeleteAddress, TypeOK, AddressRow, Live
  <2>3. CASE a # request[t].id
    BY <1>4, <2>1, <2>3 DEF DeleteAddress, TypeOK, Live
  <2>4. QED  BY <2>2, <2>3
<1>5. CASE Next
  BY <1>5, Steps, <1>1, <1>2, <1>3, <1>4
  DEF CountForCreate, LoadForUpdate, LoadForDelete, Begin, ClearDefaultForUser, MeetRow, Met
<1>6. QED  BY <1>1, <1>5 DEF vars

LEMMA OwnedStep ==
    ASSUME TypeOK, RequestsValid, RowsOwned, [Next]_vars
    PROVE  RowsOwned'
<1> USE AddressAssumption
<1>1. ASSUME NEW t \in Threads, request'[t].id \in Ids,
             request[t].id = request'[t].id, request[t].user = request'[t].user
      PROVE  request'[t].user \in Users /\ address'[request'[t].id].user = request'[t].user
  BY <1>1, RowsKept DEF RowsOwned
<1>2. ASSUME NEW t \in Threads, request'[t].id \in Ids, Begins(t)
      PROVE  request'[t].user \in Users /\ address'[request'[t].id].user = request'[t].user
  BY <1>2 DEF Begins, AddressesOf
<1>3. ASSUME NEW t \in Threads, request'[t].id \in Ids
      PROVE  ~Ends(t)
  BY <1>3 DEF Ends, Idle
<1>4. ASSUME NEW t \in Threads, request'[t].id \in Ids
      PROVE  request'[t].user \in Users /\ address'[request'[t].id].user = request'[t].user
  BY <1>1, <1>2, <1>3, <1>4, OneMoves DEF GoesOnAs
<1>5. QED  BY <1>4 DEF RowsOwned

-----------------------------------------------------------------------------
(***************************************************************************)
(* The limit.                                                              *)
(***************************************************************************)
LEMMA Smaller ==
    ASSUME NEW S, NEW T, IsFiniteSet(S), T \subseteq S
    PROVE  /\ IsFiniteSet(T)
           /\ Cardinality(S) \in Nat /\ Cardinality(T) \in Nat
           /\ Cardinality(T) <= Cardinality(S)
  BY FS_Subset, FS_CardinalityType

LEMMA AddressesFinite ==
    ASSUME NEW u
    PROVE  /\ IsFiniteSet(AddressesOf(u)) /\ IsFiniteSet(AddressesOf(u)')
           /\ IsFiniteSet(Creating(u)) /\ IsFiniteSet(Creating(u)')
           /\ Creating(u)' \subseteq Threads
  BY AddressAssumption, FS_Subset DEF AddressesOf, Creating

\* A request that begins to create an address has found room for it.
LEMMA CreatingStep ==
    ASSUME TypeOK, RequestsValid, [Next]_vars, NEW u \in Users
    PROVE  \/ Creating(u)' \subseteq Creating(u)
           \/ /\ UNCHANGED address
              /\ Cardinality(AddressesOf(u)) < MAX_ADDRESSES_PER_USER
<1> USE AddressAssumption
<1>1. CASE UNCHANGED <<address, request>>
  BY <1>1 DEF Creating
<1>2. ASSUME NEW t \in Threads, \A s \in Threads \ {t} : request'[s] = request[s],
             ~(t \in Creating(u)' /\ t \notin Creating(u))
      PROVE  Creating(u)' \subseteq Creating(u)
  BY <1>2 DEF Creating
<1>3. ASSUME NEW t \in Threads, Begins(t), t \in Creating(u)'
      PROVE  /\ UNCHANGED address
             /\ Cardinality(AddressesOf(u)) < MAX_ADDRESSES_PER_USER
  BY <1>3 DEF Begins, Creating, AddressesOf
<1>4. ASSUME NEW t \in Threads, GoesOnAs(t)
      PROVE  ~(t \in Creating(u)' /\ t \notin Creating(u))
  BY <1>4 DEF GoesOnAs, Creating
<1>5. ASSUME NEW t \in Threads, Ends(t)
      PROVE  t \notin Creating(u)'
  BY <1>5 DEF Ends, Creating, Idle
<1>6. QED  BY <1>1, <1>2, <1>3, <1>4, <1>5, OneMoves

\* The INSERT of a request that created an address.
LEMMA InsertCounts ==
    ASSUME TypeOK, RequestsValid, NEW t \in Threads, CreateAddress(t), NEW u \in Users
    PROVE  \/ AddressesOf(u)' \subseteq AddressesOf(u)
           \/ /\ t \in Creating(u) /\ t \notin Creating(u)'
              /\ \E a \in Ids : AddressesOf(u)' \subseteq AddressesOf(u) \cup {a}
<1> USE AddressAssumption
<1>1. CASE UNCHANGED address
  BY <1>1 DEF AddressesOf, Live
<1>2. ASSUME NEW a \in Ids, address[a] = Unused,
             address'[a] = NewAddress(request[t], a),
             \A b \in Ids \ {a} : address'[b] = Cleared(t)[b]
      PROVE  \/ AddressesOf(u)' \subseteq AddressesOf(u)
             \/ /\ t \in Creating(u) /\ t \notin Creating(u)'
                /\ \E b \in Ids : AddressesOf(u)' \subseteq AddressesOf(u) \cup {b}
  <2>1. AddressesOf(u)' \subseteq AddressesOf(u) \cup {a}
    BY <1>2, ClearedRows DEF AddressesOf, Live
  <2>2. CASE request[t].user = u
    <3>1. t \in Creating(u)
      BY <2>2 DEF CreateAddress, RequestsValid, RequestValid, Creating
    <3>2. t \notin Creating(u)'
      BY Releases DEF CreateAddress, Becomes, Creating, Idle
    <3>3. QED  BY <2>1, <3>1, <3>2
  <2>3. CASE request[t].user # u
    <3>1. address'[a].user # u
      BY <1>2, <2>3 DEF NewAddress
    <3>2. QED  BY <2>1, <3>1 DEF AddressesOf
  <2>4. QED  BY <2>2, <2>3
<1>3. QED  BY <1>1, <1>2, Created

LEMMA LimitStep ==
    ASSUME TypeOK, RequestsValid, LimitOvershoot, [Next]_vars
    PROVE  LimitOvershoot'
<1> SUFFICES ASSUME NEW u \in Users
             PROVE  Cardinality(AddressesOf(u)') + Cardinality(Creating(u)')
                       <= MAX_ADDRESSES_PER_USER + Cardinality(Threads) - 1
  BY DEF LimitOvershoot
<1>1. Cardinality(AddressesOf(u)) + Cardinality(Creating(u))
         <= MAX_ADDRESSES_PER_USER + Cardinality(Threads) - 1
  BY DEF LimitOvershoot
<1>2. /\ Cardinality(AddressesOf(u)) \in Nat /\ Cardinality(AddressesOf(u)') \in Nat
      /\ Cardinality(Creating(u)) \in Nat /\ Cardinality(Creating(u)') \in Nat
      /\ Cardinality(Threads) \in Nat /\ MAX_ADDRESSES_PER_USER \in Nat
  BY AddressesFinite, AddressAssumption, FS_CardinalityType
<1>3. CASE ~(Creating(u)' \subseteq Creating(u))
  <2>1. /\ UNCHANGED address
        /\ Cardinality(AddressesOf(u)) < MAX_ADDRESSES_PER_USER
    BY <1>3, CreatingStep
  <2>2. Cardinality(AddressesOf(u)') = Cardinality(AddressesOf(u))
    BY <2>1 DEF AddressesOf, Live
  <2>3. Cardinality(Creating(u)') <= Cardinality(Threads)
    BY AddressesFinite, AddressAssumption, Smaller
  <2>4. QED  BY <1>2, <2>1, <2>2, <2>3
<1>4. CASE Creating(u)' \subseteq Creating(u) /\ AddressesOf(u)' \subseteq AddressesOf(u)
  <2>1. Cardinality(Creating(u)') <= Cardinality(Creating(u))
    BY <1>4, AddressesFinite, Smaller
  <2>2. Cardinality(AddressesOf(u)') <= Cardinality(AddressesOf(u))
    BY <1>4, AddressesFinite, Smaller
  <2>3. QED  BY <1>1, <1>2, <2>1, <2>2
<1>5. CASE Creating(u)' \subseteq Creating(u) /\ ~(AddressesOf(u)' \subseteq AddressesOf(u))
  <2>1. PICK t \in Threads : CreateAddress(t)
    <3>1. PICK a \in Ids : a \in AddressesOf(u)' /\ a \notin AddressesOf(u)
      BY <1>5 DEF AddressesOf
    <3>2. ~(address'[a].user = address[a].user /\ (Live(a)' => Live(a)))
      BY <3>1 DEF AddressesOf
    <3>3. QED  BY <3>1, <3>2, RowsKept
  <2>2. PICK a \in Ids : AddressesOf(u)' \subseteq AddressesOf(u) \cup {a}
    BY <1>5, <2>1, InsertCounts
  <2>3. t \in Creating(u) /\ t \notin Creating(u)'
    BY <1>5, <2>1, InsertCounts
  <2>4. Cardinality(Creating(u)') <= Cardinality(Creating(u)) - 1
    <3>1. Cardinality(Creating(u) \ {t}) = Cardinality(Creating(u)) - 1
      BY <2>3, AddressesFinite, FS_RemoveElement
    <3>2. Creating(u)' \subseteq Creating(u) \ {t}
      BY <1>5, <2>3
    <3>3. IsFiniteSet(Creating(u) \ {t})
      BY AddressesFinite, FS_Subset
    <3>4. Cardinality(Creating(u)') <= Cardinality(Creating(u) \ {t})
      BY <3>2, <3>3, Smaller
    <3>5. QED  BY <3>1, <3>4
  <2>5. Cardinality(AddressesOf(u)') <= Cardinality(AddressesOf(u)) + 1
    <3>1. /\ IsFiniteSet(AddressesOf(u) \cup {a})
          /\ \/ Cardinality(AddressesOf(u) \cup {a}) = Cardinality(AddressesOf(u))
             \/ Cardinality(AddressesOf(u) \cup {a}) = Cardinality(AddressesOf(u)) + 1
      BY AddressesFinite, FS_AddElement
    <3>2. Cardinality(AddressesOf(u)') <= Cardinality(AddressesOf(u) \cup {a})
      BY <2>2, <3>1, Smaller
    <3>3. QED  BY <1>2, <3>1, <3>2
  <2>6. QED  BY <1>1, <1>2, <2>4, <2>5
<1>6. QED  BY <1>3, <1>4, <1>5

-----------------------------------------------------------------------------
(***************************************************************************)
(* The defaults.                                                           *)
(***************************************************************************)

\* The UPDATE that clears the defaults finds each one that is there from its
\* beginning to its end.
LEMMA Gathers ==
    ASSUME TypeOK, NEW t \in Threads, NEW u \in Users, NEW a \in DefaultsOf(u),
           WillClear(t, a, u),
           ClearDefaultForUser(t) \/ (\E b \in Ids : MeetRow(t, b)) \/ Met(t)
    PROVE  WillClear(t, a, u)'
<1> SUFFICES ASSUME request[t].user = u, request[t].default = "true"
             PROVE  /\ request'[t].step = "meet" =>
                          a \in request'[t].todo \cup request'[t].cleared \cup {request'[t].id}
                    /\ request'[t].step \in {"insert", "write"} =>
                          a \in request'[t].cleared \cup {request'[t].id}
  BY Continues DEF WillClear
<1>1. request[t] \in Request /\ a \in Ids
  BY DEF TypeOK, DefaultsOf, AddressesOf
<1>2. CASE ClearDefaultForUser(t)
  <2> DEFINE r == [request[t] EXCEPT !.step = "meet", !.todo = Candidates(request[t])]
  <2>1. request'[t] = r
    BY <1>2, Clears DEF Becomes
  <2>2. r.step = "meet" /\ r.todo = Candidates(request[t]) /\ r.id = request[t].id
    BY <1>1 DEF Request
  <2> HIDE DEF r
  <2>3. a \in Candidates(request[t]) \cup {request[t].id}
    BY DEF Candidates
  <2>4. QED  BY <2>1, <2>2, <2>3
<1>3. ASSUME NEW b \in Ids, MeetRow(t, b)
      PROVE  /\ request'[t].step = "meet"
             /\ a \in request'[t].todo \cup request'[t].cleared \cup {request'[t].id}
  <2>1. request[t].step = "meet"
    BY <1>3, Meets
  <2>2. a \in request[t].todo \cup request[t].cleared \cup {request[t].id}
    BY <2>1 DEF WillClear
  <2>3. CASE Becomes(t, [request[t] EXCEPT !.todo = @ \ {b}, !.cleared = @ \cup {b}])
    <3> DEFINE r == [request[t] EXCEPT !.todo = @ \ {b}, !.cleared = @ \cup {b}]
    <3>1. /\ r.step = request[t].step /\ r.id = request[t].id
          /\ r.todo = request[t].todo \ {b} /\ r.cleared = request[t].cleared \cup {b}
      BY <1>1 DEF Request
    <3>2. request'[t] = r
      BY <2>3 DEF Becomes
    <3> HIDE DEF r
    <3>3. QED  BY <2>1, <2>2, <3>1, <3>2
  <2>4. CASE /\ ~(Live(b) /\ address[b].is_default)
             /\ Becomes(t, [request[t] EXCEPT !.todo = @ \ {b}])
    <3> DEFINE r == [request[t] EXCEPT !.todo = @ \ {b}]
    <3>1. /\ r.step = request[t].step /\ r.id = request[t].id
          /\ r.todo = request[t].todo \ {b} /\ r.cleared = request[t].cleared
      BY <1>1 DEF Request
    <3>2. request'[t] = r
      BY <2>4 DEF Becomes
    <3> HIDE DEF r
    <3>3. a # b
      BY <2>4 DEF DefaultsOf, AddressesOf
    <3>4. QED  BY <2>1, <2>2, <3>1, <3>2, <3>3
  <2>5. QED  BY <1>3, <2>3, <2>4, Meets
<1>4. CASE Met(t)
  <2> DEFINE r == [request[t] EXCEPT !.step =
                      IF request[t].id = Null THEN "insert" ELSE "write"]
  <2>1. request'[t] = r /\ request[t].step = "meet" /\ request[t].todo = {}
    BY <1>4, GoesOn DEF Becomes
  <2>2. /\ r.id = request[t].id /\ r.cleared = request[t].cleared
        /\ r.step \in {"insert", "write"}
    BY <1>1 DEF Request
  <2> HIDE DEF r
  <2>3. a \in request[t].cleared \cup {request[t].id}
    BY <2>1 DEF WillClear
  <2>4. QED  BY <2>1, <2>2, <2>3
<1>5. QED  BY <1>2, <1>3, <1>4

LEMMA WillClearStep ==
    ASSUME TypeOK, RequestsValid, [Next]_vars, NEW t \in Threads,
           NEW u \in Users, NEW a \in DefaultsOf(u), WillClear(t, a, u)
    PROVE  WillClear(t, a, u)'
<1>1. CASE request'[t] = request[t]
  BY <1>1 DEF WillClear
<1>2. CASE Begins(t)
  BY <1>2 DEF Begins, WillClear
<1>3. CASE GoesOnAs(t)
  BY <1>3, Gathers DEF GoesOnAs
<1>4. CASE Ends(t)
  BY <1>4, AddressAssumption DEF Ends, Idle, WillClear
<1>5. QED  BY <1>1, <1>2, <1>3, <1>4, OneMoves

\* A default appears where a request that asked for one commits; the defaults
\* that its UPDATE has met are none any more.
LEMMA NewDefault ==
    ASSUME TypeOK, RequestsValid, RowsOwned, [Next]_vars, NEW u \in Users,
           ~(DefaultsOf(u)' \subseteq DefaultsOf(u))
    PROVE  \E t \in Threads, a \in Ids :
              /\ Ends(t)
              /\ request[t].user = u /\ request[t].default = "true"
              /\ request[t].step \in {"insert", "write"}
              /\ request[t].id \in {Null, a}
              /\ a \notin DefaultsOf(u)
              /\ DefaultsOf(u)' \subseteq (DefaultsOf(u) \ request[t].cleared) \cup {a}
<1> USE AddressAssumption
<1> DEFINE Sets(t, a) ==
              /\ Ends(t)
              /\ request[t].user = u /\ request[t].default = "true"
              /\ request[t].step \in {"insert", "write"}
              /\ request[t].id \in {Null, a}
              /\ a \notin DefaultsOf(u)
              /\ DefaultsOf(u)' \subseteq (DefaultsOf(u) \ request[t].cleared) \cup {a}
<1>1. ~UNCHANGED address
  BY DEF DefaultsOf, AddressesOf, Live
<1>2. ASSUME NEW t \in Threads, CreateAddress(t)
      PROVE  \E a \in Ids : Sets(t, a)
  <2>1. PICK a \in Ids :
           /\ address[a] = Unused
           /\ address'[a] = NewAddress(request[t], a)
           /\ \A b \in Ids \ {a} : address'[b] = Cleared(t)[b]
    BY <1>1, <1>2, Created
  <2>2. a \notin DefaultsOf(u)
    BY <2>1 DEF Unused, DefaultsOf, AddressesOf, Live
  <2>3. DefaultsOf(u)' \subseteq (DefaultsOf(u) \ request[t].cleared) \cup {a}
    BY <2>1, ClearedRows DEF DefaultsOf, AddressesOf, Live
  <2>4. a \in DefaultsOf(u)'
    BY <2>3
  <2>5. address'[a].user = u /\ address'[a].is_default
    BY <2>4 DEF DefaultsOf, AddressesOf
  <2>6. request[t].user = u /\ request[t].default = "true"
    <3>1. /\ NewAddress(request[t], a).user = request[t].user
          /\ NewAddress(request[t], a).is_default = (request[t].default = "true")
      BY DEF NewAddress
    <3>2. NewAddress(request[t], a).user = u /\ NewAddress(request[t], a).is_default
      BY <2>1, <2>5
    <3>3. QED  BY <3>1, <3>2
  <2>7. request[t].step = "insert" /\ request[t].id = Null
    BY <1>2 DEF CreateAddress, RequestsValid, RequestValid
  <2>8. Ends(t)
    BY <1>2, Releases DEF CreateAddress, Becomes, Ends
  <2>9. QED  BY <2>2, <2>3, <2>6, <2>7, <2>8
<1>3. ASSUME NEW t \in Threads, UpdateAddress(t)
      PROVE  Sets(t, request[t].id) /\ request[t].id \in Ids
  <2>1. request[t].step = "write" /\ request[t].id \in Ids
    BY <1>3 DEF UpdateAddress, RequestsValid, RequestValid
  <2>2. \A a \in Ids :
           /\ address'[a].state = address[a].state
           /\ address'[a].user = address[a].user
           /\ address'[a].is_default =>
                 \/ address[a].is_default /\ a \notin request[t].cleared
                 \/ a = request[t].id /\ request[t].default = "true"
    BY <1>1, <1>3, Updated
  <2>3. \A a \in DefaultsOf(u)' :
           \/ a \in DefaultsOf(u) \ request[t].cleared
           \/ a = request[t].id /\ request[t].default = "true"
    BY <2>2 DEF DefaultsOf, AddressesOf, Live
  <2>4. request[t].id \in DefaultsOf(u)' /\ request[t].default = "true"
        /\ request[t].id \notin DefaultsOf(u)
    BY <2>3
  <2>5. address[request[t].id].user = u
    BY <2>1, <2>2, <2>4 DEF DefaultsOf, AddressesOf
  <2>6. request[t].user = u
    BY <2>1, <2>5 DEF RowsOwned
  <2>7. Ends(t)
    BY <1>3, Releases DEF UpdateAddress, Becomes, Ends
  <2>8. QED  BY <2>1, <2>3, <2>4, <2>6, <2>7
<1>4. ASSUME NEW t \in Threads, DeleteAddress(t)
      PROVE  FALSE
  <2>1. \A a \in Ids : \/ address'[a] = address[a]
                       \/ address'[a].state = "deleted" /\ ~address'[a].is_default
    BY <1>4, Deleted
  <2>2. QED  BY <2>1 DEF DefaultsOf, AddressesOf, Live
<1>5. CASE Next
  BY <1>1, <1>2, <1>3, <1>4, <1>5, Steps
  DEF CountForCreate, LoadForUpdate, LoadForDelete, Begin, ClearDefaultForUser, MeetRow, Met
<1>6. QED  BY <1>1, <1>5 DEF vars

LEMMA DefaultsStep ==
    ASSUME TypeOK, RequestsValid, RowsOwned, DefaultsSet, [Next]_vars
    PROVE  DefaultsSet'
<1> SUFFICES ASSUME NEW u \in Users
             PROVE  Setters(u)' # {}
  BY DEF DefaultsSet
<1>1. PICK f \in Setters(u) : TRUE
  BY DEF DefaultsSet
<1>2. /\ f \in [DefaultsOf(u) -> Threads]
      /\ \A a, b \in DefaultsOf(u) : f[a] = f[b] => a = b
      /\ \A a \in DefaultsOf(u) : WillClear(f[a], a, u)
  BY <1>1 DEF Setters, Injection, IsInjective
<1>3. PICK D : D = DefaultsOf(u)'
  OBVIOUS
<1>4. \A a \in DefaultsOf(u) : WillClear(f[a], a, u)'
  BY <1>2, WillClearStep
<1>5. CASE D \subseteq DefaultsOf(u)
  <2> DEFINE g == [a \in D |-> f[a]]
  <2>1. g \in Injection(D, Threads)
    BY <1>2, <1>5 DEF Injection, IsInjective
  <2>2. \A a \in D : g[a] = f[a] /\ WillClear(f[a], a, u)'
    BY <1>4, <1>5
  <2>3. \A a \in D : WillClear(g[a], a, u)'
    BY <2>2
  <2>4. g \in Setters(u)'
    BY <1>3, <2>1, <2>3 DEF Setters
  <2>5. QED  BY <2>4
<1>6. CASE ~(D \subseteq DefaultsOf(u))
  <2>1. PICK t \in Threads, n \in Ids :
           /\ Ends(t)
           /\ request[t].user = u /\ request[t].default = "true"
           /\ request[t].step \in {"insert", "write"}
           /\ request[t].id \in {Null, n}
           /\ n \notin DefaultsOf(u)
           /\ D \subseteq (DefaultsOf(u) \ request[t].cleared) \cup {n}
    BY <1>3, <1>6, NewDefault
  <2>2. ASSUME NEW a \in D, a # n
        PROVE  a \in DefaultsOf(u) /\ f[a] # t
    <3>1. a \in DefaultsOf(u) /\ a \notin request[t].cleared
      BY <2>1, <2>2
    <3>2. a # request[t].id
      BY <2>1, <2>2, <3>1, AddressAssumption DEF DefaultsOf, AddressesOf
    <3>3. ~WillClear(t, a, u)
      BY <2>1, <3>1, <3>2 DEF WillClear
    <3>4. QED  BY <1>2, <3>1, <3>3
  <2> DEFINE g == [a \in D |-> IF a = n THEN t ELSE f[a]]
  <2>3. g \in [D -> Threads]
    BY <1>2, <2>2
  <2>4. \A a, b \in D : g[a] = g[b] => a = b
    BY <1>2, <2>2
  <2>5. g \in Injection(D, Threads)
    BY <2>3, <2>4 DEF Injection, IsInjective
  <2>6. WillClear(t, n, u)'
    BY <2>1, AddressAssumption DEF Ends, Idle, WillClear
  <2>7. ASSUME NEW a \in D
        PROVE  WillClear(g[a], a, u)'
    <3>1. CASE a = n
      BY <2>6, <3>1
    <3>2. CASE a # n
      <4>1. g[a] = f[a] /\ WillClear(f[a], a, u)'
        BY <1>4, <2>2, <3>2
      <4>2. QED  BY <4>1
    <3>3. QED  BY <3>1, <3>2
  <2>8. g \in Setters(u)'
    BY <1>3, <2>5, <2>7 DEF Setters
  <2>9. QED  BY <2>8
<1>7. QED  BY <1>5, <1>6

-----------------------------------------------------------------------------
(***************************************************************************)
(* Requests that are alone with the addresses of their user.               *)
(***************************************************************************)
LEMMA KeepsReading ==
    ASSUME TypeOK, NEW t \in Threads,
           ClearDefaultForUser(t) \/ (\E a \in Ids : MeetRow(t, a)) \/ Met(t)
    PROVE  /\ request'[t].seen = request[t].seen
           /\ request'[t].todo \cup request'[t].cleared
                 \subseteq request[t].todo \cup request[t].cleared
                           \cup (Ids \ {request[t].id})
<1>1. request[t] \in Request
  BY DEF TypeOK
<1>2. CASE ClearDefaultForUser(t)
  <2>1. request'[t] = [request[t] EXCEPT !.step = "meet",
                                         !.todo = Candidates(request[t])]
    BY <1>2, Clears DEF Becomes
  <2>2. Candidates(request[t]) \subseteq Ids \ {request[t].id}
    BY DEF Candidates, DefaultsOf, AddressesOf
  <2>3. /\ request'[t].seen = request[t].seen
        /\ request'[t].cleared = request[t].cleared
        /\ request'[t].todo = Candidates(request[t])
    BY <1>1, <2>1 DEF Request
  <2>4. QED  BY <2>2, <2>3
<1>3. ASSUME NEW a \in Ids, MeetRow(t, a)
      PROVE  /\ request'[t].seen = request[t].seen
             /\ request'[t].todo = request[t].todo \ {a}
             /\ request'[t].cleared \subseteq request[t].cleared \cup {a}
             /\ a \in request[t].todo
  <2>1. \/ request'[t] = [request[t] EXCEPT !.todo = @ \ {a}, !.cleared = @ \cup {a}]
        \/ request'[t] = [request[t] EXCEPT !.todo = @ \ {a}]
    BY <1>3, Meets DEF Becomes
  <2>2. a \in request[t].todo
    BY <1>3 DEF MeetRow
  <2>3. QED  BY <1>1, <2>1, <2>2 DEF Request
<1>4. CASE Met(t)
  <2>1. request'[t] = [request[t] EXCEPT !.step =
                          IF request[t].id = Null THEN "insert" ELSE "write"]
    BY <1>4, GoesOn DEF Becomes
  <2>2. QED  BY <1>1, <2>1 DEF Request
<1>5. QED
  <2>1. CASE \E a \in Ids : MeetRow(t, a)
    BY <1>3, <2>1
  <2>2. QED  BY <1>2, <1>4, <2>1

\* What a request knows of its own row when it begins.
LEMMA BeginsReading ==
    ASSUME TypeOK, NEW t \in Threads,
           \/ \E u \in Users, default \in {"true", "false"} : CountForCreate(t, u, default)
           \/ \E u \in Users, a \in Ids, default \in {"true", "false", "unset"},
                 other \in BOOLEAN : LoadForUpdate(t, u, a, default, other)
           \/ \E u \in Users, a \in Ids : LoadForDelete(t, u, a)
    PROVE  /\ \A s \in Threads \ {t} : request'[s] = request[s]
           /\ UNCHANGED address
           /\ request'[t].todo = {} /\ request'[t].cleared = {}
           /\ request'[t].step = "delete" => request'[t].default = "unset"
           /\ request'[t].step \in {"clear", "meet", "write"} /\ request'[t].id # Null =>
                 /\ Live(request'[t].id)
                 /\ address[request'[t].id].is_default = request'[t].seen
<1>1. ASSUME NEW u \in Users, NEW default \in {"true", "false"},
             CountForCreate(t, u, default)
      PROVE  /\ \A s \in Threads \ {t} : request'[s] = request[s]
             /\ UNCHANGED address
             /\ request'[t].todo = {} /\ request'[t].cleared = {}
             /\ request'[t].step # "delete" /\ request'[t].id = Null
  <2>1. /\ request'[t] = CreateRequest(u, default)
        /\ \A s \in Threads \ {t} : request'[s] = request[s]
        /\ UNCHANGED address
    BY <1>1, Creates DEF Becomes
  <2>2. QED  BY <2>1 DEF CreateRequest, Idle
<1>2. ASSUME NEW u \in Users, NEW a \in Ids, NEW other \in BOOLEAN,
             NEW default \in {"true", "false", "unset"},
             LoadForUpdate(t, u, a, default, other)
      PROVE  /\ \A s \in Threads \ {t} : request'[s] = request[s]
             /\ UNCHANGED address
             /\ request'[t].todo = {} /\ request'[t].cleared = {}
             /\ request'[t].step # "delete" /\ request'[t].id = a
             /\ Live(a) /\ request'[t].seen = address[a].is_default
  <2>1. /\ request'[t] = UpdateRequest(u, a, default, other)
        /\ \A s \in Threads \ {t} : request'[s] = request[s]
        /\ UNCHANGED address
    BY <1>2, Updates DEF Becomes
  <2>2. Live(a)
    BY <1>2 DEF LoadForUpdate, AddressesOf
  <2>3. QED  BY <2>1, <2>2 DEF UpdateRequest, Idle
<1>3. ASSUME NEW u \in Users, NEW a \in Ids, LoadForDelete(t, u, a)
      PROVE  /\ \A s \in Threads \ {t} : request'[s] = request[s]
             /\ UNCHANGED address
             /\ request'[t].todo = {} /\ request'[t].cleared = {}
             /\ request'[t].step = "delete" /\ request'[t].default = "unset"
  <2>1. /\ request'[t] = DeleteRequest(u, a)
        /\ \A s \in Threads \ {t} : request'[s] = request[s]
        /\ UNCHANGED address
    BY <1>3, Deletes DEF Becomes
  <2>2. QED  BY <2>1 DEF DeleteRequest, Idle
<1>4. QED  BY <1>1, <1>2, <1>3

\* A request begins, reads on, or is over; only its last step changes rows.
LEMMA Reads ==
    ASSUME TypeOK, [Next]_vars
    PROVE  \/ UNCHANGED <<address, request>>
           \/ \E t \in Threads :
                 /\ \A s \in Threads \ {t} : request'[s] = request[s]
                 /\ \/ /\ UNCHANGED address
                       /\ request'[t].todo = {} /\ request'[t].cleared = {}
                       /\ request'[t].step = "delete" => request'[t].default = "unset"
                       /\ \/ ~(/\ request'[t].step \in {"clear", "meet", "write"}
                               /\ request'[t].id # Null)
                          \/ /\ Live(request'[t].id)
                             /\ address[request'[t].id].is_default = request'[t].seen
                    \/ GoesOnAs(t)
                    \/ /\ request'[t] = Idle
                       /\ \/ UNCHANGED address
                          \/ CreateAddress(t) \/ UpdateAddress(t) \/ DeleteAddress(t)
<1>1. CASE UNCHANGED vars
  BY <1>1 DEF vars
<1>2. ASSUME NEW t \in Threads, Release(t)
      PROVE  request'[t] = Idle /\ \A s \in Threads \ {t} : request'[s] = request[s]
  BY <1>2, Releases DEF Becomes
<1>3. ASSUME NEW t \in Threads,
             ClearDefaultForUser(t) \/ (\E a \in Ids : MeetRow(t, a)) \/ Met(t)
      PROVE  GoesOnAs(t) /\ \A s \in Threads \ {t} : request'[s] = request[s]
  BY <1>3, Continues DEF GoesOnAs
<1>4. CASE Next
  <2>1. CASE \E t \in Threads : \/ CreateAddress(t) \/ UpdateAddress(t) \/ DeleteAddress(t)
                                \/ Release(t) /\ UNCHANGED address
    BY <1>2, <2>1 DEF CreateAddress, UpdateAddress, DeleteAddress
  <2>2. CASE \E t \in Threads :
                 ClearDefaultForUser(t) \/ (\E a \in Ids : MeetRow(t, a)) \/ Met(t)
    BY <1>3, <2>2
  <2>3. CASE \E t \in Threads :
           \/ \E u \in Users, default \in {"true", "false"} : CountForCreate(t, u, default)
           \/ \E u \in Users, a \in Ids, default \in {"true", "false", "unset"},
                 other \in BOOLEAN : LoadForUpdate(t, u, a, default, other)
           \/ \E u \in Users, a \in Ids : LoadForDelete(t, u, a)
    BY <2>3, BeginsReading
  <2>4. QED  BY <1>4, <2>1, <2>2, <2>3, Steps
<1>5. QED  BY <1>1, <1>4

LEMMA OwnRowStep ==
    ASSUME TypeOK, OwnRowKept, [Next]_vars
    PROVE  OwnRowKept'
<1>1. ASSUME NEW t \in Threads, GoesOnAs(t)
      PROVE  /\ request'[t].id \notin request'[t].todo \cup request'[t].cleared
             /\ request'[t].step # "delete"
  BY <1>1, KeepsReading DEF GoesOnAs, OwnRowKept
<1>2. QED  BY <1>1, Reads DEF OwnRowKept, Idle

\* What t gathers are defaults of its user.
LEMMA GathersOwn ==
    ASSUME TypeOK, NEW t \in Threads,
           ClearDefaultForUser(t) \/ (\E b \in Ids : MeetRow(t, b)) \/ Met(t),
           NEW a \in request'[t].todo \cup request'[t].cleared
    PROVE  a \in request[t].todo \cup request[t].cleared \cup DefaultsOf(request[t].user)
<1>1. request[t] \in Request
  BY DEF TypeOK
<1>2. CASE ClearDefaultForUser(t)
  <2> DEFINE r == [request[t] EXCEPT !.step = "meet", !.todo = Candidates(request[t])]
  <2>1. request'[t] = r
    BY <1>2, Clears DEF Becomes
  <2>2. r.todo = Candidates(request[t]) /\ r.cleared = request[t].cleared
    BY <1>1 DEF Request
  <2> HIDE DEF r
  <2>3. QED  BY <2>1, <2>2 DEF Candidates
<1>3. ASSUME NEW b \in Ids, MeetRow(t, b)
      PROVE  a \in request[t].todo \cup request[t].cleared
  <2>1. \/ request'[t] = [request[t] EXCEPT !.todo = @ \ {b}, !.cleared = @ \cup {b}]
        \/ request'[t] = [request[t] EXCEPT !.todo = @ \ {b}]
    BY <1>3, Meets DEF Becomes
  <2>2. b \in request[t].todo
    BY <1>3 DEF MeetRow
  <2>3. QED  BY <1>1, <2>1, <2>2 DEF Request
<1>4. CASE Met(t)
  <2>1. request'[t] = [request[t] EXCEPT !.step =
                          IF request[t].id = Null THEN "insert" ELSE "write"]
    BY <1>4, GoesOn DEF Becomes
  <2>2. QED  BY <1>1, <2>1 DEF Request
<1>5. QED  BY <1>2, <1>3, <1>4

LEMMA ClearsOwnStep ==
    ASSUME TypeOK, RequestsValid, ClearsOwn, [Next]_vars
    PROVE  ClearsOwn'
<1> SUFFICES ASSUME NEW t \in Threads, NEW a \in request'[t].todo \cup request'[t].cleared
             PROVE  request'[t].user \in Users /\ address'[a].user = request'[t].user
  BY DEF ClearsOwn
<1>1. a \in Ids
  <2>1. TypeOK'
    BY TypeStep
  <2>2. QED  BY <2>1 DEF TypeOK, Request
<1>2. ASSUME NEW u \in Users, address[a].user = u
      PROVE  address'[a].user = u
  BY <1>1, <1>2, RowsKept, AddressAssumption
<1>3. CASE request'[t] = request[t]
  BY <1>2, <1>3 DEF ClearsOwn
<1>4. CASE GoesOnAs(t)
  <2>1. UNCHANGED address /\ request'[t].user = request[t].user /\ request[t].user \in Users
    BY <1>4 DEF GoesOnAs, RequestsValid, RequestValid
  <2>2. a \in request[t].todo \cup request[t].cleared \cup DefaultsOf(request[t].user)
    BY <1>4, GathersOwn DEF GoesOnAs
  <2>3. QED  BY <2>1, <2>2 DEF ClearsOwn, DefaultsOf, AddressesOf
<1>5. QED  BY <1>3, <1>4, Reads DEF Idle

LEMMA MeetingsStep ==
    ASSUME MeetingsNoticed, [Next]_vars
    PROVE  MeetingsNoticed'
<1>1. CASE UNCHANGED vars
  BY <1>1 DEF vars, MeetingsNoticed, HasCompany
<1>2. CASE Next
  BY <1>2 DEF Next, Observe, MeetingsNoticed
<1>3. QED  BY <1>1, <1>2

\* A request that stays in progress and undisturbed has been undisturbed.
LEMMA StaysAlone ==
    ASSUME TypeOK, [Next]_vars, NEW t \in Threads \ disturbed',
           request'[t] # Idle
    PROVE  t \notin disturbed
BY DEF Next, Observe, vars

\* The commit of a request touches the rows of its user only.
LEMMA OthersKept ==
    ASSUME TypeOK, RequestsValid, RowsOwned, ClearsOwn, NEW s \in Threads,
           CreateAddress(s) \/ UpdateAddress(s) \/ DeleteAddress(s),
           NEW a \in Ids, NEW u \in Users, address[a].user = u, request[s].user # u
    PROVE  address'[a] = address[a]
<1>1. Cleared(s)[a] = address[a] /\ Cleared(s) \in [Ids -> AddressRow]
  BY ClearedRows DEF ClearsOwn, Cleared
<1>2. request[s].id # a
  BY DEF RowsOwned
<1>3. CASE CreateAddress(s)
  BY <1>1, <1>3, Created, AddressAssumption DEF Unused
<1>4. CASE UpdateAddress(s)
  BY <1>1, <1>2, <1>4 DEF UpdateAddress
<1>5. CASE DeleteAddress(s)
  BY <1>2, <1>5 DEF DeleteAddress, TypeOK
<1>6. QED  BY <1>3, <1>4, <1>5

\* While another request commits, the rows of a user who is not its user stay.
LEMMA AloneKeeps ==
    ASSUME TypeOK, RequestsValid, RowsOwned, ClearsOwn, MeetingsNoticed, [Next]_vars,
           NEW t \in Threads \ disturbed, request[t] # Idle, request[t].step # "idle",
           request'[t] = request[t], RowAsRead(t)
    PROVE  /\ RowAsRead(t)'
           /\ DefaultsOf(request[t].user)' \subseteq DefaultsOf(request[t].user)
<1> DEFINE u == request[t].user
<1>1. u \in Users
  BY DEF RequestsValid, RequestValid
<1>2. \A s \in Threads \ {t} : request[s].user # u
  BY DEF MeetingsNoticed, HasCompany
<1>3. CASE UNCHANGED address
  BY <1>3 DEF RowAsRead, Live, DefaultsOf, AddressesOf
<1>4. CASE address' # address
  <2>1. PICK s \in Threads :
           /\ CreateAddress(s) \/ UpdateAddress(s) \/ DeleteAddress(s)
           /\ request'[s] = Idle
    BY <1>4, Reads DEF GoesOnAs
  <2>2. s # t
    BY <2>1
  <2>3. request[s].user # u
    BY <1>2, <2>2
  <2>4. \A a \in Ids : address[a].user = u => address'[a] = address[a]
    BY <1>1, <2>1, <2>3, OthersKept
  <2>5. RowAsRead(t)'
    <3>1. SUFFICES ASSUME request[t].step \in {"clear", "meet", "write"},
                          request[t].id # Null
                   PROVE  /\ address'[request[t].id].state = "live"
                          /\ address'[request[t].id].is_default = request[t].seen
      BY DEF RowAsRead, Live
    <3>2. request[t].id \in Ids
      BY <3>1 DEF TypeOK, Request
    <3>3. address[request[t].id].user = u
      BY <3>2 DEF RowsOwned
    <3>4. address'[request[t].id] = address[request[t].id]
      BY <2>4, <3>2, <3>3
    <3>5. QED  BY <3>1, <3>4 DEF RowAsRead, Live
  <2>6. DefaultsOf(u)' \subseteq DefaultsOf(u)
    <3>1. SUFFICES ASSUME ~(DefaultsOf(u)' \subseteq DefaultsOf(u))
                   PROVE  FALSE
      OBVIOUS
    <3>2. PICK v \in Users : v = u
      BY <1>1
    <3>3. DefaultsOf(u)' = DefaultsOf(v)'
      BY <3>2
    <3>4. PICK x \in Threads : /\ Ends(x) /\ request[x].user = v
      BY <3>1, <3>2, <3>3, NewDefault
    <3>5. x # t
      BY <3>4 DEF Ends
    <3>6. QED  BY <1>2, <3>2, <3>4, <3>5
  <2>7. QED  BY <2>5, <2>6
<1>5. QED  BY <1>3, <1>4

LEMMA AloneStep ==
    ASSUME TypeOK, RequestsValid, RowsOwned, ClearsOwn, MeetingsNoticed, AloneKnows,
           [Next]_vars
    PROVE  AloneKnows'
<1> SUFFICES ASSUME NEW t \in Threads \ disturbed'
             PROVE  /\ RowAsRead(t)'
                    /\ \A a \in DefaultsOf(request[t].user)' :
                          WillClear(t, a, request[t].user)'
  BY DEF AloneKnows
<1> DEFINE u == request[t].user
<1>1. CASE request'[t].step \in {"idle", "delete"}
  BY <1>1 DEF RowAsRead, WillClear
<1>2. CASE request'[t].step \notin {"idle", "delete"} /\ Begins(t)
  <2>1. UNCHANGED address
    BY <1>2 DEF Begins
  <2>2. RowAsRead(t)'
    BY <1>2, <2>1, Reads DEF RowAsRead, Live, Begins, GoesOnAs, Idle
  <2>3. request'[t].default = "true" => request'[t].step = "clear"
    BY <1>2 DEF Begins
  <2>4. QED  BY <2>2, <2>3 DEF WillClear
<1>3. CASE request'[t].step # "idle" /\ GoesOnAs(t)
  <2>1. t \notin disturbed
    BY <1>3, StaysAlone DEF Idle
  <2>2. /\ RowAsRead(t) /\ \A a \in DefaultsOf(u) : WillClear(t, a, u)
    BY <2>1 DEF AloneKnows
  <2>3. /\ UNCHANGED address /\ request'[t].user = u /\ request'[t].id = request[t].id
        /\ request[t].step \in {"clear", "meet"} /\ request'[t].seen = request[t].seen
    BY <1>3, KeepsReading DEF GoesOnAs
  <2>4. RowAsRead(t)'
    BY <2>2, <2>3 DEF RowAsRead, Live
  <2>5. PICK v \in Users : v = u
    BY <2>3 DEF RequestsValid, RequestValid
  <2>6. \A a \in DefaultsOf(v) : WillClear(t, a, v)'
    BY <1>3, <2>2, <2>5, Gathers DEF GoesOnAs
  <2>7. DefaultsOf(u)' = DefaultsOf(v)
    BY <2>3, <2>5 DEF DefaultsOf, AddressesOf, Live
  <2>8. \A a : WillClear(t, a, u)' <=> WillClear(t, a, v)'
    BY <2>3, <2>5 DEF WillClear
  <2>9. QED  BY <2>4, <2>6, <2>7, <2>8
<1>4. CASE request'[t].step # "idle" /\ request'[t] = request[t]
  <2>1. t \notin disturbed /\ request[t] # Idle /\ request[t].step # "idle"
    BY <1>4, StaysAlone DEF Idle
  <2>2. /\ RowAsRead(t) /\ \A a \in DefaultsOf(u) : WillClear(t, a, u)
    BY <2>1 DEF AloneKnows
  <2>3. RowAsRead(t)' /\ DefaultsOf(u)' \subseteq DefaultsOf(u)
    BY <1>4, <2>1, <2>2, AloneKeeps
  <2>4. \A a : WillClear(t, a, u)' <=> WillClear(t, a, u)
    BY <1>4 DEF WillClear
  <2>5. QED  BY <2>2, <2>3, <2>4
<1>5. QED  BY <1>1, <1>2, <1>3, <1>4, OneMoves DEF Ends, Idle

\* The commit of a request that is alone and asks for a default.
LEMMA DefaultStep ==
    ASSUME IInv, [Next]_vars, NEW t \in Threads, NEW u \in Users
    PROVE  LeavesOneDefault(t, u)
<1> SUFFICES ASSUME request[t].user = u, request[t].default = "true", t \notin disturbed,
                    request'[t] = Idle, address' # address
             PROVE  \E a \in Ids : DefaultsOf(u)' = {a}
  BY DEF LeavesOneDefault
<1> USE DEF IInv
<1>1. PICK s \in Threads : /\ CreateAddress(s) \/ UpdateAddress(s) \/ DeleteAddress(s)
                           /\ \A x \in Threads \ {s} : request'[x] = request[x]
  BY Reads DEF GoesOnAs
<1>2. s = t
  BY <1>1 DEF Idle
<1>3. /\ RowAsRead(t)
      /\ \A a \in DefaultsOf(u) : WillClear(t, a, u)
  BY DEF AloneKnows
<1>4. CASE CreateAddress(t)
  <2>1. PICK a \in Ids :
           /\ address[a] = Unused
           /\ address'[a] = NewAddress(request[t], a)
           /\ \A b \in Ids \ {a} : address'[b] = Cleared(t)[b]
    BY <1>4, Created
  <2>2. /\ NewAddress(request[t], a).state = "live"
        /\ NewAddress(request[t], a).user = u
        /\ NewAddress(request[t], a).is_default
    BY DEF NewAddress
  <2>3. a \in DefaultsOf(u)'
    BY <2>1, <2>2 DEF DefaultsOf, AddressesOf, Live
  <2>4. DefaultsOf(u)' \subseteq (DefaultsOf(u) \ request[t].cleared) \cup {a}
    BY <2>1, ClearedRows DEF DefaultsOf, AddressesOf, Live
  <2>5. request[t].step = "insert" /\ request[t].id = Null
    BY <1>4 DEF CreateAddress, RequestsValid, RequestValid
  <2>6. DefaultsOf(u) \subseteq request[t].cleared
    BY <1>3, <2>5, AddressAssumption DEF WillClear, DefaultsOf, AddressesOf
  <2>7. QED  BY <2>3, <2>4, <2>6
<1>5. CASE DeleteAddress(t)
  BY <1>5 DEF DeleteAddress, OwnRowKept
<1>6. CASE UpdateAddress(t)
  <2> DEFINE r == request[t]
  <2>1. r.step = "write" /\ r.id \in Ids /\ r.id # Null
    BY <1>6, AddressAssumption DEF UpdateAddress, RequestsValid, RequestValid
  <2>2. Live(r.id) /\ address[r.id].is_default = r.seen /\ r.id \notin r.cleared
    BY <1>3, <2>1 DEF RowAsRead, OwnRowKept
  <2>3. address[r.id].user = u
    BY <2>1 DEF RowsOwned
  <2>4. address'[r.id].state = "live" /\ address'[r.id].user = u
    BY <1>6, <2>1, <2>2, <2>3, Updated DEF Live
  <2>5. Wanted(r)
    BY DEF Wanted
  <2>6. Cleared(t)[r.id] = address[r.id] /\ Cleared(t) \in [Ids -> AddressRow]
    BY <2>1, <2>2, ClearedRows DEF Cleared
  <2>7. r.seen \in BOOLEAN
    BY DEF TypeOK, Request
  <2>8. address'[r.id].is_default
    <3>1. CASE r.seen
      <4>1. \/ address' = Cleared(t)
            \/ address' = [Cleared(t) EXCEPT ![r.id].is_default = @]
        BY <1>6, <2>2, <2>5, <3>1 DEF UpdateAddress
      <4>2. QED  BY <2>1, <2>2, <2>6, <3>1, <4>1 DEF AddressRow
    <3>2. CASE ~r.seen
      <4>1. address' = [Cleared(t) EXCEPT ![r.id].is_default = Wanted(r)]
        BY <1>6, <2>2, <2>5, <3>2 DEF UpdateAddress
      <4>2. QED  BY <2>1, <2>5, <2>6, <4>1 DEF AddressRow
    <3>3. QED  BY <2>7, <3>1, <3>2
  <2>9. r.id \in DefaultsOf(u)'
    BY <2>1, <2>4, <2>8 DEF DefaultsOf, AddressesOf, Live
  <2>10. DefaultsOf(u) \subseteq r.cleared \cup {r.id}
    BY <1>3, <2>1 DEF WillClear
  <2>11. DefaultsOf(u)' \subseteq (DefaultsOf(u) \ r.cleared) \cup {r.id}
    BY <1>6, Updated DEF DefaultsOf, AddressesOf, Live
  <2>12. QED  BY <2>1, <2>9, <2>10, <2>11
<1>7. QED  BY <1>1, <1>2, <1>4, <1>5, <1>6

-----------------------------------------------------------------------------
(***************************************************************************)
(* The theorems.                                                           *)
(***************************************************************************)
LEMMA InitIInv == Init => IInv
<1> SUFFICES ASSUME Init PROVE IInv
  OBVIOUS
<1> USE AddressAssumption DEF Init
<1>1. TypeOK
  BY IdleRequest DEF TypeOK, Unused, AddressRow
<1>2. RequestsValid
  BY IdleRequest DEF RequestsValid
<1>3. RowsOwned
  BY DEF RowsOwned, Idle
<1>4. \A u \in Users : AddressesOf(u) = {} /\ Creating(u) = {} /\ DefaultsOf(u) = {}
  BY DEF AddressesOf, Live, Unused, Creating, Idle, DefaultsOf
<1>5. LimitOvershoot
  <2>1. ASSUME NEW u \in Users
        PROVE  Cardinality(AddressesOf(u)) + Cardinality(Creating(u))
                  <= MAX_ADDRESSES_PER_USER + Cardinality(Threads) - 1
    <3>1. Cardinality(AddressesOf(u)) = 0 /\ Cardinality(Creating(u)) = 0
      BY <1>4, FS_EmptySet
    <3>2. Cardinality(Threads) \in Nat
      BY FS_CardinalityType
    <3> HIDE DEF Init
    <3>3. QED  BY <3>1, <3>2
  <2>2. QED  BY <2>1 DEF LimitOvershoot
<1>6. DefaultsSet
  <2>1. ASSUME NEW u \in Users
        PROVE  Setters(u) # {}
    <3>1. DefaultsOf(u) = {}
      BY <1>4
    <3>2. [a \in {} |-> Null] \in Injection(DefaultsOf(u), Threads)
      BY <3>1 DEF Injection, IsInjective
    <3>3. [a \in {} |-> Null] \in Setters(u)
      BY <3>1, <3>2 DEF Setters
    <3>4. QED  BY <3>3
  <2>2. QED  BY <2>1 DEF DefaultsSet
<1>7. OwnRowKept
  BY DEF OwnRowKept, Idle
<1>8. ClearsOwn /\ MeetingsNoticed
  BY DEF ClearsOwn, MeetingsNoticed, Idle
<1>9. AloneKnows
  BY DEF AloneKnows, RowAsRead, WillClear, Idle
<1>10. QED  BY <1>1, <1>2, <1>3, <1>5, <1>6, <1>7, <1>8, <1>9 DEF IInv

\* The inductive invariant holds in every reachable state of the address
\* book, whatever the number of users, addresses and threads.
THEOREM Invariance == Spec => []IInv
<1>1. IInv /\ [Next]_vars => IInv'
  BY TypeStep, RequestsStep, OwnedStep, LimitStep, DefaultsStep, OwnRowStep,
     ClearsOwnStep, MeetingsStep, AloneStep DEF IInv
<1>2. QED  BY InitIInv, <1>1, PTL DEF Spec

\* The rows, their locks and the requests have the form that the code gives
\* them.
THEOREM TypeCorrect == Spec => []TypeOK
<1>1. IInv => TypeOK
  BY DEF IInv
<1>2. QED  BY <1>1, Invariance, PTL

\* However the requests of the threads interleave, the count that
\* create_address takes without a lock lets a user exceed the limit by at
\* most one address for every other thread of the server.
THEOREM LimitCorrect == Spec => []LimitOvershoot
<1>1. IInv => LimitOvershoot
  BY DEF IInv
<1>2. QED  BY <1>1, Invariance, PTL

\* However the requests interleave, clear_default_for_user leaves a user with
\* no more defaults than the server has threads.
THEOREM DefaultsCorrect == Spec => []DefaultsBounded
<1>1. ASSUME DefaultsSet
      PROVE  DefaultsBounded
  <2>1. ASSUME NEW u \in Users
        PROVE  Cardinality(DefaultsOf(u)) <= Cardinality(Threads)
    <3>1. PICK f \in Setters(u) : TRUE
      BY <1>1 DEF DefaultsSet
    <3>2. f \in Injection(DefaultsOf(u), Threads)
      BY <3>1 DEF Setters
    <3>3. QED  BY <3>2, AddressAssumption, FS_Injection
  <2>2. QED  BY <2>1 DEF DefaultsBounded
<1>2. IInv => DefaultsBounded
  BY <1>1 DEF IInv
<1>3. QED  BY <1>2, Invariance, PTL

\* Whatever overlapping requests have left behind, a request that is alone with
\* the addresses of its user and sets a default leaves exactly one
\* (create_address, update_address).
THEOREM DefaultCorrect == Spec => DefaultRepaired
<1>1. IInv /\ [Next]_vars => [\A t \in Threads, u \in Users : LeavesOneDefault(t, u)]_vars
  BY DefaultStep
<1>2. QED  BY Invariance, <1>1, PTL DEF Spec, DefaultRepaired
=============================================================================
