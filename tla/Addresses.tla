----------------------------- MODULE Addresses -----------------------------
(***************************************************************************)
(* The address book of a user: POST, PATCH and DELETE under                *)
(* /users/me/addresses.  The service promises two things that no           *)
(* constraint of the database backs: a user has at most                    *)
(* MAX_ADDRESSES_PER_USER addresses, and a single default.                 *)
(*                                                                         *)
(* A request is a sequence of statements of one READ COMMITTED transaction.*)
(* The UPDATE that clears the old default locks the rows it changes until  *)
(* the commit, and meets each row after waiting for its lock: a row that   *)
(* is not a default any more by then is skipped, and one that became a     *)
(* default after the statement began is not seen.                          *)
(***************************************************************************)
EXTENDS Naturals, FiniteSets

CONSTANTS
    Users,                  \* ids of users
    Ids,                    \* ids of addresses
    Threads,                \* the threads that serve requests
    MAX_ADDRESSES_PER_USER,
    Null                    \* SQL NULL

ASSUME AddressAssumption ==
    /\ Null \notin Users \cup Ids \cup Threads
    /\ MAX_ADDRESSES_PER_USER \in Nat \ {0}
    /\ IsFiniteSet(Ids)
    /\ IsFiniteSet(Threads)

VARIABLES
    address, \* address[a] is the row of address a
    lock,    \* lock[a] is the transaction that has locked row a
    request, \* request[t] is what thread t carries between two statements
    disturbed \* the requests in progress that have met another of their user

vars == <<address, lock, request, disturbed>>

(***************************************************************************)
(* An id is never used again after its row was deleted.                    *)
(***************************************************************************)
AddressRow ==
    [state      : {"unused", "live", "deleted"},
     user       : Users \cup {Null},
     is_default : BOOLEAN]

Unused == [state |-> "unused", user |-> Null, is_default |-> FALSE]

(***************************************************************************)
(* default is the value the user asks for ("unset" when a PATCH does not   *)
(* name it), other says whether a PATCH changes another column, seen is    *)
(* the value of is_default when the row was read.  todo are the rows that  *)
(* the running UPDATE has yet to meet, cleared the ones it has changed.    *)
(***************************************************************************)
Request ==
    [step    : {"idle", "clear", "meet", "insert", "write", "delete"},
     user    : Users \cup {Null},
     id      : Ids \cup {Null},
     default : {"true", "false", "unset"},
     other   : BOOLEAN,
     seen    : BOOLEAN,
     todo    : SUBSET Ids,
     cleared : SUBSET Ids]

Idle == [step |-> "idle", user |-> Null, id |-> Null, default |-> "unset",
         other |-> FALSE, seen |-> FALSE, todo |-> {}, cleared |-> {}]

TypeOK ==
    /\ address \in [Ids -> AddressRow]
    /\ lock \in [Ids -> Threads \cup {Null}]
    /\ request \in [Threads -> Request]
    /\ disturbed \subseteq Threads

Init ==
    /\ address = [a \in Ids |-> Unused]
    /\ lock = [a \in Ids |-> Null]
    /\ request = [t \in Threads |-> Idle]
    /\ disturbed = {}

Live(a)       == address[a].state = "live"
AddressesOf(u) == {a \in Ids : Live(a) /\ address[a].user = u}
DefaultsOf(u)  == {a \in AddressesOf(u) : address[a].is_default}

Begin(t, r) ==
    /\ request[t] = Idle
    /\ request' = [request EXCEPT ![t] = r]
    /\ UNCHANGED <<address, lock>>

\* Mutant: the session is not closed, and keeps its locks.
Release_KeepLocks(t) ==
    /\ lock' = lock
    /\ request' = [request EXCEPT ![t] = Idle]

\* The end of the transaction of t: its locks are free.
Release(t) ==
    /\ lock' = [a \in Ids |-> IF lock[a] = t THEN Null ELSE lock[a]]
    /\ request' = [request EXCEPT ![t] = Idle]

Available(a, t) == lock[a] \in {Null, t}

\* The rows as they are once the default was cleared by t.
Cleared(t) ==
    [a \in Ids |-> IF a \in request[t].cleared
                   THEN [address[a] EXCEPT !.is_default = FALSE]
                   ELSE address[a]]

-----------------------------------------------------------------------------
(***************************************************************************)
(* clear_default_for_user.                                                 *)
(***************************************************************************)

\* Mutants: the previous default is not cleared; a PATCH clears its own row,
\* too, which the session, having read TRUE, does not write again.
Candidates_None(r) == {}
Candidates_WithItself(r) == DefaultsOf(r.user)

\* A PATCH leaves its own row alone.
Candidates(r) == DefaultsOf(r.user) \ {r.id}

\* The UPDATE begins, with the rows that are committed at this moment.
ClearDefaultForUser(t) ==
    /\ request[t].step = "clear"
    /\ request' = [request EXCEPT ![t].step = "meet",
                                  ![t].todo = Candidates(request[t])]
    /\ UNCHANGED <<address, lock>>

\* The UPDATE meets a row, and changes it if it is a default still.
MeetRow(t, a) ==
    /\ request[t].step = "meet"
    /\ a \in request[t].todo
    /\ Available(a, t)
    /\ IF Live(a) /\ address[a].is_default
       THEN /\ lock' = [lock EXCEPT ![a] = t]
            /\ request' = [request EXCEPT ![t].todo = @ \ {a},
                                          ![t].cleared = @ \cup {a}]
       ELSE /\ lock' = lock
            /\ request' = [request EXCEPT ![t].todo = @ \ {a}]
    /\ UNCHANGED address

\* The UPDATE is over; the INSERT or the UPDATE of one row is next.
Met(t) ==
    /\ request[t].step = "meet"
    /\ request[t].todo = {}
    /\ request' = [request EXCEPT ![t].step = IF request[t].id = Null
                                              THEN "insert" ELSE "write"]
    /\ UNCHANGED <<address, lock>>

-----------------------------------------------------------------------------
(***************************************************************************)
(* POST /users/me/addresses.                                               *)
(***************************************************************************)

\* Mutant: the comparison lets one more in.
HasRoom_OneMore(u) == Cardinality(AddressesOf(u)) <= MAX_ADDRESSES_PER_USER

HasRoom(u) == Cardinality(AddressesOf(u)) < MAX_ADDRESSES_PER_USER

\* Count the addresses; a user who has no room is refused.
CountForCreate(t, u, default) ==
    /\ HasRoom(u)
    /\ Begin(t, [Idle EXCEPT !.user = u, !.default = default,
                    !.step = IF default = "true" THEN "clear" ELSE "insert"])

\* Mutant: the row gets the id of the address for that of the user.
NewAddress_Ids(r, a) ==
    [state |-> "live", user |-> a, is_default |-> r.default = "true"]

NewAddress(r, a) ==
    [state |-> "live", user |-> r.user, is_default |-> r.default = "true"]

UnusedIds == {a \in Ids : address[a] = Unused}

\* INSERT and COMMIT.  Which of the unused ids the row gets does not matter.
\* Bound: with no id left the INSERT fails.
CreateAddress(t) ==
    LET a == CHOOSE b \in UnusedIds : TRUE IN
    /\ request[t].step = "insert"
    /\ address' = IF UnusedIds = {} THEN address
                  ELSE [Cleared(t) EXCEPT ![a] = NewAddress(request[t], a)]
    /\ Release(t)

-----------------------------------------------------------------------------
(***************************************************************************)
(* PATCH /users/me/addresses/{id}.                                         *)
(***************************************************************************)
LoadForUpdate(t, u, a, default, other) ==
    /\ a \in AddressesOf(u)
    /\ Begin(t, [Idle EXCEPT !.user = u, !.id = a, !.default = default,
                    !.other = other, !.seen = address[a].is_default,
                    !.step = IF default = "true" THEN "clear" ELSE "write"])

Wanted(r) == IF r.default = "unset" THEN r.seen ELSE r.default = "true"

\* The columns that differ from what was read are written, with the row
\* locked.  An UPDATE that finds the row deleted fails, and takes the
\* cleared defaults with it.  A PATCH that changes nothing writes nothing,
\* and commits.
UpdateAddress(t) ==
    LET r == request[t]
        changes == r.other \/ Wanted(r) # r.seen
    IN
    /\ r.step = "write"
    /\ changes => Available(r.id, t)
    /\ address' =
          IF ~changes THEN Cleared(t)
          ELSE IF ~Live(r.id) THEN address
          ELSE [Cleared(t) EXCEPT ![r.id].is_default =
                   IF Wanted(r) # r.seen THEN Wanted(r) ELSE @]
    /\ Release(t)

-----------------------------------------------------------------------------
(***************************************************************************)
(* DELETE /users/me/addresses/{id}.                                        *)
(***************************************************************************)
LoadForDelete(t, u, a) ==
    /\ a \in AddressesOf(u)
    /\ Begin(t, [Idle EXCEPT !.user = u, !.id = a, !.step = "delete"])

\* DELETE and COMMIT; deleting a deleted row deletes nothing.
DeleteAddress(t) ==
    LET r == request[t] IN
    /\ r.step = "delete"
    /\ Available(r.id, t)
    /\ address' = [address EXCEPT ![r.id].state = "deleted",
                                  ![r.id].is_default = FALSE]
    /\ Release(t)

-----------------------------------------------------------------------------
\* A transaction is rolled back: its process, its connection or the database
\* fails.
Abort(t) ==
    /\ request[t] # Idle
    /\ Release(t)
    /\ UNCHANGED address

\* The transaction that t waits for: the one that has locked the row that t
\* wants next.
WaitsFor(t, s) ==
    /\ s # t
    /\ \/ request[t].step = "meet" /\ \E a \in request[t].todo : lock[a] = s
       \/ request[t].step = "write" /\ lock[request[t].id] = s
       \/ request[t].step = "delete" /\ lock[request[t].id] = s

\* PostgreSQL rolls back one of two transactions that wait for each other.
ResolveDeadlock(t, s) ==
    /\ WaitsFor(t, s)
    /\ WaitsFor(s, t)
    /\ Release(t)
    /\ UNCHANGED address

Work(t) ==
    \/ ClearDefaultForUser(t)
    \/ \E a \in Ids : MeetRow(t, a)
    \/ Met(t)
    \/ CreateAddress(t)
    \/ UpdateAddress(t)
    \/ DeleteAddress(t)

Serve(t) ==
    \E u \in Users :
        \/ \E default \in {"true", "false"} : CountForCreate(t, u, default)
        \/ \E a \in Ids, default \in {"true", "false", "unset"}, other \in BOOLEAN :
              LoadForUpdate(t, u, a, default, other)
        \/ \E a \in Ids : LoadForDelete(t, u, a)

Deadlocks == \E t, s \in Threads : ResolveDeadlock(t, s)

\* Another request of the same user is in progress.
HasCompany(t) == \E s \in Threads \ {t} : request[s].user = request[t].user

Observe ==
    disturbed' = {t \in Threads : /\ request'[t] # Idle
                                  /\ t \in disturbed \/ HasCompany(t)'}

Next ==
    /\ \/ \E t \in Threads : Serve(t) \/ Work(t) \/ Abort(t)
       \/ Deadlocks
    /\ Observe

Spec == Init /\ [][Next]_vars

\* The server and the database do their work: PostgreSQL queues those who
\* wait for a row, so a thread that gets the chance of its next step again
\* and again takes it in the end, and it looks for deadlocks.
FairSpec ==
    /\ Spec
    /\ \A t \in Threads : SF_vars(Work(t) /\ Observe)
    /\ WF_vars(Deadlocks /\ Observe)

-----------------------------------------------------------------------------
(***************************************************************************)
(* What holds however the requests interleave.  With one thread the two    *)
(* bounds say what the service means to promise: at most                   *)
(* MAX_ADDRESSES_PER_USER addresses, and a single default.                 *)
(***************************************************************************)

\* The requests that have counted the addresses of u and will insert one.
Creating(u) ==
    {t \in Threads :
        /\ request[t].user = u
        /\ request[t].id = Null}

\* Nobody locks the address book, but the requests that counted before the
\* limit was reached are the only ones that exceed it: by at most one for
\* every other thread of the server (create_address).
LimitOvershoot ==
    \A u \in Users :
        Cardinality(AddressesOf(u)) + Cardinality(Creating(u))
            <= MAX_ADDRESSES_PER_USER + Cardinality(Threads) - 1

\* Overlapping requests may leave several defaults, yet no more than there
\* are threads: whatever a thread made the default earlier is cleared when
\* it sets the next default (clear_default_for_user).
DefaultsBounded ==
    \A u \in Users : Cardinality(DefaultsOf(u)) <= Cardinality(Threads)

\* Requests that wait for each other's rows do not wait for ever: the threads
\* of the server are never used up by the address book.
RequestsEnd == \A t \in Threads : request[t] # Idle ~> request[t] = Idle

\* A request that asks for a default and has met no other request of its user
\* leaves him with one default when it commits.
LeavesOneDefault(t, u) ==
    /\ request[t].user = u
    /\ request[t].default = "true"
    /\ t \notin disturbed
    /\ request'[t] = Idle
    /\ address' # address
    => \E a \in Ids : DefaultsOf(u)' = {a}

\* Whatever overlapping requests have left behind, two defaults or none, the
\* next request that is alone with the book of its user and sets a default
\* leaves exactly one: it clears all the others, and never its own row, which
\* it does not write again if it has read it as the default
\* (clear_default_for_user, update_address).
DefaultRepaired == [][\A t \in Threads, u \in Users : LeavesOneDefault(t, u)]_vars
=============================================================================
