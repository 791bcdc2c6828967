----------------------------- MODULE Catalogue -----------------------------
(***************************************************************************)
(* The catalogue that admins maintain (service types, laundry item types   *)
(* and the prices of their combinations), and how POST /orders/ makes an   *)
(* order from it: it reads the customer's address, prices the lines one by *)
(* one, and tries random order numbers until one is free.                  *)
(*                                                                         *)
(* Each SELECT of a request is a step of its own, so a request may see     *)
(* several versions of the catalogue.  A session gives back the object it  *)
(* already has for a row, with the columns as they were read first, as     *)
(* long as the program holds on to the object; create_order holds on to    *)
(* the rows of the line before.  A rollback makes it forget all columns.   *)
(***************************************************************************)
EXTENDS Naturals, Sequences

CONSTANTS
    Services,  \* the names of service types
    ItemTypes, \* the names of laundry item types
    Prices,    \* the prices in use
    Versions,  \* the contents an address may have
    Numbers,   \* the order numbers of a day
    MaxTries,  \* how many numbers a request tries
    MaxLines,  \* bound: the lines an order may have
    Threads,   \* the threads that serve requests
    Null       \* no value

ASSUME CatalogueAssumption ==
    /\ Prices \subseteq Nat
    /\ MaxLines \in Nat
    /\ MaxTries \in Nat \ {0}
    /\ Null \notin Services \cup ItemTypes \cup Prices \cup Versions
    /\ Services \cap ItemTypes = {}

Types == Services \cup ItemTypes
Pairs == Services \X ItemTypes

VARIABLES
    type,    \* type[x] is the row of service type or item type x
    pricing, \* pricing[p] is the row with the price of pair p
    home,    \* the address of the customer, Null once it is deleted
    taken,   \* the numbers of the orders there are
    request, \* request[t] is what thread t carries between two steps
    seen     \* seen[t] is what was on offer while the request of t ran

rows == <<type, pricing, home, taken>>
vars == <<rows, request, seen>>

RowState == {"none", "inactive", "active"}

PricingRow == [state : RowState, price : Prices \cup {Null}]

NoPricing == [state |-> "none", price |-> Null]

Line == [pair : Pairs, price : Prices]

(***************************************************************************)
(* goal is what the request wants in the end; old is the row of the price  *)
(* as it was read, new as it is to be; priced are the lines of an order so *)
(* far, home its address as the session knows it, and tries counts the     *)
(* numbers that were taken.                                                *)
(***************************************************************************)
Request ==
    [step   : {"idle", "service", "item", "last", "commit", "retry", "number"},
     goal   : {"none", "order", "create", "update"},
     pair   : Pairs \cup {Null},
     old    : PricingRow,
     new    : PricingRow,
     priced : Seq(Line),
     home   : Versions \cup {Null},
     tries  : 0 .. MaxTries - 1]

Idle == [step |-> "idle", goal |-> "none", pair |-> Null, old |-> NoPricing,
         new |-> NoPricing, priced |-> <<>>, home |-> Null, tries |-> 0]

TypeOK ==
    /\ type \in [Types -> RowState]
    /\ pricing \in [Pairs -> PricingRow]
    /\ home \in Versions \cup {Null}
    /\ taken \subseteq Numbers
    /\ request \in [Threads -> Request]
    /\ seen \in [Threads -> [open  : SUBSET Types,
                             lines : SUBSET Line,
                             homes : SUBSET (Versions \cup {Null})]]

Open == {x \in Types : type[x] = "active"}

Offered ==
    {[pair |-> p, price |-> pricing[p].price] :
        p \in {q \in Pairs : pricing[q].state = "active"}}

NothingSeen == [open |-> {}, lines |-> {}, homes |-> {}]

Init ==
    /\ type = [x \in Types |-> "none"]
    /\ pricing = [p \in Pairs |-> NoPricing]
    /\ home \in Versions
    /\ taken = {}
    /\ request = [t \in Threads |-> Idle]
    /\ seen = [t \in Threads |-> NothingSeen]

Begin(t, r)       == request[t] = Idle /\ request' = [request EXCEPT ![t] = r]
Continue(t, step) == request' = [request EXCEPT ![t].step = step]
Finish(t)         == request' = [request EXCEPT ![t] = Idle]

-----------------------------------------------------------------------------
(***************************************************************************)
(* Service types and item types.  A PATCH of is_active has the effect of   *)
(* one write: it writes its value, unless it had read the same.  That a    *)
(* name is free is checked before the INSERT, and enforced by it.          *)
(***************************************************************************)
CreateType(t, x) ==
    /\ request[t] = Idle
    /\ type[x] = "none"
    /\ type' = [type EXCEPT ![x] = "active"]
    /\ UNCHANGED <<pricing, home, taken, request>>

UpdateType(t, x, state) ==
    /\ request[t] = Idle
    /\ type[x] # "none"
    /\ type' = [type EXCEPT ![x] = state]
    /\ UNCHANGED <<pricing, home, taken, request>>

-----------------------------------------------------------------------------
(***************************************************************************)
(* What the requests that need an active pair of types have in common.     *)
(***************************************************************************)
LastLine(r) == r.priced[Len(r.priced)]

HasLine(r) == r.priced # <<>>

\* The flag of the service (i = 1) or item type (i = 2), as the session
\* knows it: what the line before has found active is active.
IsOpen(r, i) ==
    \/ type[r.pair[i]] = "active"
    \/ HasLine(r) /\ LastLine(r).pair[i] = r.pair[i]

ReadService(t) ==
    /\ request[t].step = "service"
    /\ IF IsOpen(request[t], 1) THEN Continue(t, "item") ELSE Finish(t)
    /\ UNCHANGED rows

ReadItem(t) ==
    LET r == request[t] IN
    /\ r.step = "item"
    /\ IF IsOpen(r, 2)
       THEN Continue(t, IF r.goal = "update" THEN "commit" ELSE "last")
       ELSE Finish(t)
    /\ UNCHANGED rows

-----------------------------------------------------------------------------
(***************************************************************************)
(* POST /service-pricing.                                                  *)
(***************************************************************************)
StartCreatePricing(t, p, price) ==
    /\ Begin(t, [Idle EXCEPT !.step = "service", !.goal = "create", !.pair = p,
                             !.new = [state |-> "active", price |-> price]])
    /\ UNCHANGED rows

ReadUnique(t) ==
    /\ request[t].goal = "create"
    /\ request[t].step = "last"
    /\ IF pricing[request[t].pair] = NoPricing
       THEN Continue(t, "commit") ELSE Finish(t)
    /\ UNCHANGED rows

\* The unique constraint refuses a second row for a pair.
InsertPricing(t) ==
    LET r == request[t] IN
    /\ r.goal = "create"
    /\ r.step = "commit"
    /\ pricing' = [pricing EXCEPT ![r.pair] = IF @ = NoPricing THEN r.new ELSE @]
    /\ Finish(t)
    /\ UNCHANGED <<type, home, taken>>

-----------------------------------------------------------------------------
(***************************************************************************)
(* PATCH /service-pricing/{id}: a new price, a new state, or both.         *)
(***************************************************************************)

\* Mutant: the types are not asked for when a price is activated.
FirstCheck_None(old, state) == "commit"

\* The types are looked at when the request asks for is_active = TRUE, also
\* if the price is active already.
FirstCheck(old, state) == IF state = "active" THEN "service" ELSE "commit"

\* state and price are "none" and Null if the request does not name them.
LoadPricing(t, p, state, price) ==
    LET old == pricing[p]
        new == [state |-> IF state = "none" THEN old.state ELSE state,
                price |-> IF price = Null THEN old.price ELSE price]
    IN
    /\ old # NoPricing
    /\ Begin(t, [Idle EXCEPT !.step = FirstCheck(old, state), !.goal = "update",
                             !.pair = p, !.old = old, !.new = new])
    /\ UNCHANGED rows

\* The columns that differ from what was read are written.
UpdatePricing(t) ==
    LET r == request[t]
        Write(current, old, new) == IF new = old THEN current ELSE new
    IN
    /\ r.goal = "update"
    /\ r.step = "commit"
    /\ pricing' = [pricing EXCEPT
          ![r.pair].state = Write(@, r.old.state, r.new.state),
          ![r.pair].price = Write(@, r.old.price, r.new.price)]
    /\ Finish(t)
    /\ UNCHANGED <<type, home, taken>>

-----------------------------------------------------------------------------
(***************************************************************************)
(* The customer's address, as far as an order copies it: PATCH and DELETE  *)
(* of /addresses/{id}, whose steps are in module Addresses.                *)
(***************************************************************************)
EditAddress(v) ==
    /\ home # Null
    /\ home' = v
    /\ UNCHANGED <<type, pricing, taken, request>>

DeleteAddress ==
    /\ home # Null
    /\ home' = Null
    /\ UNCHANGED <<type, pricing, taken, request>>

(***************************************************************************)
(* POST /orders/: the address, the lines, priced one by one, and the       *)
(* commit.                                                                 *)
(***************************************************************************)
StartOrder(t) ==
    /\ home # Null
    /\ Begin(t, [Idle EXCEPT !.step = "commit", !.goal = "order", !.home = home])
    /\ UNCHANGED rows

NextLine(t, p) ==
    LET r == request[t] IN
    /\ r.goal = "order"
    /\ r.step = "commit"
    /\ Len(r.priced) < MaxLines
    /\ request' = [request EXCEPT ![t].step = "service", ![t].pair = p]
    /\ UNCHANGED rows

\* Mutant: the price is found whether it is active or not.
OnList_Any(p) == pricing[p] # NoPricing

OnList(p) == pricing[p].state = "active"

\* Mutant: the snapshot takes the running total.
PriceOf_Total(r) ==
    IF HasLine(r) THEN LastLine(r).price + pricing[r.pair].price
                  ELSE pricing[r.pair].price

\* The price of the line before is the price of the same pair still.
PriceOf(r) ==
    IF HasLine(r) /\ LastLine(r).pair = r.pair THEN LastLine(r).price
                                                ELSE pricing[r.pair].price

ReadPrice(t) ==
    LET r == request[t] IN
    /\ r.goal = "order"
    /\ r.step = "last"
    /\ IF OnList(r.pair)
       THEN request' = [request EXCEPT
               ![t].step = "commit",
               ![t].priced = Append(@, [pair |-> r.pair, price |-> PriceOf(r)])]
       ELSE Finish(t)
    /\ UNCHANGED rows

\* The order, its items, its first history entry and its payment are one
\* commit.
InsertOrder(t, n) ==
    /\ request[t].goal = "order"
    /\ request[t].step \in {"commit", "number"}
    /\ n \notin taken
    /\ taken' = taken \cup {n}
    /\ Finish(t)
    /\ UNCHANGED <<type, pricing, home>>

\* Mutant: the next attempt copies the address that was read at first.
NumberCollides_Keeps(t, n) ==
    LET r == request[t] IN
    /\ r.goal = "order"
    /\ r.step \in {"commit", "number"}
    /\ n \in taken
    /\ IF r.tries + 1 < MaxTries
       THEN request' = [request EXCEPT ![t].step = "number", ![t].tries = @ + 1]
       ELSE Finish(t)
    /\ UNCHANGED rows

\* The number is taken: the transaction is rolled back, and the session
\* forgets what it knew of the address.
NumberCollides(t, n) ==
    LET r == request[t] IN
    /\ r.goal = "order"
    /\ r.step \in {"commit", "number"}
    /\ n \in taken
    /\ IF r.tries + 1 < MaxTries
       THEN request' = [request EXCEPT ![t].step = "retry", ![t].home = Null,
                                       ![t].tries = @ + 1]
       ELSE Finish(t)
    /\ UNCHANGED rows

\* The next attempt copies the address again, and so reads it again; the
\* request fails if the address was deleted meanwhile.
ReadAddressAgain(t) ==
    /\ request[t].step = "retry"
    /\ IF home # Null
       THEN request' = [request EXCEPT ![t].step = "number", ![t].home = home]
       ELSE Finish(t)
    /\ UNCHANGED rows

-----------------------------------------------------------------------------
\* The request fails.
Abort(t) ==
    /\ request[t] # Idle
    /\ Finish(t)
    /\ UNCHANGED rows

ThreadStep(t) ==
    \/ \E x \in Types : CreateType(t, x)
    \/ \E x \in Types, state \in {"inactive", "active"} : UpdateType(t, x, state)
    \/ \E p \in Pairs, price \in Prices : StartCreatePricing(t, p, price)
    \/ \E p \in Pairs, state \in RowState, price \in Prices \cup {Null} :
          LoadPricing(t, p, state, price)
    \/ StartOrder(t)
    \/ \E p \in Pairs : NextLine(t, p)
    \/ ReadService(t)
    \/ ReadItem(t)
    \/ ReadUnique(t)
    \/ InsertPricing(t)
    \/ UpdatePricing(t)
    \/ ReadPrice(t)
    \/ \E n \in Numbers : InsertOrder(t, n) \/ NumberCollides(t, n)
    \/ ReadAddressAgain(t)
    \/ Abort(t)

\* What a running request could have found on offer, before this step or
\* after it, and what the address was since its last rollback.
Witness ==
    seen' = [t \in Threads |->
        IF request'[t] = Idle
        THEN NothingSeen
        ELSE [open  |-> seen[t].open \cup Open \cup Open',
              lines |-> seen[t].lines \cup Offered \cup Offered',
              homes |-> IF request'[t].goal # "order" THEN {}
                        ELSE IF request'[t].tries # request[t].tries THEN {home'}
                        ELSE seen[t].homes \cup {home, home'}]]

Next ==
    /\ \/ \E t \in Threads : ThreadStep(t)
       \/ \E v \in Versions : EditAddress(v)
       \/ DeleteAddress
    /\ Witness

Spec == Init /\ [][Next]_vars

-----------------------------------------------------------------------------
(***************************************************************************)
(* What holds however the requests interleave.  When nobody changes the    *)
(* catalogue meanwhile, it says that an order is charged the list as it    *)
(* is, and that a price is activated while both of its types are active.   *)
(***************************************************************************)

\* No order is charged a price that was never asked: every line was on the
\* list, at its price and with both types open, at some moment while the
\* request ran, though the rows are read one by one and some of them are
\* remembered from the line before (create_order).
LinesWereOffered ==
    \A t \in Threads : \A n \in DOMAIN request[t].priced :
        LET line == request[t].priced[n] IN
        /\ line \in seen[t].lines
        /\ line.pair[1] \in seen[t].open
        /\ line.pair[2] \in seen[t].open

\* An order goes to an address that the customer had after the last attempt
\* failed for its number, or while the request ran if none did: not to one
\* that was edited or deleted before that (create_order).
AddressIsRecent ==
    \A t \in Threads : request[t].home # Null => request[t].home \in seen[t].homes

\* A price becomes active only if each of its types was active at some moment
\* of a request that asked for it: a PATCH that was checked for another state
\* never brings it back (create_service_pricing, update_service_pricing).
ActivationWitnessed ==
    [][\A p \in Pairs :
          pricing[p].state # "active" /\ pricing'[p].state = "active" =>
              \E t \in Threads :
                  /\ request[t].pair = p
                  /\ p[1] \in seen[t].open
                  /\ p[2] \in seen[t].open]_vars
=============================================================================
