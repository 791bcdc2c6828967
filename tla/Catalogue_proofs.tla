-------------------------- MODULE Catalogue_proofs -------------------------
(***************************************************************************)
(* Proofs about catalogue and pricing, for any number of types, prices,    *)
(* lines and threads: however the rows change between the reads of a       *)
(* request, what it does is backed by something it could have seen.        *)
(***************************************************************************)
EXTENDS Catalogue, TLAPS

-----------------------------------------------------------------------------
(***************************************************************************)
(* The inductive invariant.                                                *)
(***************************************************************************)

\* A row of a price has a state and a price.
RowValid(row) == row = NoPricing \/ (row.state # "none" /\ row.price \in Prices)

RowsValid == \A p \in Pairs : RowValid(pricing[p])

\* Only an order has lines and an address, and what a request is about to
\* write is a row.
RequestValid(r) ==
    /\ r.step = "idle" => r = Idle
    /\ r.step \in {"service", "item", "last"} => r.pair \in Pairs
    /\ r.step \in {"retry", "number"} => r.goal = "order"
    /\ r.goal # "order" => r.priced = <<>> /\ r.home = Null
    /\ r.goal \in {"create", "update"} =>
          r.pair \in Pairs /\ r.new.state # "none" /\ r.new.price \in Prices
    /\ r.goal = "update" => r.old.state # "none"

RequestsValid ==
    \A t \in Threads :
        /\ RequestValid(request[t])
        /\ request[t].goal = "update" => pricing[request[t].pair] # NoPricing

\* Does the request r make a price active when it commits?
Activates(r) ==
    \/ r.goal = "create"
    \/ r.goal = "update" /\ r.new.state = "active" /\ r.old.state # "active"

\* What request r has found out is among what it could have seen, s.
Backed(r, s) ==
    /\ \A n \in DOMAIN r.priced :
          /\ r.priced[n] \in s.lines
          /\ r.priced[n].pair[1] \in s.open
          /\ r.priced[n].pair[2] \in s.open
    /\ r.home # Null => r.home \in s.homes
    /\ r.step \in {"item", "last"} => r.pair[1] \in s.open
    /\ r.step = "last" => r.pair[2] \in s.open
    /\ r.step = "commit" /\ Activates(r) => r.pair[1] \in s.open /\ r.pair[2] \in s.open

RequestsBacked == \A t \in Threads : Backed(request[t], seen[t])

IInv ==
    /\ TypeOK
    /\ RowsValid
    /\ RequestsValid
    /\ RequestsBacked

-----------------------------------------------------------------------------
(***************************************************************************)
(* Facts about the data.                                                   *)
(***************************************************************************)
LEMMA PairFact ==
    ASSUME NEW p \in Pairs
    PROVE  p[1] \in Types /\ p[2] \in Types
BY DEF Pairs, Types

LEMMA IdleFact == Idle \in Request /\ RequestValid(Idle) /\ \A s : Backed(Idle, s)
<1>1. Idle \in Request
    <2>1. 0 \in 0 .. MaxTries - 1
        BY CatalogueAssumption
    <2>2. NoPricing \in PricingRow /\ <<>> \in Seq(Line)
        BY DEF NoPricing, PricingRow, RowState
    <2> QED
        BY <2>1, <2>2 DEF Idle, Request
<1> QED
    BY <1>1 DEF Idle, RequestValid, Backed, Activates

\* A request that could have seen more is backed as well.
LEMMA BackedGrows ==
    ASSUME NEW r, NEW s, NEW q, Backed(r, s),
           s.open \subseteq q.open, s.lines \subseteq q.lines, s.homes \subseteq q.homes
    PROVE  Backed(r, q)
BY DEF Backed

LEMMA OfferedFact ==
    ASSUME RowsValid, pricing \in [Pairs -> PricingRow]
    PROVE  /\ Offered \subseteq Line
           /\ \A p \in Pairs : pricing[p].state = "active" =>
                 [pair |-> p, price |-> pricing[p].price] \in Offered
<1>1. \A p \in Pairs : pricing[p].state = "active" => pricing[p].price \in Prices
    BY DEF RowsValid, RowValid, NoPricing
<1> QED
    BY <1>1 DEF Offered, Line

-----------------------------------------------------------------------------
(***************************************************************************)
(* The rows.                                                               *)
(***************************************************************************)
\* Rows stay well formed, and no row of a price is ever deleted.
LEMMA RowsStep ==
    ASSUME TypeOK, RowsValid, RequestsValid, Next
    PROVE  /\ type' \in [Types -> RowState]
           /\ pricing' \in [Pairs -> PricingRow]
           /\ home' \in Versions \cup {Null}
           /\ taken' \subseteq Numbers
           /\ RowsValid'
           /\ \A p \in Pairs : pricing[p] # NoPricing => pricing'[p] # NoPricing
<1> DEFINE Good ==
        /\ type' \in [Types -> RowState]
        /\ pricing' \in [Pairs -> PricingRow]
        /\ home' \in Versions \cup {Null}
        /\ taken' \subseteq Numbers
        /\ RowsValid'
        /\ \A p \in Pairs : pricing[p] # NoPricing => pricing'[p] # NoPricing
<1> USE DEF TypeOK
<1>1. ASSUME NEW p \in Pairs, NEW row \in PricingRow, RowValid(row), row # NoPricing,
             pricing' = [pricing EXCEPT ![p] = row], UNCHANGED <<type, home, taken>>
      PROVE  Good
    BY <1>1 DEF RowsValid, RowValid
<1>2. ASSUME UNCHANGED pricing, type' \in [Types -> RowState],
             home' \in Versions \cup {Null}, taken' \subseteq Numbers
      PROVE  Good
    BY <1>2 DEF RowsValid, RowValid
<1>3. ASSUME NEW t \in Threads, InsertPricing(t)
      PROVE  Good
    <2> DEFINE r == request[t]
    <2>1. /\ r.pair \in Pairs /\ r.new \in PricingRow
          /\ r.new.state # "none" /\ r.new.price \in Prices
        BY <1>3 DEF InsertPricing, RequestsValid, RequestValid, Request
    <2>2. RowValid(r.new) /\ r.new # NoPricing
        BY <2>1 DEF RowValid, NoPricing
    <2>3. CASE pricing[r.pair] = NoPricing
        BY <1>1, <1>3, <2>1, <2>2, <2>3 DEF InsertPricing
    <2>4. CASE pricing[r.pair] # NoPricing
        <3>1. UNCHANGED pricing
            BY <1>3, <2>1, <2>4 DEF InsertPricing
        <3> QED
            BY <1>2, <1>3, <3>1 DEF InsertPricing
    <2> QED
        BY <2>3, <2>4
<1>4. ASSUME NEW t \in Threads, UpdatePricing(t)
      PROVE  Good
    <2> DEFINE r == request[t]
               Write(current, old, new) == IF new = old THEN current ELSE new
               row == [pricing[r.pair] EXCEPT !.state = Write(@, r.old.state, r.new.state),
                                              !.price = Write(@, r.old.price, r.new.price)]
    <2>1. /\ r.pair \in Pairs /\ r.new \in PricingRow /\ r.old \in PricingRow
          /\ r.new.state # "none" /\ r.new.price \in Prices
          /\ pricing[r.pair] # NoPricing
        BY <1>4 DEF UpdatePricing, RequestsValid, RequestValid, Request
    <2>2. /\ pricing[r.pair] \in PricingRow /\ pricing[r.pair].state # "none"
          /\ pricing[r.pair].price \in Prices
        BY <2>1 DEF RowsValid, RowValid
    <2>3. row \in PricingRow /\ row.state # "none" /\ row.price \in Prices
        BY <2>1, <2>2 DEF PricingRow
    <2>4. pricing' = [pricing EXCEPT ![r.pair] = row]
        BY <1>4, <2>1 DEF UpdatePricing
    <2> HIDE DEF row
    <2>5. RowValid(row) /\ row # NoPricing
        BY <2>3 DEF RowValid, NoPricing
    <2> QED
        BY <1>1, <1>4, <2>1, <2>3, <2>4, <2>5 DEF UpdatePricing
<1>5. ASSUME NEW t \in Threads, NEW x \in Types,
             CreateType(t, x) \/ \E s \in {"inactive", "active"} : UpdateType(t, x, s)
      PROVE  Good
    BY <1>2, <1>5 DEF CreateType, UpdateType, RowState
<1>6. ASSUME NEW t \in Threads, NEW n \in Numbers, InsertOrder(t, n)
      PROVE  Good
    BY <1>2, <1>6 DEF InsertOrder
<1>7. ASSUME (\E v \in Versions : EditAddress(v)) \/ DeleteAddress
      PROVE  Good
    BY <1>2, <1>7 DEF EditAddress, DeleteAddress
<1>8. ASSUME UNCHANGED rows
      PROVE  Good
    BY <1>2, <1>8 DEF rows
<1> QED
    BY <1>3, <1>4, <1>5, <1>6, <1>7, <1>8
       DEF Next, ThreadStep, StartCreatePricing, LoadPricing, StartOrder, NextLine, ReadService,
           ReadItem, ReadUnique, ReadPrice, NumberCollides, ReadAddressAgain, Abort

-----------------------------------------------------------------------------
(***************************************************************************)
(* The requests.                                                           *)
(***************************************************************************)

\* What a running request could have seen only grows, but for the address,
\* which is what it was since the last number that was taken.
LEMMA SeenStep ==
    ASSUME IInv, Next, NEW t \in Threads, request'[t] # Idle
    PROVE  /\ seen'[t].open = seen[t].open \cup Open \cup Open'
           /\ seen'[t].lines = seen[t].lines \cup Offered \cup Offered'
           /\ request'[t].goal = "order" =>
                 /\ home' \in seen'[t].homes
                 /\ request'[t].tries = request[t].tries
                       => seen[t].homes \cup {home} \subseteq seen'[t].homes
BY DEF Next, Witness

LEMMA SeenTyped ==
    ASSUME IInv, Next
    PROVE  seen' \in [Threads -> [open  : SUBSET Types,
                                 lines : SUBSET Line,
                                 homes : SUBSET (Versions \cup {Null})]]
<1>1. /\ home' \in Versions \cup {Null} /\ RowsValid'
      /\ pricing' \in [Pairs -> PricingRow]
    BY RowsStep DEF IInv
<1>2. Offered \subseteq Line
    BY OfferedFact DEF IInv, TypeOK
<1>3. Offered' \subseteq Line
    <2>1. \A p \in Pairs : pricing'[p].state = "active" => pricing'[p].price \in Prices
        BY <1>1 DEF RowsValid, RowValid, NoPricing
    <2> QED
        BY <2>1 DEF Offered, Line
<1>4. Open \subseteq Types /\ Open' \subseteq Types
    BY DEF Open
<1> QED
    BY <1>1, <1>2, <1>3, <1>4 DEF IInv, TypeOK, Next, Witness, NothingSeen

\* It is enough to look at the thread that takes a step.
LEMMA Others ==
    ASSUME IInv, Next, NEW t \in Threads, NEW r \in Request,
           request' = [request EXCEPT ![t] = r], RequestValid(r),
           r.goal = "update" => pricing[r.pair] # NoPricing,
           r # Idle => Backed(r, seen'[t])
    PROVE  IInv'
<1>1. request' \in [Threads -> Request] /\ request'[t] = r
    BY DEF IInv, TypeOK
<1>2. /\ TypeOK' /\ RowsValid'
      /\ \A p \in Pairs : pricing[p] # NoPricing => pricing'[p] # NoPricing
    BY <1>1, RowsStep, SeenTyped DEF IInv, TypeOK
<1>3. RequestsValid'
    <2> SUFFICES ASSUME NEW u \in Threads
                 PROVE  /\ RequestValid(request'[u])
                        /\ request'[u].goal = "update" => pricing'[request'[u].pair] # NoPricing
        BY DEF RequestsValid
    <2>1. CASE u = t
        BY <1>1, <1>2, <2>1 DEF RequestValid
    <2>2. CASE u # t
        <3>1. request'[u] = request[u]
            BY <2>2 DEF IInv, TypeOK
        <3> QED
            BY <1>2, <3>1 DEF IInv, RequestsValid, RequestValid
    <2> QED
        BY <2>1, <2>2
<1>4. RequestsBacked'
    <2> SUFFICES ASSUME NEW u \in Threads
                 PROVE  Backed(request'[u], seen'[u])
        BY DEF RequestsBacked
    <2>1. CASE request'[u] = Idle
        BY <2>1, IdleFact
    <2>2. CASE request'[u] # Idle /\ u = t
        BY <1>1, <2>2
    <2>3. CASE request'[u] # Idle /\ u # t
        <3>1. request'[u] = request[u]
            BY <2>3 DEF IInv, TypeOK
        <3>2. Backed(request[u], seen[u]) /\ RequestValid(request[u])
            BY DEF IInv, RequestsBacked, RequestsValid
        <3>3. seen[u].open \subseteq seen'[u].open /\ seen[u].lines \subseteq seen'[u].lines
            BY <2>3, SeenStep
        <3>4. request[u].goal = "order" => seen[u].homes \subseteq seen'[u].homes
            BY <2>3, <3>1, SeenStep
        <3>5. request[u].goal # "order" => request[u].home = Null
            BY <3>2 DEF RequestValid
        <3> QED
            BY <3>1, <3>2, <3>3, <3>4, <3>5 DEF Backed
    <2> QED
        BY <2>1, <2>2, <2>3
<1> QED
    BY <1>2, <1>3, <1>4 DEF IInv

\* A request that ends, or one that only others disturb.
LEMMA Ends ==
    ASSUME IInv, Next, NEW t \in Threads, Finish(t)
    PROVE  IInv'
<1>1. Idle.goal # "update"
    BY DEF Idle
<1> QED
    BY <1>1, Others, IdleFact DEF Finish

LEMMA Waits ==
    ASSUME IInv, Next, UNCHANGED request
    PROVE  IInv'
<1>1. CASE Threads = {}
    <2>1. TypeOK' /\ RowsValid'
        BY RowsStep, SeenTyped DEF IInv, TypeOK
    <2> QED
        BY <1>1, <2>1 DEF IInv, RequestsValid, RequestsBacked
<1>2. ASSUME NEW t \in Threads
      PROVE  IInv'
    <2> DEFINE r == request[t]
    <2>1. /\ r \in Request /\ RequestValid(r) /\ request' = [request EXCEPT ![t] = r]
          /\ r.goal = "update" => pricing[r.pair] # NoPricing
        BY DEF IInv, TypeOK, RequestsValid
    <2>2. ASSUME r # Idle PROVE Backed(r, seen'[t])
        <3>1. Backed(r, seen[t])
            BY DEF IInv, RequestsBacked
        <3>2. request'[t] # Idle /\ request'[t] = r
            BY <2>2
        <3>3. seen[t].open \subseteq seen'[t].open /\ seen[t].lines \subseteq seen'[t].lines
            BY <3>2, SeenStep
        <3>4. r.goal = "order" => seen[t].homes \subseteq seen'[t].homes
            BY <3>2, SeenStep
        <3>5. r.goal # "order" => r.home = Null
            BY <2>1 DEF RequestValid
        <3> QED
            BY <3>1, <3>3, <3>4, <3>5 DEF Backed
    <2> HIDE DEF r
    <2> QED
        BY <2>1, <2>2, Others
<1> QED
    BY <1>1, <1>2

-----------------------------------------------------------------------------
(***************************************************************************)
(* The steps of a request.                                                 *)
(***************************************************************************)

\* A request that goes on to another step knows what it knew.
LEMMA StillBacked ==
    ASSUME IInv, Next, NEW t \in Threads, request'[t] # Idle,
           request'[t].tries = request[t].tries, request'[t].goal = request[t].goal
    PROVE  /\ \A n \in DOMAIN request[t].priced :
                 /\ request[t].priced[n] \in seen'[t].lines
                 /\ request[t].priced[n].pair[1] \in seen'[t].open
                 /\ request[t].priced[n].pair[2] \in seen'[t].open
           /\ request[t].home # Null => request[t].home \in seen'[t].homes
           /\ seen[t].open \subseteq seen'[t].open
<1>1. Backed(request[t], seen[t]) /\ RequestValid(request[t])
    BY DEF IInv, RequestsBacked, RequestsValid
<1>2. seen[t].open \subseteq seen'[t].open /\ seen[t].lines \subseteq seen'[t].lines
    BY SeenStep
<1>3. request[t].home # Null => seen[t].homes \subseteq seen'[t].homes
    BY <1>1, SeenStep DEF RequestValid
<1> QED
    BY <1>1, <1>2, <1>3 DEF Backed

LEMMA StepFact ==
    ASSUME NEW r \in Request, NEW step \in {"service", "item", "last", "commit", "retry", "number"},
           NEW q, q = [r EXCEPT !.step = step]
    PROVE  /\ q \in Request /\ q # Idle /\ q.step = step /\ q.goal = r.goal /\ q.pair = r.pair
           /\ q.old = r.old /\ q.new = r.new /\ q.priced = r.priced /\ q.home = r.home
           /\ q.tries = r.tries
BY DEF Request, Idle

\* What is open to a request was open while it ran.
LEMMA OpenFact ==
    ASSUME IInv, Next, NEW t \in Threads, request'[t] # Idle,
           request'[t].tries = request[t].tries, request'[t].goal = request[t].goal,
           NEW i \in {1, 2}, IsOpen(request[t], i), request[t].pair \in Pairs
    PROVE  request[t].pair[i] \in seen'[t].open
<1>1. CASE type[request[t].pair[i]] = "active"
    <2>1. request[t].pair[i] \in Open
        BY <1>1, PairFact DEF Open
    <2> QED
        BY <2>1, SeenStep
<1>2. CASE HasLine(request[t]) /\ LastLine(request[t]).pair[i] = request[t].pair[i]
    <2> DEFINE priced == request[t].priced
    <2>1. priced \in Seq(Line) /\ priced # <<>>
        BY <1>2 DEF HasLine, IInv, TypeOK, Request
    <2>2. Len(priced) \in DOMAIN priced
        BY <2>1
    <2> QED
        BY <1>2, <2>2, StillBacked DEF LastLine
<1> QED
    BY <1>1, <1>2 DEF IsOpen

LEMMA ReadServiceStep ==
    ASSUME IInv, Next, NEW t \in Threads, ReadService(t)
    PROVE  IInv'
<1>1. CASE ~IsOpen(request[t], 1)
    BY <1>1, Ends DEF ReadService
<1>2. CASE IsOpen(request[t], 1)
    <2> DEFINE q == [request[t] EXCEPT !.step = "item"]
    <2>1. request[t] \in Request /\ RequestValid(request[t]) /\ request[t].step = "service"
          /\ (request[t].goal = "update" => pricing[request[t].pair] # NoPricing)
        BY DEF IInv, TypeOK, RequestsValid, ReadService
    <2>2. request' = [request EXCEPT ![t] = q] /\ request'[t] = q
        BY <1>2 DEF ReadService, Continue, IInv, TypeOK
    <2>3. /\ q \in Request /\ q # Idle /\ q.step = "item" /\ q.goal = request[t].goal
          /\ q.pair = request[t].pair /\ q.old = request[t].old /\ q.new = request[t].new
          /\ q.priced = request[t].priced /\ q.home = request[t].home
          /\ q.tries = request[t].tries
        BY <2>1, StepFact
    <2> HIDE DEF q
    <2>4. q.pair \in Pairs /\ RequestValid(q)
        BY <2>1, <2>3 DEF RequestValid
    <2>5. q.pair[1] \in seen'[t].open
        BY <1>2, <2>2, <2>3, <2>4, OpenFact
    <2>6. Backed(q, seen'[t])
        BY <2>2, <2>3, <2>5, StillBacked DEF Backed
    <2> QED
        BY <2>1, <2>2, <2>3, <2>4, <2>6, Others
<1> QED
    BY <1>1, <1>2

LEMMA ReadItemStep ==
    ASSUME IInv, Next, NEW t \in Threads, ReadItem(t)
    PROVE  IInv'
<1>1. CASE ~IsOpen(request[t], 2)
    BY <1>1, Ends DEF ReadItem
<1>2. CASE IsOpen(request[t], 2)
    <2> DEFINE step == IF request[t].goal = "update" THEN "commit" ELSE "last"
               q == [request[t] EXCEPT !.step = step]
    <2>1. request[t] \in Request /\ RequestValid(request[t]) /\ request[t].step = "item"
          /\ (request[t].goal = "update" => pricing[request[t].pair] # NoPricing)
          /\ Backed(request[t], seen[t])
        BY DEF IInv, TypeOK, RequestsValid, RequestsBacked, ReadItem
    <2>2. request' = [request EXCEPT ![t] = q] /\ request'[t] = q
        BY <1>2 DEF ReadItem, Continue, IInv, TypeOK
    <2>3. /\ q \in Request /\ q # Idle /\ q.step = step /\ q.goal = request[t].goal
          /\ q.pair = request[t].pair /\ q.old = request[t].old /\ q.new = request[t].new
          /\ q.priced = request[t].priced /\ q.home = request[t].home
          /\ q.tries = request[t].tries
        BY <2>1, StepFact
    <2> HIDE DEF q
    <2>4. request[t].pair \in Pairs /\ RequestValid(q)
        BY <2>1, <2>3 DEF RequestValid
    <2>5. q.pair[1] \in seen'[t].open
        BY <2>1, <2>2, <2>3, StillBacked DEF Backed
    <2>6. q.pair[2] \in seen'[t].open
        BY <1>2, <2>2, <2>3, <2>4, OpenFact
    <2>7. Backed(q, seen'[t])
        BY <2>2, <2>3, <2>5, <2>6, StillBacked DEF Backed
    <2> QED
        BY <2>1, <2>2, <2>3, <2>4, <2>7, Others
<1> QED
    BY <1>1, <1>2

LEMMA ReadUniqueStep ==
    ASSUME IInv, Next, NEW t \in Threads, ReadUnique(t)
    PROVE  IInv'
<1>1. CASE pricing[request[t].pair] # NoPricing
    BY <1>1, Ends DEF ReadUnique
<1>2. CASE pricing[request[t].pair] = NoPricing
    <2> DEFINE q == [request[t] EXCEPT !.step = "commit"]
    <2>1. request[t] \in Request /\ RequestValid(request[t]) /\ request[t].step = "last"
          /\ request[t].goal = "create" /\ Backed(request[t], seen[t])
        BY DEF IInv, TypeOK, RequestsValid, RequestsBacked, ReadUnique
    <2>2. request' = [request EXCEPT ![t] = q] /\ request'[t] = q
        BY <1>2 DEF ReadUnique, Continue, IInv, TypeOK
    <2>3. /\ q \in Request /\ q # Idle /\ q.step = "commit" /\ q.goal = request[t].goal
          /\ q.pair = request[t].pair /\ q.old = request[t].old /\ q.new = request[t].new
          /\ q.priced = request[t].priced /\ q.home = request[t].home
          /\ q.tries = request[t].tries
        BY <2>1, StepFact
    <2> HIDE DEF q
    <2>4. RequestValid(q)
        BY <2>1, <2>3 DEF RequestValid
    <2>5. q.pair[1] \in seen'[t].open /\ q.pair[2] \in seen'[t].open
        BY <2>1, <2>2, <2>3, StillBacked DEF Backed
    <2>6. Backed(q, seen'[t])
        BY <2>2, <2>3, <2>5, StillBacked DEF Backed
    <2> QED
        BY <2>1, <2>2, <2>3, <2>4, <2>6, Others
<1> QED
    BY <1>1, <1>2

LEMMA NextLineStep ==
    ASSUME IInv, Next, NEW t \in Threads, NEW p \in Pairs, NextLine(t, p)
    PROVE  IInv'
<1> DEFINE q == [request[t] EXCEPT !.step = "service", !.pair = p]
<1>1. request[t] \in Request /\ RequestValid(request[t]) /\ request[t].goal = "order"
    BY DEF IInv, TypeOK, RequestsValid, NextLine
<1>2. request' = [request EXCEPT ![t] = q] /\ request'[t] = q
    BY DEF NextLine, IInv, TypeOK
<1>3. /\ q \in Request /\ q # Idle /\ q.step = "service" /\ q.goal = request[t].goal
      /\ q.pair = p /\ q.priced = request[t].priced /\ q.home = request[t].home
      /\ q.tries = request[t].tries
    BY <1>1 DEF Request, Idle
<1> HIDE DEF q
<1>4. RequestValid(q)
    BY <1>1, <1>3 DEF RequestValid
<1>5. Backed(q, seen'[t])
    BY <1>2, <1>3, StillBacked DEF Backed
<1> QED
    BY <1>1, <1>2, <1>3, <1>4, <1>5, Others

LEMMA ReadPriceStep ==
    ASSUME IInv, Next, NEW t \in Threads, ReadPrice(t)
    PROVE  IInv'
<1>1. CASE ~OnList(request[t].pair)
    BY <1>1, Ends DEF ReadPrice
<1>2. CASE OnList(request[t].pair)
    <2> DEFINE r == request[t]
               line == [pair |-> r.pair, price |-> PriceOf(r)]
               q == [r EXCEPT !.step = "commit", !.priced = Append(r.priced, line)]
    <2>1. /\ r \in Request /\ RequestValid(r) /\ Backed(r, seen[t])
          /\ r.step = "last" /\ r.goal = "order" /\ r.pair \in Pairs
        BY DEF IInv, TypeOK, RequestsValid, RequestsBacked, ReadPrice, RequestValid
    <2>2. request' = [request EXCEPT ![t] = q] /\ request'[t] = q
        BY <1>2 DEF ReadPrice, IInv, TypeOK
    <2>3. r.priced \in Seq(Line)
        BY <2>1 DEF Request
    <2>4. line \in Offered \/ (HasLine(r) /\ line = LastLine(r))
        <3>1. CASE HasLine(r) /\ LastLine(r).pair = r.pair
            <4>1. LastLine(r) \in Line
                BY <2>3, <3>1 DEF HasLine, LastLine
            <4>2. line = [pair |-> LastLine(r).pair, price |-> LastLine(r).price]
                BY <3>1 DEF PriceOf
            <4> QED
                BY <3>1, <4>1, <4>2 DEF Line
        <3>2. CASE ~(HasLine(r) /\ LastLine(r).pair = r.pair)
            <4>1. line = [pair |-> r.pair, price |-> pricing[r.pair].price]
                BY <3>2 DEF PriceOf
            <4> QED
                BY <1>2, <2>1, <4>1, OfferedFact DEF OnList, IInv, TypeOK
        <3> QED
            BY <3>1, <3>2
    <2>5. line \in Line
        <3>1. Offered \subseteq Line
            BY OfferedFact DEF IInv, TypeOK
        <3>2. HasLine(r) => LastLine(r) \in Line
            BY <2>3 DEF HasLine, LastLine
        <3> QED
            BY <2>4, <3>1, <3>2
    <2>6. line.pair = r.pair
        OBVIOUS
    <2> HIDE DEF line
    <2>7. /\ q \in Request /\ q # Idle /\ q.step = "commit" /\ q.goal = "order"
          /\ q.priced = Append(r.priced, line) /\ q.home = r.home /\ q.tries = r.tries
        <3> DEFINE lines == Append(r.priced, line)
        <3>1. lines \in Seq(Line)
            BY <2>3, <2>5
        <3> HIDE DEF lines
        <3>2. q = [r EXCEPT !.step = "commit", !.priced = lines]
            BY DEF lines
        <3>3. \A new \in Seq(Line) :
                 LET n == [r EXCEPT !.step = "commit", !.priced = new] IN
                 /\ n \in Request /\ n # Idle /\ n.step = "commit" /\ n.goal = r.goal
                 /\ n.priced = new /\ n.home = r.home /\ n.tries = r.tries
            BY <2>1 DEF Request, Idle
        <3> HIDE DEF q
        <3>4. q.priced = lines
            BY <3>1, <3>2, <3>3
        <3> QED
            BY <2>1, <3>1, <3>2, <3>3, <3>4 DEF lines
    <2> HIDE DEF q
    <2>8. /\ \A n \in DOMAIN r.priced :
                /\ r.priced[n] \in seen'[t].lines
                /\ r.priced[n].pair[1] \in seen'[t].open
                /\ r.priced[n].pair[2] \in seen'[t].open
          /\ r.home # Null => r.home \in seen'[t].homes
          /\ seen[t].open \subseteq seen'[t].open
        BY <2>1, <2>2, <2>7, StillBacked
    <2>9. line \in seen'[t].lines
        <3>1. HasLine(r) => LastLine(r) \in seen'[t].lines
            BY <2>3, <2>8 DEF HasLine, LastLine
        <3>2. Offered \subseteq seen'[t].lines
            BY <2>2, <2>7, SeenStep
        <3> QED
            BY <2>4, <3>1, <3>2
    <2>10. line.pair[1] \in seen'[t].open /\ line.pair[2] \in seen'[t].open
        BY <2>1, <2>6, <2>8 DEF Backed
    <2>11. \A n \in DOMAIN q.priced : \/ n \in DOMAIN r.priced /\ q.priced[n] = r.priced[n]
                                      \/ q.priced[n] = line
        BY <2>3, <2>5, <2>7
    <2>12. Backed(q, seen'[t])
        BY <2>7, <2>8, <2>9, <2>10, <2>11 DEF Backed, Activates
    <2>13. RequestValid(q)
        BY <2>7 DEF RequestValid
    <2> QED
        BY <2>2, <2>7, <2>12, <2>13, Others
<1> QED
    BY <1>1, <1>2

LEMMA StartCreatePricingStep ==
    ASSUME IInv, Next, NEW t \in Threads, NEW p \in Pairs, NEW price \in Prices,
           StartCreatePricing(t, p, price)
    PROVE  IInv'
<1> DEFINE r == [Idle EXCEPT !.step = "service", !.goal = "create", !.pair = p,
                             !.new = [state |-> "active", price |-> price]]
<1>1. request' = [request EXCEPT ![t] = r]
    BY DEF StartCreatePricing, Begin
<1>2. [state |-> "active", price |-> price] \in PricingRow
    BY DEF PricingRow, RowState
<1>3. r \in Request
    BY <1>2, IdleFact DEF Request
<1>4. RequestValid(r) /\ r.goal = "create" /\ \A s : Backed(r, s)
    BY DEF Idle, RequestValid, Backed, Activates
<1> HIDE DEF r
<1> QED
    BY <1>1, <1>3, <1>4, Others

LEMMA LoadPricingStep ==
    ASSUME IInv, Next, NEW t \in Threads, NEW p \in Pairs, NEW state \in RowState,
           NEW price \in Prices \cup {Null}, LoadPricing(t, p, state, price)
    PROVE  IInv'
<1> DEFINE old == pricing[p]
           new == [state |-> IF state = "none" THEN old.state ELSE state,
                   price |-> IF price = Null THEN old.price ELSE price]
           step == FirstCheck(old, state)
           r == [Idle EXCEPT !.step = step, !.goal = "update", !.pair = p, !.old = old,
                             !.new = new]
<1>1. request' = [request EXCEPT ![t] = r] /\ old # NoPricing
    BY DEF LoadPricing, Begin
<1>2. old \in PricingRow /\ old.state # "none" /\ old.price \in Prices
    BY <1>1 DEF IInv, TypeOK, RowsValid, RowValid
<1>3. new \in PricingRow /\ new.state # "none" /\ new.price \in Prices
    BY <1>2, CatalogueAssumption DEF PricingRow, RowState
<1>4. /\ step \in {"service", "commit"}
      /\ step = "commit" /\ new.state = "active" => old.state = "active"
    BY DEF FirstCheck
<1> HIDE DEF old, new, step
<1>5. r \in Request
    BY <1>2, <1>3, <1>4, IdleFact DEF Request
<1>6. RequestValid(r) /\ r.goal = "update" /\ r.pair = p /\ \A s : Backed(r, s)
    BY <1>2, <1>3, <1>4 DEF Idle, RequestValid, Backed, Activates
<1>7. pricing[p] # NoPricing
    BY <1>1 DEF old
<1> HIDE DEF r
<1> QED
    BY <1>1, <1>5, <1>6, <1>7, Others

LEMMA StartOrderStep ==
    ASSUME IInv, Next, NEW t \in Threads, StartOrder(t)
    PROVE  IInv'
<1> DEFINE r == [Idle EXCEPT !.step = "commit", !.goal = "order", !.home = home]
<1>1. request' = [request EXCEPT ![t] = r] /\ request'[t] = r /\ request[t] = Idle
      /\ home' = home /\ home \in Versions \cup {Null}
    BY DEF StartOrder, Begin, rows, IInv, TypeOK
<1>2. r \in Request
    BY <1>1, IdleFact DEF Request
<1>3. /\ RequestValid(r) /\ r.goal = "order" /\ r.step = "commit" /\ r.home = home
      /\ r.priced = <<>> /\ r # Idle
    BY DEF Idle, RequestValid
<1> HIDE DEF r
<1>4. home \in seen'[t].homes
    BY <1>1, <1>3, SeenStep
<1>5. Backed(r, seen'[t])
    BY <1>3, <1>4 DEF Backed, Activates
<1> QED
    BY <1>1, <1>2, <1>3, <1>5, Others

\* A number that is taken makes the session forget the address.
LEMMA NumberCollidesStep ==
    ASSUME IInv, Next, NEW t \in Threads, NEW n \in Numbers, NumberCollides(t, n)
    PROVE  IInv'
<1>1. CASE ~(request[t].tries + 1 < MaxTries)
    BY <1>1, Ends DEF NumberCollides
<1>2. CASE request[t].tries + 1 < MaxTries
    <2> DEFINE r == request[t]
               tries == r.tries + 1
               q == [r EXCEPT !.step = "retry", !.home = Null, !.tries = tries]
    <2>1. r \in Request /\ RequestValid(r) /\ r.goal = "order" /\ Backed(r, seen[t])
        BY DEF IInv, TypeOK, RequestsValid, RequestsBacked, NumberCollides
    <2>2. request' = [request EXCEPT ![t] = q] /\ request'[t] = q
        BY <1>2 DEF NumberCollides, IInv, TypeOK
    <2>3. tries \in 0 .. MaxTries - 1
        BY <1>2, <2>1, CatalogueAssumption DEF Request
    <2> HIDE DEF tries
    <2>4. /\ q \in Request /\ q # Idle /\ q.step = "retry" /\ q.goal = "order"
          /\ q.priced = r.priced /\ q.home = Null
        BY <2>1, <2>3 DEF Request, Idle
    <2> HIDE DEF q
    <2>5. seen[t].open \subseteq seen'[t].open /\ seen[t].lines \subseteq seen'[t].lines
        BY <2>2, <2>4, SeenStep
    <2>6. Backed(q, seen'[t])
        BY <2>1, <2>4, <2>5 DEF Backed
    <2>7. RequestValid(q)
        BY <2>4 DEF RequestValid
    <2> QED
        BY <2>2, <2>4, <2>6, <2>7, Others
<1> QED
    BY <1>1, <1>2

LEMMA ReadAddressAgainStep ==
    ASSUME IInv, Next, NEW t \in Threads, ReadAddressAgain(t)
    PROVE  IInv'
<1>1. CASE home = Null
    BY <1>1, Ends DEF ReadAddressAgain
<1>2. CASE home # Null
    <2> DEFINE r == request[t]
               q == [r EXCEPT !.step = "number", !.home = home]
    <2>1. /\ r \in Request /\ RequestValid(r) /\ Backed(r, seen[t]) /\ r.step = "retry"
          /\ home' = home /\ home \in Versions \cup {Null}
          /\ r.goal = "order"
        BY DEF IInv, TypeOK, RequestsValid, RequestsBacked, ReadAddressAgain, rows, RequestValid
    <2>2. request' = [request EXCEPT ![t] = q] /\ request'[t] = q
        BY <1>2 DEF ReadAddressAgain, IInv, TypeOK
    <2>3. /\ q \in Request /\ q # Idle /\ q.step = "number" /\ q.goal = "order"
          /\ q.priced = r.priced /\ q.home = home
        BY <2>1 DEF Request, Idle
    <2> HIDE DEF q
    <2>4. seen[t].open \subseteq seen'[t].open /\ seen[t].lines \subseteq seen'[t].lines
          /\ home \in seen'[t].homes
        BY <2>1, <2>2, <2>3, SeenStep
    <2>5. Backed(q, seen'[t])
        BY <2>1, <2>3, <2>4 DEF Backed
    <2>6. RequestValid(q)
        BY <2>3 DEF RequestValid
    <2> QED
        BY <2>2, <2>3, <2>5, <2>6, Others
<1> QED
    BY <1>1, <1>2

-----------------------------------------------------------------------------
(***************************************************************************)
(* The theorems.                                                           *)
(***************************************************************************)
LEMMA InvInit == Init => IInv
<1> SUFFICES ASSUME Init PROVE IInv
    OBVIOUS
<1>1. TypeOK
    <2>1. NoPricing \in PricingRow
        BY DEF NoPricing, PricingRow, RowState
    <2> QED
        BY <2>1, IdleFact DEF Init, TypeOK, RowState, NothingSeen
<1>2. RowsValid
    BY DEF Init, RowsValid, RowValid
<1>3. RequestsValid
    BY IdleFact DEF Init, RequestsValid, Idle
<1>4. RequestsBacked
    BY IdleFact DEF Init, RequestsBacked
<1> QED
    BY <1>1, <1>2, <1>3, <1>4 DEF IInv

LEMMA InvStep ==
    ASSUME IInv, [Next]_vars
    PROVE  IInv'
<1>1. CASE UNCHANGED vars
    BY <1>1 DEF vars, rows, IInv, TypeOK, RowsValid, RequestsValid, RequestsBacked
<1>2. ASSUME Next, NEW t \in Threads, ThreadStep(t)
      PROVE  IInv'
    <2>1. InsertPricing(t) \/ UpdatePricing(t) \/ Abort(t)
             \/ (\E n \in Numbers : InsertOrder(t, n)) => Finish(t)
        BY DEF InsertPricing, UpdatePricing, Abort, InsertOrder
    <2>2. (\E x \in Types : CreateType(t, x) \/ \E s \in {"inactive", "active"} :
             UpdateType(t, x, s)) => UNCHANGED request
        BY DEF CreateType, UpdateType
    <2> QED
        BY <1>2, <2>1, <2>2, Ends, Waits, StartCreatePricingStep, LoadPricingStep,
           StartOrderStep, NextLineStep, ReadServiceStep, ReadItemStep, ReadUniqueStep,
           ReadPriceStep, NumberCollidesStep, ReadAddressAgainStep
           DEF ThreadStep
<1>3. ASSUME Next, (\E v \in Versions : EditAddress(v)) \/ DeleteAddress
      PROVE  IInv'
    BY <1>3, Waits DEF EditAddress, DeleteAddress
<1> QED
    BY <1>1, <1>2, <1>3 DEF Next

\* The invariant holds however the requests and the catalogue interleave.
THEOREM Invariance == Spec => []IInv
BY InvInit, InvStep, PTL DEF Spec

\* The rows of the catalogue and the requests stay well formed.
THEOREM TypeCorrect == Spec => []TypeOK
<1>1. IInv => TypeOK
    BY DEF IInv
<1> QED
    BY <1>1, Invariance, PTL

\* Every line of every order, of whatever length, carries a price that was
\* asked while the order was made, although create_order reads the rows one
\* by one and remembers those of the line before.
THEOREM LinesCorrect == Spec => []LinesWereOffered
<1>1. IInv => LinesWereOffered
    BY DEF IInv, RequestsBacked, Backed, LinesWereOffered
<1> QED
    BY <1>1, Invariance, PTL

\* However many numbers are taken, the address an order copies is not older
\* than the last of the rollbacks (create_order).
THEOREM AddressCorrect == Spec => []AddressIsRecent
<1>1. IInv => AddressIsRecent
    BY DEF IInv, RequestsBacked, Backed, AddressIsRecent
<1> QED
    BY <1>1, Invariance, PTL

\* Nothing but a request that found both types active makes a price active
\* (create_service_pricing, update_service_pricing).
THEOREM ActivationCorrect == Spec => ActivationWitnessed
<1>1. ASSUME IInv, [Next]_vars, NEW p \in Pairs,
             pricing[p].state # "active", pricing'[p].state = "active"
      PROVE  \E t \in Threads : /\ request[t].pair = p
                                /\ p[1] \in seen[t].open
                                /\ p[2] \in seen[t].open
    <2>1. ASSUME NEW t \in Threads, request[t].pair = p, request[t].step = "commit",
                 Activates(request[t])
          PROVE  p[1] \in seen[t].open /\ p[2] \in seen[t].open
        BY <1>1, <2>1 DEF IInv, RequestsBacked, Backed
    <2>2. ASSUME NEW t \in Threads, InsertPricing(t)
          PROVE  request[t].pair = p /\ request[t].step = "commit" /\ Activates(request[t])
        BY <1>1, <2>2 DEF InsertPricing, Activates, IInv, TypeOK
    <2>3. ASSUME NEW t \in Threads, UpdatePricing(t)
          PROVE  request[t].pair = p /\ request[t].step = "commit" /\ Activates(request[t])
        <3> DEFINE r == request[t]
        <3>1. r.pair \in Pairs /\ r.goal = "update" /\ r.step = "commit"
            BY <1>1, <2>3 DEF UpdatePricing, IInv, RequestsValid, RequestValid
        <3>2. r.pair = p
            BY <1>1, <2>3, <3>1 DEF UpdatePricing, IInv, TypeOK
        <3>3. pricing'[p].state = IF r.new.state = r.old.state THEN pricing[p].state
                                                               ELSE r.new.state
            BY <1>1, <2>3, <3>1, <3>2 DEF UpdatePricing, IInv, TypeOK, PricingRow
        <3> QED
            BY <1>1, <3>1, <3>2, <3>3 DEF Activates
    <2>4. \E t \in Threads : InsertPricing(t) \/ UpdatePricing(t)
        BY <1>1 DEF Next, ThreadStep, CreateType, UpdateType, StartCreatePricing, LoadPricing,
                    StartOrder, NextLine, ReadService, ReadItem, ReadUnique, ReadPrice,
                    InsertOrder, NumberCollides, ReadAddressAgain, Abort, EditAddress,
                    DeleteAddress, rows, vars
    <2> QED
        BY <2>1, <2>2, <2>3, <2>4
<1>2. IInv /\ [Next]_vars => [\A p \in Pairs :
          pricing[p].state # "active" /\ pricing'[p].state = "active" =>
              \E t \in Threads :
                  /\ request[t].pair = p
                  /\ p[1] \in seen[t].open
                  /\ p[2] \in seen[t].open]_vars
    BY <1>1
<1> QED
    BY <1>2, Invariance, PTL DEF Spec, ActivationWitnessed
=============================================================================
