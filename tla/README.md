# Laundry service backend: TLA+ models and proofs

This directory verifies the backend of the laundry service (`app/`): what its requests do to the
database when they overlap, fail half-way or arrive late. It holds TLA+ modules that model the
services and repositories, TLC instances that check them, and TLAPS proofs of the properties that
matter most. `PROJECT.json` lists components, runs, mutants, the source lines behind each
definition, hazards, findings and theorems; this file explains them.

    tlc -workers 2 -config desk_races.cfg MCDesk        # a run: configuration and module
    tlapm OrderDesk_proofs.tla                          # the proofs of a module

Paths below are relative to `src/`.

## 1. The system

A FastAPI application, served by one uvicorn process (`start.sh`, `Dockerfile`), in layers: a
router opens a database session for the request (`get_db`) and calls a service, the service calls
repositories, and a repository commits. State lives in PostgreSQL only; the server keeps none
between requests. Three facts shape every model:

* **Many requests run at once.** Endpoints declared with `def` run on a pool of threads. The one
  endpoint declared with `async def`, the Razorpay webhook, runs on the event loop and has no
  `await` after reading its body: webhooks overlap ordinary requests, never each other.
* **Nothing read is locked.** The isolation level is PostgreSQL's default, READ COMMITTED, and no
  query says `FOR UPDATE`. What a service decides on may be stale when its repository commits.
* **Requests die.** A failing database, provider or process ends a request between two commits;
  the session is closed and what was not committed is lost.

| Component | State | Operations | Modelled in |
|---|---|---|---|
| Workflow tables (`core/workflow.py`) | none | valid transitions, who may make them | `OrderWorkflow` |
| Order desk (`order_service`, `order_repo`, delivery router) | orders, audit trail | place, change status, claim pickup or delivery, collect cash | `LaundryData`, `OrderDesk` |
| Online payments (`payment_service`, `razorpay_webhook_handlers`, `razorpay_service`) | payments | checkout, verify, webhook | `OnlinePayment`, composed in `Laundry` |
| Addresses (`address_service`, `address_repo`) | addresses | create, update, delete, default | `Addresses` |
| Verification codes (`verification_service`, `verification_repo`) | one-time codes | send, resend, verify, clean up | `Verification` |
| Sign-in sessions (`auth_service`, `auth_session_repo`) | sessions, passwords | login, refresh, logout, logout-all, change and reset the password, clean up | `AuthSessions` |
| Accounts (`auth_service`, `user_repo`) | users, their codes | sign up, verify and change the e-mail address | `Accounts`, over `AccountRegistry` |
| Catalogue and pricing (three services), the lines and the number of an order | types, prices, numbers, the address an order copies | create, activate, price; price an order and place it | `Catalogue` |
| Order queries (`order_repo`, delivery and operations routers) | none | lists, page by page | not modelled (section 8) |
| E-mail provider | none | hand over a mail, or fail | steps of `Verification` |
| Connection pool and threads | pool | | not modelled (section 8) |
| Schemas, wiring, migrations, deployment | none of their own | | not modelled (section 8) |

How they interact: orders and payments share rows and gates (an online order is picked up only
when paid, a cash order delivered only when collected); Razorpay calls in by webhook and is called
by checkout and verification; a code decides whether a password is reset, and the sessions are revoked
after it; the catalogue is read, row by row, while an
order is priced; the codes also verify an address and move an account to another. Everything else that two components share is the database itself.

What is hard, and what therefore must be right:

* *Status changes* are judged by a status read earlier and written by id. Properties: the column
  and the audit trail agree, every recorded status has a permitted origin, custody and gates
  survive the overlap.
* *Claims and cash* are guarded `UPDATE ... WHERE` statements. Properties: a claim is never taken
  over, cash never uncollected, the reply to a lost race is true.
* *Online payments* hold what they read over a call of Razorpay, while webhooks come repeated, late
  and in any order. Properties: PAID only with captured money of the right order; a capture
  settles; final means final (which fails, section 6), until a commit writes from a stale read.
* *Addresses* count and clear defaults without a lock on the book. Properties: how far the limit and
  the single default can be exceeded, and that deadlocks resolve.
* *Codes* are compared in one transaction, marked in the next, and acted on in a third. Properties:
  how often one code can take effect, how many are active, that the attempts stay limited.
* *Sessions* are rotated and revoked by id after a read. Properties: tokens never come back, a
  revoked session stays revoked, a superseded password does not linger.
* *Accounts* are checked with two SELECTs and decided by unique constraints; a code takes effect one
  transaction after it was used up, on an account that may have changed. Properties: one account per
  address and number, nobody is verified or moved without a code from that address, refusals are true.
* *Prices* are read row by row. Property: nobody is charged a price that was never on the list.
* *Order numbers* are random and may collide; each collision rolls the session back, and what it knew
  is read again. Property: the address that is copied is not older than the last collision.

## 2. Modules

One module per component; `MC*` modules hold the symmetry sets and views of its instances. A
request is a sequence of steps of the thread that serves it, one step per database access or
external call; a variable (`desk`, `pay`, `request`) maps each thread to what it carries from one
step to the next, including the values it has read. A step's guard is the code's condition, an
early return is `Finish`, a failure is an `Abort` action that is possible between any two steps.
Requests that are refused before they have changed anything are actions only where they free a
thread. Definitions marked *Mutant* are used nowhere in the models: each is a definition with a
plausible mistake that some property must notice.

* `OrderWorkflow` - the two tables as relations. `AgentOwnershipTransitions` and
  `TransitionPermissions` are read off the dictionaries of `core/workflow.py`.
* `LaundryData` - rows of orders, payments and the audit trail; `CreateOrder`, one commit.
  Legacy orders, placed before the migration that added payments, have no payment row and start in
  their first status.
* `OrderDesk` - PATCH `/orders/{id}/status` (`LoadOrderForUpdate`, `CheckPaymentGate`,
  `CommitStatus`), the claims (one action each), and the collection of cash (`LoadOrderForCollect`
  to `ReportCollected`). Online payments appear as the environment action `OnlineSettlement`.
* `OnlinePayment` - checkout, verification, webhook, each read / call / write, and Razorpay as far as
  the code relies on it: an order takes any number of attempts, at most one captured; webhooks are
  repeated until acknowledged, may be duplicated and overtake each other. `NetWrite` is what
  SQLAlchemy does at a flush: a column is written only if the assigned value differs from the one
  read, so two requests can leave a row that neither of them wrote.
* `Laundry` - both on one database and one pool of threads, by `INSTANCE`. `contested` is a history
  variable, see below.
* `OrderLifecycle` - the abstract specification: an order walks along valid transitions, payment is
  settled once, the gates hold; `Contest` ends the promise for one order. `Laundry!LifecycleContract`
  is the refinement, with the status column as the stage, or `"CONTESTED"`, and `payment_status = PAID`
  as settled.
* `Addresses` - the statements of one transaction: count, clear (row by row, with the row locks and
  the re-check that PostgreSQL makes after a wait), insert or write, commit. The rows of an id are
  used once; which unused id an INSERT takes is immaterial.
* `Verification` - the transactions of send, resend and verify. An OTP is identified with the code
  it belongs to, that is, two codes never happen to have the same six digits; `WrongOtp` is the OTP
  of none. `age` stands for the cooldown and the expiry, `deleted` marks what the cleanup has taken: a
  request that still works on such a row fails there.
* `AuthSessions` - login, rotation, revocation, both ways to a new password, and the two cleanups,
  which delete rows that other requests may still carry. `login`, `chosen`, `torn`, `issued` and
  `accepted` are history variables.
* `AccountRegistry` - the abstract specification of accounts: registering takes an address and a number
  nobody has, and verifying or moving takes a code that came back from the address.
* `Accounts` - sign-up, resend, change of the address and both confirmations, each SELECT and each
  commit a step. A code is kept by what accounts depend on: whom it was made for, and the address it
  was mailed to; a code made for an address that its user leaves, or that another user takes, stays.
  `Accounts!RegistryContract` is the refinement. `proven` and `held` are history variables: the
  addresses from which codes came back, and what others held while a sign-up ran.
* `Catalogue` - catalogue requests, the pricing of an order and its creation, with the identity map of
  the session: a row read for the line before is not refreshed by the next line's query, and a
  rollback after a number collision forgets the address but not the prices, which are plain values
  by then. `seen` is a history variable: what was on offer, and what the address was, while the
  request ran.

Three more history variables state what becomes of promises that overlapping requests break:
`disturbed` (`Addresses`), the requests in progress that have met another one of their user; `counted`
(`Verification`), how many wrong OTPs were counted as the n-th failed attempt of each code; and
`contested` (`Laundry`), the orders with a row that was committed from a stale read. No action
depends on any of them.

An order becomes contested in one of two commits. `StaleStatus`: a status change is committed over
another status than the one whose transition was checked. `StalePayment`: a checkout, a verification
or a webhook changes something of the payment although its status or its payment id is no longer what the
request has read, or it names another Razorpay order than that of the attempt to be settled. These are
the commits that section 6 shows to do harm. Other overlaps are not excluded: requests for one order
interleave step by step, and of those that write what they concluded from columns that still say the same, or
write nothing, the order keeps its promises. `LifecycleContract`, `PaidNamesCapture`,
`AckedIsRecorded`, `LifecycleLegal`, `PaidIsFinal` and `NoUnpaidWork` are about the orders outside `contested`
in all executions of `Spec`; `WorkBackedByMoney` and `FreeOrdersStay` are about all orders.

### Order of work and what is left

The core was built first: workflow, desk, payments, their composition and the abstract life cycle,
then the components that do not touch orders, then accounts and order numbers, with the
proofs of each part after its runs, then the composition, and last what an order keeps until a commit
writes it from a stale read. What is left:

1. The profile name in `Accounts`, should anything ever depend on it.
2. A closed form for the number of guesses at a code: `GuessesBounded` is an inequality per attempt, whose
   sum over the attempts needs an induction over the limit.

## 3. Runs

Passing runs (`PROJECT.json` names all properties):

| Run | Instance | What it shows |
|---|---|---|
| `desk_races` | 1 order, customer, 2 agents, admin, 2 threads, 6 history rows | Whatever two overlapping requests do: provenance of the audit trail, custody, claims, cash, true replies. The only instance in which deadlock is checked: the desk can always go on. |
| `online_races` | 2 orders, 2 Razorpay orders, 2 attempts, 2 threads and webhooks, fair, reduced (see below) | Payment rows name only their own Razorpay objects; PAID means captured money, FAILED a failed attempt, of that order. No capture is acknowledged while the payment that names its Razorpay order is not PAID. A capture that Razorpay still reports settles the payment, unless a new checkout has replaced its Razorpay order. |
| `laundry_races` | desk and payments, 1 order, agent, staff, amounts 0 and 1, 2 threads and webhooks, 2 Razorpay orders, 2 attempts, 5 history rows | No laundry is taken in or delivered without money; an online order of amount 0 can only be cancelled. Until a commit from a stale read, an order implements `OrderLifecycle`, its audit trail follows both tables of `workflow.py`, a payment that is PAID names the captured attempt, and no acknowledged capture is lost. |
| `laundry_legacy` | 2 orders (1 legacy), admin, 1 thread and webhooks, 1 Razorpay order, 2 attempts, 5 history rows | The gates let the older order pass and not the other with it: money stands behind every order that has a payment, and both orders implement `OrderLifecycle`. |
| `address_races` | 3 ids, limit 2, 2 threads, fair | Limit and defaults exceeded by one at most; whatever was left behind, the next request that sets a default undisturbed leaves exactly one; every request ends although requests deadlock. |
| `code_races` | 3 codes, limit of 2 attempts, 2 threads | While a cleanup deletes rows: a code takes effect at most twice, two active codes at most, the counter stays within the limit, and the guesses are bounded although increments are lost. |
| `session_races` | 3 sessions, 4 tokens, 3 passwords, 2 threads | Tokens, revocations and superseded passwords, while the cleanups delete rows. |
| `account_races` | 2 users, 3 addresses, 2 phone numbers, 2 codes, 2 threads | The service implements `AccountRegistry`; a sign-up is refused only for an address or number that somebody else had while it ran. |
| `catalogue_races` | 1 pair of types, 2 prices, 2 versions of the address, 2 numbers, 3 tries, orders of up to 2 lines, 2 threads | Lines and activations are backed by what the request could see, the address by what it was since the last collision. |

Three runs end with a violation on purpose (section 6): `desk_overlap`, `late_failure`, `lost_capture`.

**Bounds stated in threads.** Many promises of this service hold for one request at a time and not
for two, as no lock or constraint backs them. The models state what does hold, as a bound in the
number of threads: with one thread it is the promise (`EffectsBounded`: a code takes effect once;
`ActiveBounded`: one active code; `LimitOvershoot`: at most `MAX_ADDRESSES_PER_USER`;
`DefaultsBounded`: a single default; `AcceptedBounded`: a refresh token is accepted once;
`StaleBounded`: no session of a superseded password; `GuessesBounded`: every wrong OTP counts). The runs
with two threads show that the damage does not grow with the length of the execution. The bounds are
reached, except that of `GuessesBounded`: for T threads it adds up to T + T^2 + ... up to the limit as
exponent, and is not claimed to be the smallest.

**Why the bounds are enough.** Two threads, since every read-then-write race needs two requests and
a third only repeats the second's part (the webhook is a third participant in the payment runs). One
order, key or user where nothing relates two of them; two orders where columns of one could name
objects of the other. Two Razorpay orders give one replaced checkout, two attempts a failure and a
capture in either order. Six history rows reach from the first status to a delivery by the shortest
path, with one stale overwrite. Three codes, four tokens, three passwords allow a replacement of a
replacement. Two users and three addresses let two users ask for one new address while a third party
signs up with an old one. Two prices of one pair are the smallest catalogue in which a price can be
replaced while an order is priced; two versions of an address and three tries let it change before
and after a collision. Bounds that cut behaviour off are in guards and marked *Bound* in the
modules (`MaxHistory`, `MaxLines`, the ids of `Addresses`, passwords that are never chosen twice) or
are the size of a set of ids.

`CHECK_DEADLOCK FALSE` is set where the pools of ids end (Razorpay orders, tokens, codes, addresses)
or where all orders may have ended (the other instances of orders): a real database always has another id. Symmetry is used for safety
only. In its place `online_races`, which checks liveness, uses the reduction `MCOnline!Reduced`: ids of
orders, Razorpay orders and attempts are taken in a fixed order, and orders are placed before anything
else happens. Both keep a representative of every behaviour, fair ones included: a permutation of ids
maps behaviours to behaviours and the properties to themselves, and placing an order commutes with every
step that is not about that order, without changing which actions of others are enabled.
`MCVerification` has a `VIEW` that drops of a dead code that nobody works on what nothing reads any more:
its age, whether it was deleted, its counter and the guesses at it, which cannot grow. The `VIEW` of
`laundry_races` and `laundry_legacy`, `WithoutOwners`, drops who has placed an order: their users are an agent
and a member of the staff, or an admin, and only what a customer may do depends on that. The order of
`laundry_legacy` that has a payment meets webhooks while a thread works; two threads on one order are in
`laundry_races`.

## 4. Fairness

Safety runs assume none. Two runs do:

* `OnlinePayment!FairSpec` (`MCOnline!ReducedFairSpec` in `online_races`): strong fairness of the delivery of each unacknowledged event, and of the
  commit of a webhook. Razorpay repeats an event until it gets a 200 (`payment_router.py` answers 500
  when processing fails for that purpose), and the event loop serves what arrives. No fairness
  for customers, browsers or agents.
* `Addresses!FairSpec`: strong fairness of the work of each thread, since PostgreSQL queues those who
  wait for a row lock and the operating system runs the threads; weak fairness of the deadlock
  detection, which PostgreSQL starts after `deadlock_timeout`. No fairness for the arrival of requests.

## 5. Proofs

The theorems hold for all users, orders, codes, addresses and threads, from the named
assumptions of the modules (types of the constants; finitely many threads where threads are
counted). Each is `Spec => []Inv`, or an action property or a refinement, from an inductive invariant whose
preservation is proved action by action.

**`OrderDesk_proofs`** (9 theorems). What the desk promises is about commits, and a commit acts on
what was read earlier; the invariant therefore carries what each request still knows. `IInv` is the
conjunction of the type invariant, `StatusIsLatest`, `Provenance`, `Custody`,
`DeliveredIsCollected`, `CollectedAtTheDoor` and `CollectReplyIsTrue` with three strengthenings:
`RequestsValid` (what a request has found out before its commit: that the transition it is about to
record is valid from a status the order had, that its agent is assigned, that the payment gate was
passed), `Unassigned` (nobody is assigned to an order that does not exist) and `CashStatus` (the
payment of a cash order is PENDING or PAID). The argument that makes it inductive is the lemma
`Stability`: what a request has checked never becomes false again, as the audit trail only grows, an
assignment is never changed and collected cash stays. The status itself is *not* stable, which is
why `LifecycleLegal` fails and `Provenance` speaks of a status the order once had. `ClaimsKept` and
`CashStaysCollected` are action properties from the same invariant. `StatusIsLatest`
(the column is the last status committed) is a conjunct of the invariant only. `LegalStep` is a lemma for the composition: a
status change that replaces the status it was checked against extends a legal trail to a legal trail.

**`Addresses_proofs`** (5 theorems). `LimitOvershoot` is inductive together with the type invariant,
since it counts the requests that have found room along with the addresses: a request that begins
adds itself only below the limit, an INSERT moves one from the requests to the rows.
`DefaultsBounded` is not; the invariant says *why* there are so few defaults: `DefaultsSet` gives
each default a thread of its own (an injection `f`), such that a thread that is on its way to
another default clears its old one first (`WillClear`, which follows the running UPDATE through the
rows it has still to meet). When thread `t` commits a new default, the one that was its own is gone,
so `t` is free to be the owner of the new one. `RowsOwned`, that a request works on its own user's
rows, is needed for PATCH. `DefaultRepaired` is an action property: a request that has met no other one of its user leaves exactly
one default. Its invariant is `AloneKnows`, that such a request still knows its own row (`RowAsRead`) and
will have cleared every default there is by the time it writes. It is kept by the requests of *other*
users since they touch only their own rows (`ClearsOwn`), and a request of the same user would have been
noticed (`MeetingsNoticed`); `OwnRowKept`, that a PATCH never clears the row it is about, does the rest.

**`Verification_proofs`** (6 theorems). `EffectsBounded` needs `UnusedIsUntouched` (while a code is
unused, nobody has acted on it) and counts the requests that have accepted the code along with its
effects. `ActiveBounded` is argued as for defaults: `CodesOwned` gives each active code of a key a
thread that is not about to insert another. `AttemptsWithinLimit` rests on `RequestsValid`: the
number written is one more than the number read, and the number read was below the limit, so lost
increments can only make the counter too low. `GuessesBounded` says how many guesses that can add. A late
increment sets the counter back, so its invariant, `GuessesInHand`, does not follow the counter: it counts
the guesses that are in hand along with those that were counted, and says that while the counter stands at
n - 1 there is room for one n-th attempt of every thread, since each write of n - 1 adds a chance and
nobody has counted an n-th attempt in between. `FreshUncounted`: a code that was not inserted
has no failed attempts.

**`OnlinePayment_proofs`** (5 theorems). A request of payments acts on what it read before a call of
Razorpay, so the invariant says what it still knows after it. `RequestsValid`: the Razorpay order it will
store has the order as its receipt; the attempt it carries was made for a Razorpay order of that order;
and the outcome it will write, `PAID` or `FAILED`, is the state that Razorpay told of that attempt. The
lemma `Monotone` is what keeps this true while it waits: a receipt, once given, the Razorpay order of an
attempt, and a final state of an attempt never change. With it `ReceiptsMatch` and `SettlementBacked` are
inductive, whatever stale status the commit overwrites. `AckCorrect` is the action property
`AckRecordsCapture`. The webhook has found the payment by its Razorpay order and its commit names the row by
id; `RequestsValid` and `ReceiptsMatch` say that it is still the only payment that can name this Razorpay order. The commit
writes PAID, whatever the row holds by then, because no request has loaded a payment that was PAID
(`SeenUnpaid`), so SQLAlchemy sees a change; a webhook that is acknowledged without a commit found PAID,
as no code refunds anything (`NeverRefunded`). `CheckoutsFresh` (nobody pays for a Razorpay order before its
checkout has stored it, and each checkout has its own) and `AckedFinal` (only outcomes are reported) are there for the
proofs of `Laundry`. `OnlineAssumption`: `Null` is none of the ids.

**`AuthSessions_proofs`** (5 theorems). `TokensOwned`: a token is issued once and to one session, and
once accepted it is on record nowhere; a refresh that has looked its token up carries one that can be on
record for its own session only. `AcceptedBounded` counts, along with the acceptances, the requests that are about to rotate with
the token. `StaleBounded` is not inductive, since it speaks of live sessions and a refresh under way
renews one that has expired; `LingeringBounded` counts expired sessions too, and the logins that have
compared a superseded password. `RevokedForGood` is an action property: no action clears `revoked`, and
the row of a deleted session is not used again.

**`Accounts_proofs`** (7 theorems, two of them about `AccountRegistry`). For the abstract
registry: no two accounts share an address or a number (`OneAccountEach`), and who is verified has
proven the address he has (`VerifiedIsProven`). `RegistryCorrect` proves that `Accounts` implements it,
step by step, and `AccountsCorrect` carries the two theorems over. The refinement needs to know that a
code that takes effect late still may: `CodesBacked` says of each active code that its user exists and
is verified or still has the address it was mailed to, which stays true as accounts are never
unverified and an unverified one never moves; `RequestsValid` says the same of the codes in the hands
of requests, and that those which will act have proven their address. `RefusalsAreTrue` follows from `Witnessed`: what the
constraint finds taken at the INSERT is among what others held while the sign-up ran.

**`Catalogue_proofs`** (5 theorems). `RequestsBacked`: what a request has found out, a price, a pair of open
types, an address, is among what it could have seen while it ran, and each line of an order it has
placed is the copy of such a find. The history variable only grows, except that a number collision
empties it of addresses along with the one the request had read, so what was backed stays backed.
`LinesWereOffered`, `ActivationWitnessed` and `AddressIsRecent` are then read off at the commit.
`CatalogueAssumption`: prices and the two bounds are natural numbers, an order is tried at least once,
services and item types are different things, and `Null` is none of the ids, prices and versions.

**`Laundry_proofs`** (10 theorems). A step of the whole is a step of `OrderDesk` or of `OnlinePayment` and leaves
the variables of the other alone, up to the rows they share; so the invariants of both hold together,
and `IInv` adds what relates them: only online orders are paid for at Razorpay (`OnlineOnly`), only
legacy orders have no payment (`LegacyOnly`), laundry in hand was picked up (`TakenIn`), an online order that was
picked up, or is about to be, has a capture behind it (`PickedUpBacked`, `PickupsBacked`), and Razorpay is asked only
for amounts above zero (`Priced`). `DeskRefined`: the payments do to the desk what `OnlineSettlement`
allows and no more, so all theorems of `OrderDesk_proofs` hold of the composed service. `MoneyCorrect` and
`FreeCorrect` say the same of `WorkBackedByMoney` and `FreeOrdersStay`.

The other six are about orders that are not contested, in every execution of `Spec`: no theorem assumes
that requests are kept apart, or a number of threads. The step that the argument turns on is the commit, and
the lemmas for it are `CommitsFresh`, a status change after which the order is not contested replaces the status
it was checked against, and `Paying`, a commit of the payments after which it is not contested has changed nothing or has found status,
payment id and Razorpay order as its request had read them (`Fresh`). Such a commit is as good as one step
of a single request, and what it writes can be compared with the row it replaces. What a request
has read of the *other* row, before its commit, needs an invariant. `Uncontested` says of each order that is not
contested: the payment gate that a status change on its way to a pickup has passed is still open
(`GatesHold`, kept since a payment that is PAID is taken back only from a stale read: `PaidStays`); the order whose cash is about to be recorded is still
out for delivery or its cash is in already (`CollectsHold`: only the delivery leads out of that stage, through
a gate that is shut until then); PAID names the captured attempt, every acknowledged capture is on
record, and the trail is legal. From it follow `LifecycleRefined` (the service implements `OrderLifecycle`, a commit from a stale
read being `Contest`), `PaidFinal`, `NamesCorrect`, `AckedCorrect` and `AuditCorrect` (the desk's
`LifecycleLegal`, roles included, of the whole service). `PaidWork` adds, from `LifecycleRefined` and an
invariant of the abstract specification, that every online order in hand is PAID and every delivered
order settled. None of the six holds of contested orders (section 6): two
requests for one order are enough. `LaundryAssumption`: the bound `MaxHistory` is a natural number, and
`Null` is no id.

`CashCorrect` (`CashStaysCollected`), `CollectedCorrect` (`CollectedAtTheDoor`), `DeskRefined`
(`DeskContract`), `PaidFinal` (`PaidIsFinal`) and `PaidWork` (`NoUnpaidWork`) are proved and in no run: each is
local to a step, implied by another property of its run, or part of the argument for one.

Only model-checked: liveness (`CaptureSettles`, `RequestsEnd`) and everything under fairness, which is
beyond the prover.

## 6. Where the code and its documents disagree

* **Overlapping status changes** (`desk_overlap`, `LifecycleLegal`). `core/workflow.py:54-56` says of
  the transition and the permission table "Both checks must pass". Both are made against the status that was
  read; `update_order_status` then assigns the new one and commits (`order_service.py:255-264`), an
  UPDATE by primary key. Two overlapping requests record a transition
  that no table has: a cancelled order is picked up, or an order picked up is cancelled by its customer.
  `Provenance` states what remains true, and `Laundry!LifecycleLegal` how long the tables are followed.
* **A late failure** (`late_failure`, `FailureNeverDowngrades`). "A failed attempt must never downgrade
  a payment that's already PAID" (`razorpay_webhook_handlers.py:70-72`). The webhook obeys;
  `verify_payment` writes FAILED over a PAID that was committed during its call of Razorpay.
* **A lost capture** (`lost_capture`, `WebhookFinalizes`). `verify_payment` leaves an authorized
  payment PENDING: "the webhook will finalize once captured" (`payment_service.py:157-159`). A
  checkout started meanwhile replaces the Razorpay order; the webhook of the first then finds no
  payment and is acknowledged. The money stays captured, the order unpaid.

Of the same nature, covered by the bounds above rather than by a run of their own: the address
limit is exceeded by overlapping creations (`address_service.py:27-30`) and two requests that set a
default leave two, or a deletion in between leaves none, until the next undisturbed one repairs it; a checkout that read FAILED reopens a
payment that became PAID meanwhile (`payment_service.py:69`, against `payment_router.py:33-34`), while one
that read PENDING leaves the status alone, as SQLAlchemy writes no column that keeps its value (`NetWrite`;
`PaidIsFinal` holds until a commit from a stale read); two refreshes with one token are both accepted (`auth_service.py:291`,
against `tests/test_auth.py:460`); a login that read the old password opens a session after the
revocations of a password change (`auth_service.py:423`); a price is activated while its type is
deactivated (`service_pricing_service.py:111-115`).

Four more were met in reading, and are about wording rather than interleavings. `confirm_change_email`
is documented as updating the authenticated user's address (`auth_router.py:214`), but the code is looked
up by the new address alone and moves the user it was made for (`auth_service.py:252-272`); `Accounts`
models it so, and the registry only promises that the address was proven on behalf of the user who
moves. `create_user` tells which constraint failed by searching the text of the error, which quotes the
value: an e-mail address that contains "phone" is reported as a phone number (`user_repo.py:33-38`);
`RefusalsAreTrue` is about refusals as such, not about that wording. GET `/auth/sessions`, "Return the
current user's active authentication sessions" (`auth_router.py:280`), returns the ten used last
(`auth_session_repo.py:56-68`), with no way to ask for the others. GET `/orders/`, "Get all orders for the authenticated user" (`order_router.py:44`), comes
in pages of `OFFSET` and `LIMIT` without `ORDER BY` (`order_repo.py:50-57`): a row that is written between
two pages moves, and another that was there all the time may be on neither.

## 7. Reading the models against the code

`PROJECT.json` maps each definition to its lines. A few correspondences are less direct:

* Only committed rows are variables. A session's pending changes are in the request until its commit;
  the row locks that `Addresses` needs are in `lock`.
* A `refresh` or a re-read for the reply is a step of its own only where the reply is the subject of a
  property (`ReportCollected`).
* Authentication is a guard on the role (`AgentOrAdmin`, `Permitted`): `RoleOf` is constant, since
  no endpoint changes a role.
* The signature checks of Razorpay are modelled by what they establish: the browser presents an
  attempt that Razorpay signed (`Presentable`), and webhooks are Razorpay's.
* The place of a row in `history[o]` is the order of the commits, which the table does not record. A row of
  `order_status_history` has only `created_at = now()`, the start of its transaction
  (`app/models/base.py:10`), and `Order.status_history` (`app/models/order.py:149`) has no `order_by`: for
  overlapping requests the row with the latest time may be of the request that committed first. No code
  decides on that order; `Provenance` and `LifecycleLegal` speak of the order of commits.
* `Work` and `Serve` group actions by what starts a request and what continues one.

## 8. Not modelled

* The pool of 15 connections and the 40 threads. That a request can wait for a connection while others
  wait for a thread depends on how FastAPI resolves a dependency and in which thread SQLAlchemy checks a
  connection out; neither is in this code, and a model would describe the two libraries.
* Columns that nothing decides on: names, descriptions, the full name that PATCH `/users/me` writes, the
  text of addresses.
* Lists and reads of one row: a query each, which changes nothing and on which nothing is decided.
* The layout of requests and answers (the models take only input that passes validation); logging,
  settings, exception handlers, health; e-mail templates; the migrations, which run once, alone; access
  tokens, which are not looked up; refunds, which no code performs.

The hazards without a property in `PROJECT.json` say why: they are consequences that no document of the
service speaks of (a lost answer to a refresh, two captured Razorpay orders for one payment), or, for
the pool, decided outside this code.
