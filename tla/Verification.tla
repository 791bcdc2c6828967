---------------------------- MODULE Verification ----------------------------
(***************************************************************************)
(* The one-time codes that confirm an e-mail address, a new e-mail address *)
(* or a password reset (VerificationService and its repository).  A key is *)
(* what get_active_verification filters by: an identifier and a purpose.   *)
(*                                                                         *)
(* Sending and verifying are sequences of transactions, each committed on  *)
(* its own: a code is invalidated, another is inserted, it is mailed; a    *)
(* code is marked as used, then the caller does what the code was for.     *)
(* Between them other requests run, and the process may die.               *)
(***************************************************************************)
EXTENDS Naturals, FiniteSets

CONSTANTS
    Keys,                    \* the pairs of an identifier and a purpose
    Codes,                   \* ids of verifications; each has its own OTP
    Threads,                 \* the threads that serve requests
    OTP_MAX_FAILED_ATTEMPTS,
    WrongOtp,                \* an OTP that is the one of no verification
    Null                     \* SQL NULL

ASSUME VerificationAssumption ==
    /\ OTP_MAX_FAILED_ATTEMPTS \in Nat \ {0}
    /\ Null \notin Keys \cup Codes
    /\ WrongOtp \notin Codes
    /\ IsFiniteSet(Threads)

VARIABLES
    code,     \* code[v] is the row of verification v
    mailed,   \* the codes whose e-mail was handed to the provider
    counted,  \* counted[v][n] is the number of wrong OTPs that were counted
              \* as the n-th failed attempt at v
    effects,  \* effects[v] counts the requests that acted on the OTP of v
    request   \* request[t] is what thread t carries between two steps

vars == <<code, mailed, counted, effects, request>>

(***************************************************************************)
(* age stands for created_at and expires_at: within the cooldown of a      *)
(* resend, after it, and past the expiry, which is later (60 seconds and   *)
(* 10 minutes in the settings).  deleted is no column: it marks a row that *)
(* is there no more, and whose id is not used again.                       *)
(***************************************************************************)
CodeRow ==
    [key             : Keys \cup {Null},
     failed_attempts : Nat,
     used            : BOOLEAN,
     invalidated     : BOOLEAN,
     age             : {"fresh", "cool", "expired"},
     deleted         : BOOLEAN]

NoCode == [key |-> Null, failed_attempts |-> 0, used |-> FALSE,
           invalidated |-> FALSE, age |-> "fresh", deleted |-> FALSE]

\* Mutant: the row is inserted with the id of another column.
NewCode_KeyOf(k, v) == [NoCode EXCEPT !.key = v]

NewCode(k, v) == [NoCode EXCEPT !.key = k]

\* seen is the number of failed attempts when the row was read.
Request ==
    [step : {"idle", "send", "invalidate", "insert", "mail",
             "count", "recount", "retire", "use", "effect"},
     key  : Keys \cup {Null},
     code : Codes \cup {Null},
     seen : Nat]

Idle == [step |-> "idle", key |-> Null, code |-> Null, seen |-> 0]

TypeOK ==
    /\ code \in [Codes -> CodeRow]
    /\ mailed \subseteq Codes
    /\ counted \in [Codes -> [1..OTP_MAX_FAILED_ATTEMPTS -> Nat]]
    /\ effects \in [Codes -> Nat]
    /\ request \in [Threads -> Request]

Init ==
    /\ code = [v \in Codes |-> NoCode]
    /\ mailed = {}
    /\ counted = [v \in Codes |-> [n \in 1..OTP_MAX_FAILED_ATTEMPTS |-> 0]]
    /\ effects = [v \in Codes |-> 0]
    /\ request = [t \in Threads |-> Idle]

Begin(t, r) == request[t] = Idle /\ request' = [request EXCEPT ![t] = r]

Continue(t, step) == request' = [request EXCEPT ![t].step = step]
Finish(t)         == request' = [request EXCEPT ![t] = Idle]

\* get_active_verification takes any one of these.
ActiveCodes(k) ==
    {v \in Codes :
        /\ code[v].key = k
        /\ ~code[v].used
        /\ ~code[v].invalidated
        /\ code[v].age # "expired"}

-----------------------------------------------------------------------------
(***************************************************************************)
(* send_verification and resend.                                           *)
(***************************************************************************)
StartSend(t, k) ==
    /\ Begin(t, [Idle EXCEPT !.step = "send", !.key = k])
    /\ UNCHANGED <<code, mailed, counted, effects>>

\* A resend is refused while the code that was found is in its cooldown.
StartResend(t, k) ==
    /\ ActiveCodes(k) = {} \/ \E v \in ActiveCodes(k) : code[v].age # "fresh"
    /\ StartSend(t, k)

ReadActive(t) ==
    /\ request[t].step = "send"
    /\ Continue(t, IF ActiveCodes(request[t].key) = {} THEN "insert"
                                                       ELSE "invalidate")
    /\ UNCHANGED <<code, mailed, counted, effects>>

\* Mutant: nothing is invalidated.
Replaced_None(k) == {}

Replaced(k) == ActiveCodes(k)

\* One UPDATE invalidates every code that is active by now.
InvalidateActive(t) ==
    /\ request[t].step = "invalidate"
    /\ code' = [v \in Codes |-> IF v \in Replaced(request[t].key)
                                THEN [code[v] EXCEPT !.invalidated = TRUE]
                                ELSE code[v]]
    /\ Continue(t, "insert")
    /\ UNCHANGED <<mailed, counted, effects>>

CreateVerification(t, v) ==
    /\ request[t].step = "insert"
    /\ code[v].key = Null
    /\ code' = [code EXCEPT ![v] = NewCode(request[t].key, v)]
    /\ request' = [request EXCEPT ![t].step = "mail", ![t].code = v]
    /\ UNCHANGED <<mailed, counted, effects>>

SendEmail(t) ==
    /\ request[t].step = "mail"
    /\ mailed' = mailed \cup {request[t].code}
    /\ Finish(t)
    /\ UNCHANGED <<code, counted, effects>>

-----------------------------------------------------------------------------
(***************************************************************************)
(* verify.                                                                 *)
(***************************************************************************)

\* Mutant: the limit is compared with the wrong side.
Exhausted_Late(attempts) == attempts > OTP_MAX_FAILED_ATTEMPTS

Exhausted(attempts) == attempts >= OTP_MAX_FAILED_ATTEMPTS

\* Some active code v is read and the OTP of code p, or a wrong one, is
\* compared with it.
LoadForVerify(t, k, v, p) ==
    LET attempts == code[v].failed_attempts
        step == IF Exhausted(attempts) THEN "retire"
                ELSE IF p = v THEN "use" ELSE "count"
    IN
    /\ v \in ActiveCodes(k)
    /\ Begin(t, [step |-> step, key |-> k, code |-> v, seen |-> attempts])
    /\ UNCHANGED <<code, mailed, counted, effects>>

\* Mutant: the counter stays.
Incremented_Not(attempts) == attempts

Incremented(attempts) == attempts + 1

\* An UPDATE or a refresh by id finds the row.  If a cleanup has deleted it,
\* SQLAlchemy raises an error instead, and the request ends as by Abort.
StillThere(t) == ~code[request[t].code].deleted

\* The counter is incremented in Python, from the value that was read.
IncrementFailedAttempts(t) ==
    LET r == request[t] IN
    /\ r.step = "count"
    /\ StillThere(t)
    /\ code' = [code EXCEPT ![r.code].failed_attempts = Incremented(r.seen)]
    /\ counted' = [counted EXCEPT ![r.code][r.seen + 1] = @ + 1]
    /\ Continue(t, "recount")
    /\ UNCHANGED <<mailed, effects>>

\* The row is read again, and the code invalidated if the limit is reached.
ReadCount(t) ==
    /\ request[t].step = "recount"
    /\ StillThere(t)
    /\ IF Exhausted(code[request[t].code].failed_attempts)
       THEN Continue(t, "retire")
       ELSE Finish(t)
    /\ UNCHANGED <<code, mailed, counted, effects>>

Retire(t) ==
    /\ request[t].step = "retire"
    /\ StillThere(t)
    /\ code' = [code EXCEPT ![request[t].code].invalidated = TRUE]
    /\ Finish(t)
    /\ UNCHANGED <<mailed, counted, effects>>

\* Mutant: used_at is assigned and not committed.
MarkUsed_NoCommit(t) ==
    /\ request[t].step = "use"
    /\ StillThere(t)
    /\ Continue(t, "effect")
    /\ UNCHANGED <<code, mailed, counted, effects>>

\* UPDATE by id: whoever used the code meanwhile is not noticed.
MarkUsed(t) ==
    /\ request[t].step = "use"
    /\ StillThere(t)
    /\ code' = [code EXCEPT ![request[t].code].used = TRUE]
    /\ Continue(t, "effect")
    /\ UNCHANGED <<mailed, counted, effects>>

\* The caller confirms the address, sets the new one, or resets the password,
\* in a transaction of its own.
TakeEffect(t) ==
    /\ request[t].step = "effect"
    /\ effects' = [effects EXCEPT ![request[t].code] = @ + 1]
    /\ Finish(t)
    /\ UNCHANGED <<code, mailed, counted>>

-----------------------------------------------------------------------------
\* A request ends early: the process, the database or the mail provider
\* fails, or the caller refuses what the code was for.
Abort(t) ==
    /\ request[t] # Idle
    /\ Finish(t)
    /\ UNCHANGED <<code, mailed, counted, effects>>

\* Time passes.  The age of a code that is used or invalidated is never
\* looked at again, so it stands still.
Age(v) ==
    /\ \E k \in Keys : v \in ActiveCodes(k)
    /\ \/ code[v].age = "fresh" /\ code' = [code EXCEPT ![v].age = "cool"]
       \/ code[v].age = "cool" /\ code' = [code EXCEPT ![v].age = "expired"]
    /\ UNCHANGED <<mailed, counted, effects, request>>

\* Whether a code is past its expiry that was used or invalidated before.
MayBeExpired(v) ==
    \/ code[v].age = "expired"
    \/ code[v].used
    \/ code[v].invalidated

\* One DELETE of what is past its expiry, which nothing in the service calls
\* yet.
Cleanup(expired) ==
    /\ \A v \in expired : MayBeExpired(v)
    /\ \A v \in Codes : code[v].age = "expired" => v \in expired
    /\ code' = [v \in Codes |-> IF v \in expired
                                THEN [code[v] EXCEPT !.deleted = TRUE]
                                ELSE code[v]]
    /\ UNCHANGED <<mailed, counted, effects, request>>

Serve(t) ==
    \E k \in Keys :
        \/ StartSend(t, k)
        \/ StartResend(t, k)
        \/ \E v \in Codes, p \in mailed \cup {WrongOtp} : LoadForVerify(t, k, v, p)

Work(t) ==
    \/ ReadActive(t)
    \/ InvalidateActive(t)
    \/ \E v \in Codes : CreateVerification(t, v)
    \/ SendEmail(t)
    \/ IncrementFailedAttempts(t)
    \/ ReadCount(t)
    \/ Retire(t)
    \/ MarkUsed(t)
    \/ TakeEffect(t)

Next ==
    \/ \E t \in Threads : Serve(t) \/ Work(t) \/ Abort(t)
    \/ \E v \in Codes : Age(v)
    \/ \E expired \in SUBSET Codes : Cleanup(expired)

Spec == Init /\ [][Next]_vars

-----------------------------------------------------------------------------
(***************************************************************************)
(* What holds however the requests interleave.  With one thread the first  *)
(* two bounds say what the service means to promise: a code takes effect   *)
(* once, and a key has one active code, the one in the latest mail.        *)
(***************************************************************************)

\* The requests that have found the OTP of v right and have yet to act on it.
Accepting(v) ==
    {t \in Threads :
        request[t].code = v /\ request[t].step \in {"use", "effect"}}

\* mark_used does not notice a second user of the code, but only requests
\* that had read it before the first one committed get through: a code takes
\* effect at most once per thread, ever.
EffectsBounded ==
    \A v \in Codes :
        effects[v] + Cardinality(Accepting(v)) <= Cardinality(Threads)

\* Overlapping sends leave several active codes, of which verify takes any;
\* but never more than one per thread, for a thread that sends again
\* invalidates what it sent before (send_verification).
ActiveBounded ==
    \A k \in Keys : Cardinality(ActiveCodes(k)) <= Cardinality(Threads)

\* The counter never passes the limit, also when increments overlap or a
\* process dies after the last increment and before the invalidation.
AttemptsWithinLimit ==
    \A v \in Codes : code[v].failed_attempts <= OTP_MAX_FAILED_ATTEMPTS

\* How often the counter of v got to the value that the n-th failed attempt
\* starts from.
Chances(v, n) == IF n = 1 THEN 1 ELSE counted[v][n - 1]

\* Overlapping increments overwrite each other, and a late one even sets the
\* counter back, so that more than OTP_MAX_FAILED_ATTEMPTS wrong OTPs may be
\* tried; but each wrong OTP that was counted as the n-th failed attempt
\* makes way for one more per thread, and no others: their number is bounded
\* by the limit and the threads, however long the code is active.  With one
\* thread every wrong OTP counts (increment_failed_attempts).
GuessesBounded ==
    \A v \in Codes, n \in 1..OTP_MAX_FAILED_ATTEMPTS :
        counted[v][n] <= Cardinality(Threads) * Chances(v, n)
=============================================================================
