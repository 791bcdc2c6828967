------------------------ MODULE Verification_proofs ------------------------
(***************************************************************************)
(* Proofs about the one-time codes: whatever the number of codes and of    *)
(* threads, a code takes effect at most once per thread, a key has at most *)
(* one active code per thread, the counter of failed attempts stays within *)
(* its limit, and the wrong OTPs that are tried at a code are bounded.     *)
(***************************************************************************)
EXTENDS Verification, FiniteSetTheorems, TLAPS

-----------------------------------------------------------------------------
(***************************************************************************)
(* The inductive invariant.                                                *)
(***************************************************************************)

\* What a request carries when it gets to a step that uses it.
RequestValid(r) ==
    /\ r.step \in {"send", "invalidate", "insert"} => r.key \in Keys
    /\ r.step \in {"mail", "count", "recount", "retire", "use", "effect"}
          => r.code \in Codes
    /\ r.step = "count" => r.seen < OTP_MAX_FAILED_ATTEMPTS

RequestsValid == \A t \in Threads : RequestValid(request[t])

Inserted(v) == code[v].key # Null

\* A request works on a code that was inserted, and only such a code is used.
CodesInserted ==
    /\ \A t \in Threads :
          request[t].step \in {"count", "recount", "retire", "use", "effect"}
              => Inserted(request[t].code)
    /\ \A v \in Codes : code[v].used => Inserted(v)

\* Nothing comes of a code before it is marked as used.
UnusedIsUntouched ==
    \A v \in Codes : ~code[v].used =>
        /\ effects[v] = 0
        /\ \A t \in Threads : request[t].code = v => request[t].step # "effect"

Inserting(t, k) == request[t].step = "insert" /\ request[t].key = k

\* Each active code of a key has a thread of its own, which is not about to
\* insert another.  (It is the one that inserted the code, but this is not
\* on record, and need not be.)
Owners(k) ==
    {f \in Injection(ActiveCodes(k), Threads) :
        \A v \in ActiveCodes(k) : ~Inserting(f[v], k)}

CodesOwned == \A k \in Keys : Owners(k) # {}

\* The requests that are about to count a wrong OTP as the n-th failed attempt.
Guessing(v, n) ==
    {t \in Threads : /\ request[t].step = "count"
                     /\ request[t].code = v
                     /\ request[t].seen + 1 = n}

\* The guesses in hand are within the bound, too; and while the counter stands
\* at n - 1, there is room for one more of every thread, since nobody has
\* counted an n-th attempt since it got there.
GuessesInHand ==
    \A v \in Codes, n \in 1..OTP_MAX_FAILED_ATTEMPTS :
        /\ counted[v][n] + Cardinality(Guessing(v, n))
              <= Cardinality(Threads) * Chances(v, n)
        /\ code[v].failed_attempts = n - 1 =>
              counted[v][n] + Cardinality(Threads)
                  <= Cardinality(Threads) * Chances(v, n)

FreshUncounted == \A v \in Codes : ~Inserted(v) => code[v].failed_attempts = 0

IInv ==
    /\ TypeOK
    /\ RequestsValid
    /\ CodesInserted
    /\ UnusedIsUntouched
    /\ AttemptsWithinLimit
    /\ EffectsBounded
    /\ CodesOwned
    /\ FreshUncounted
    /\ GuessesInHand

-----------------------------------------------------------------------------
(***************************************************************************)
(* What the steps do to the requests and to the rows.                      *)
(***************************************************************************)

\* The steps, one by one.
LEMMA Steps ==
    ASSUME Next
    PROVE  \/ \E t \in Threads, k \in Keys : StartSend(t, k)
           \/ \E t \in Threads : ReadActive(t)
           \/ \E t \in Threads : InvalidateActive(t)
           \/ \E t \in Threads, v \in Codes : CreateVerification(t, v)
           \/ \E t \in Threads : SendEmail(t)
           \/ \E t \in Threads, k \in Keys, v \in Codes, p \in mailed \cup {WrongOtp} :
                  LoadForVerify(t, k, v, p)
           \/ \E t \in Threads : IncrementFailedAttempts(t)
           \/ \E t \in Threads : ReadCount(t)
           \/ \E t \in Threads : Retire(t)
           \/ \E t \in Threads : MarkUsed(t)
           \/ \E t \in Threads : TakeEffect(t)
           \/ \E t \in Threads : Abort(t)
           \/ \E v \in Codes : Age(v)
           \/ \E expired \in SUBSET Codes : Cleanup(expired)
  BY DEF Next, Serve, Work, StartResend

LEMMA IdleRequest == Idle \in Request /\ RequestValid(Idle)
  BY DEF Idle, Request, RequestValid

StepName == {"idle", "send", "invalidate", "insert", "mail",
             "count", "recount", "retire", "use", "effect"}

\* A step of one thread leaves the requests of the others alone.
LEMMA Moves ==
    ASSUME TypeOK, NEW t \in Threads
    PROVE  /\ Finish(t) =>
                 /\ request' \in [Threads -> Request]
                 /\ request'[t] = Idle
                 /\ \A s \in Threads \ {t} : request'[s] = request[s]
           /\ \A step \in StepName : Continue(t, step) =>
                 /\ request' \in [Threads -> Request]
                 /\ request'[t] = [request[t] EXCEPT !.step = step]
                 /\ \A s \in Threads \ {t} : request'[s] = request[s]
<1>1. request \in [Threads -> Request] /\ request[t] \in Request
  BY DEF TypeOK
<1>2. \A step \in StepName : [request[t] EXCEPT !.step = step] \in Request
  BY <1>1 DEF Request, StepName
<1>3. ASSUME NEW step \in StepName, Continue(t, step)
      PROVE  /\ request' \in [Threads -> Request]
             /\ request'[t] = [request[t] EXCEPT !.step = step]
             /\ \A s \in Threads \ {t} : request'[s] = request[s]
  BY <1>1, <1>2, <1>3 DEF Continue
<1>4. QED
  BY <1>1, <1>3, IdleRequest DEF Finish

LEMMA BeginsTyped ==
    ASSUME TypeOK, NEW t \in Threads, NEW r \in Request, Begin(t, r)
    PROVE  /\ request' \in [Threads -> Request]
           /\ request'[t] = r
           /\ \A s \in Threads \ {t} : request'[s] = request[s]
  BY DEF Begin, TypeOK

\* What the steps that begin or lengthen a request put there.
LEMMA NewRequests ==
    ASSUME TypeOK, VerificationAssumption, NEW k \in Keys, NEW v \in Codes
    PROVE  /\ [Idle EXCEPT !.step = "send", !.key = k] \in Request
           /\ \A r \in Request :
                 [r EXCEPT !.step = "mail", !.code = v] \in Request
           /\ \A step \in StepName :
                 [step |-> step, key |-> k, code |-> v,
                  seen |-> code[v].failed_attempts] \in Request
<1>1. code[v].failed_attempts \in Nat
  BY DEF TypeOK, CodeRow
<1>2. QED
  BY <1>1 DEF Idle, Request, StepName

\* A typed request has typed fields.
LEMMA RequestFields ==
    ASSUME TypeOK, RequestsValid, NEW t \in Threads
    PROVE  /\ request[t] \in Request
           /\ request[t].seen \in Nat
           /\ request[t].step \in {"send", "invalidate", "insert"}
                 => request[t].key \in Keys
           /\ request[t].step \in {"mail", "count", "recount", "retire", "use", "effect"}
                 => request[t].code \in Codes
           /\ request[t].step = "count"
                 => request[t].seen < OTP_MAX_FAILED_ATTEMPTS
<1>1. request[t] \in Request
  BY DEF TypeOK
<1>2. QED
  BY <1>1 DEF Request, RequestsValid, RequestValid

\* A new row is well formed.
LEMMA NewRow ==
    ASSUME NEW v \in Codes, NEW k \in Keys
    PROVE  /\ NewCode(k, v) \in CodeRow
           /\ NewCode(k, v).key = k
           /\ NewCode(k, v).failed_attempts = 0
           /\ ~NewCode(k, v).used
           /\ ~NewCode(k, v).invalidated
  BY DEF CodeRow, NoCode, NewCode

\* Writing one well-formed row.
LEMMA OneRow ==
    ASSUME TypeOK, NEW v \in Codes, NEW row \in CodeRow
    PROVE  [code EXCEPT ![v] = row] \in [Codes -> CodeRow]
  BY DEF TypeOK

-----------------------------------------------------------------------------
(***************************************************************************)
(* Types.                                                                  *)
(***************************************************************************)
LEMMA TypeStep ==
    ASSUME TypeOK, RequestsValid, [Next]_vars
    PROVE  TypeOK'
<1> USE VerificationAssumption
<1>1. CASE UNCHANGED vars
  BY <1>1 DEF TypeOK, vars
<1> SUFFICES ASSUME Next PROVE TypeOK'
  BY <1>1
<1>2. ASSUME NEW t \in Threads, NEW k \in Keys, StartSend(t, k)
      PROVE  TypeOK'
  <2>1. [Idle EXCEPT !.step = "send", !.key = k] \in Request
    BY DEF Idle, Request
  <2>2. request' \in [Threads -> Request]
    BY <1>2, <2>1, BeginsTyped DEF StartSend
  <2>3. QED  BY <1>2, <2>2 DEF TypeOK, StartSend
<1>3. ASSUME NEW t \in Threads, ReadActive(t)
      PROVE  TypeOK'
  <2>1. Continue(t, "insert") \/ Continue(t, "invalidate")
    BY <1>3 DEF ReadActive
  <2>2. request' \in [Threads -> Request]
    BY <2>1, Moves DEF StepName
  <2>3. QED  BY <1>3, <2>2 DEF TypeOK, ReadActive
<1>4. ASSUME NEW t \in Threads, InvalidateActive(t)
      PROVE  TypeOK'
  <2>1. Continue(t, "insert")
    BY <1>4 DEF InvalidateActive
  <2>2. request' \in [Threads -> Request]
    BY <2>1, Moves DEF StepName
  <2>3. \A v \in Codes : [code[v] EXCEPT !.invalidated = TRUE] \in CodeRow
    BY DEF TypeOK, CodeRow
  <2>4. code' \in [Codes -> CodeRow]
    BY <1>4, <2>3 DEF TypeOK, InvalidateActive
  <2>5. QED  BY <1>4, <2>2, <2>4 DEF TypeOK, InvalidateActive
<1>5. ASSUME NEW t \in Threads, NEW v \in Codes, CreateVerification(t, v)
      PROVE  TypeOK'
  <2>1. request[t] \in Request /\ request[t].key \in Keys
    BY <1>5, RequestFields DEF CreateVerification
  <2>2. [request[t] EXCEPT !.step = "mail", !.code = v] \in Request
    BY <2>1 DEF Request
  <2>3. request' = [request EXCEPT ![t] = [request[t] EXCEPT !.step = "mail", !.code = v]]
    BY <1>5, <2>1 DEF CreateVerification, TypeOK, Request
  <2>4. request' \in [Threads -> Request]
    BY <2>2, <2>3 DEF TypeOK
  <2>5. NewCode(request[t].key, v) \in CodeRow
    BY <2>1, NewRow
  <2>6. code' \in [Codes -> CodeRow]
    BY <1>5, <2>5, OneRow DEF CreateVerification
  <2>7. QED  BY <1>5, <2>4, <2>6 DEF TypeOK, CreateVerification
<1>6. ASSUME NEW t \in Threads, SendEmail(t)
      PROVE  TypeOK'
  <2>1. request[t].code \in Codes
    BY <1>6, RequestFields DEF SendEmail
  <2>2. Finish(t)
    BY <1>6 DEF SendEmail
  <2>3. request' \in [Threads -> Request]
    BY <2>2, Moves
  <2>4. QED  BY <1>6, <2>1, <2>3 DEF TypeOK, SendEmail
<1>7. ASSUME NEW t \in Threads, NEW k \in Keys, NEW v \in Codes,
             NEW p \in mailed \cup {WrongOtp}, LoadForVerify(t, k, v, p)
      PROVE  TypeOK'
  <2> DEFINE r(step) == [step |-> step, key |-> k, code |-> v,
                         seen |-> code[v].failed_attempts]
  <2>1. \A step \in StepName : r(step) \in Request
    BY NewRequests
  <2>2. \E step \in {"retire", "use", "count"} : Begin(t, r(step))
    BY <1>7 DEF LoadForVerify
  <2>3. PICK step \in {"retire", "use", "count"} : Begin(t, r(step))
    BY <2>2
  <2>4. r(step) \in Request
    BY <2>1 DEF StepName
  <2>5. request' \in [Threads -> Request]
    BY <2>3, <2>4, BeginsTyped
  <2>6. QED  BY <1>7, <2>5 DEF TypeOK, LoadForVerify
<1>8. ASSUME NEW t \in Threads, IncrementFailedAttempts(t)
      PROVE  TypeOK'
  <2>1. request[t].code \in Codes /\ request[t].seen \in Nat
    BY <1>8, RequestFields DEF IncrementFailedAttempts
  <2>2. Continue(t, "recount")
    BY <1>8 DEF IncrementFailedAttempts
  <2>3. request' \in [Threads -> Request]
    BY <2>2, Moves DEF StepName
  <2>4. code' = [code EXCEPT ![request[t].code] =
                    [code[request[t].code] EXCEPT !.failed_attempts = request[t].seen + 1]]
    BY <1>8, <2>1 DEF IncrementFailedAttempts, Incremented, TypeOK, CodeRow
  <2>5. request[t].seen + 1 \in Nat
    BY <2>1
  <2>6. [code[request[t].code] EXCEPT !.failed_attempts = request[t].seen + 1] \in CodeRow
    <3>1. code[request[t].code] \in CodeRow
      BY <2>1 DEF TypeOK
    <3>2. QED  BY <2>5, <3>1 DEF CodeRow
  <2>7. code' \in [Codes -> CodeRow]
    BY <2>1, <2>4, <2>6 DEF TypeOK
  <2>8. counted' \in [Codes -> [1..OTP_MAX_FAILED_ATTEMPTS -> Nat]]
    <3> DEFINE N == 1..OTP_MAX_FAILED_ATTEMPTS
               c == request[t].code
               m == request[t].seen + 1
    <3>1. counted \in [Codes -> [N -> Nat]]
      BY DEF TypeOK
    <3>2. counted' = [counted EXCEPT ![c][m] = @ + 1]
      BY <1>8 DEF IncrementFailedAttempts
    <3> HIDE DEF N, m, c
    <3>3. [counted[c] EXCEPT ![m] = @ + 1] \in [N -> Nat]
      <4>1. counted[c] \in [N -> Nat]
        BY <2>1, <3>1 DEF c
      <4>2. \A n \in N : counted[c][n] + 1 \in Nat
        BY <4>1
      <4>3. QED  BY <4>1, <4>2
    <3>4. QED  BY <2>1, <3>1, <3>2, <3>3 DEF N, c
  <2>9. QED  BY <1>8, <2>3, <2>7, <2>8 DEF TypeOK, IncrementFailedAttempts
<1>9. ASSUME NEW t \in Threads, ReadCount(t)
      PROVE  TypeOK'
  <2>1. Continue(t, "retire") \/ Finish(t)
    BY <1>9 DEF ReadCount
  <2>2. request' \in [Threads -> Request]
    BY <2>1, Moves DEF StepName
  <2>3. QED  BY <1>9, <2>2 DEF TypeOK, ReadCount
<1>10. ASSUME NEW t \in Threads, Retire(t) \/ MarkUsed(t)
       PROVE  TypeOK'
  <2>1. request[t].code \in Codes
    BY <1>10, RequestFields DEF Retire, MarkUsed
  <2>2. Continue(t, "effect") \/ Finish(t)
    BY <1>10 DEF Retire, MarkUsed
  <2>3. request' \in [Threads -> Request]
    BY <2>2, Moves DEF StepName
  <2>a. code \in [Codes -> CodeRow]
    BY DEF TypeOK
  <2>4. /\ [code[request[t].code] EXCEPT !.used = TRUE] \in CodeRow
        /\ [code[request[t].code] EXCEPT !.invalidated = TRUE] \in CodeRow
    BY <2>1, <2>a DEF CodeRow
  <2>5. code' \in [Codes -> CodeRow]
    <3>1. CASE Retire(t)
      BY <2>1, <2>a, <2>4, <3>1 DEF Retire
    <3>2. CASE MarkUsed(t)
      BY <2>1, <2>a, <2>4, <3>2 DEF MarkUsed
    <3>3. QED  BY <1>10, <3>1, <3>2
  <2>6. QED  BY <1>10, <2>3, <2>5 DEF TypeOK, Retire, MarkUsed
<1>11. ASSUME NEW t \in Threads, TakeEffect(t)
       PROVE  TypeOK'
  <2>1. request[t].code \in Codes
    BY <1>11, RequestFields DEF TakeEffect
  <2>2. Finish(t)
    BY <1>11 DEF TakeEffect
  <2>3. request' \in [Threads -> Request]
    BY <2>2, Moves
  <2>4. QED  BY <1>11, <2>1, <2>3 DEF TypeOK, TakeEffect
<1>12. ASSUME NEW t \in Threads, Abort(t)
       PROVE  TypeOK'
  <2>1. Finish(t)
    BY <1>12 DEF Abort
  <2>2. request' \in [Threads -> Request]
    BY <2>1, Moves
  <2>3. QED  BY <1>12, <2>2 DEF TypeOK, Abort
<1>13. ASSUME NEW v \in Codes, Age(v)
       PROVE  TypeOK'
  <2>1. code \in [Codes -> CodeRow]
    BY DEF TypeOK
  <2>a. /\ [code[v] EXCEPT !.age = "cool"] \in CodeRow
        /\ [code[v] EXCEPT !.age = "expired"] \in CodeRow
    BY <2>1 DEF CodeRow
  <2>2. code' \in [Codes -> CodeRow]
    BY <1>13, <2>1, <2>a DEF Age
  <2>3. QED  BY <1>13, <2>2 DEF TypeOK, Age
<1>14. ASSUME NEW expired \in SUBSET Codes, Cleanup(expired)
       PROVE  TypeOK'
  <2>1. \A row \in CodeRow : [row EXCEPT !.deleted = TRUE] \in CodeRow
    BY DEF CodeRow
  <2>2. code \in [Codes -> CodeRow]
    BY DEF TypeOK
  <2>3. code' \in [Codes -> CodeRow]
    BY <1>14, <2>1, <2>2 DEF Cleanup
  <2>4. QED  BY <1>14, <2>3 DEF TypeOK, Cleanup
<1>15. QED
  BY Steps, <1>2, <1>3, <1>4, <1>5, <1>6, <1>7, <1>8, <1>9, <1>10,
     <1>11, <1>12, <1>13, <1>14

-----------------------------------------------------------------------------
(***************************************************************************)
(* What a request carries.                                                 *)
(***************************************************************************)
LEMMA RequestsStep ==
    ASSUME TypeOK, RequestsValid, [Next]_vars
    PROVE  RequestsValid'
<1> USE VerificationAssumption
<1>1. CASE UNCHANGED vars
  BY <1>1 DEF RequestsValid, RequestValid, vars
<1> SUFFICES ASSUME Next PROVE RequestsValid'
  BY <1>1
\* It is enough to look at the request that the step changes.
<1>2. ASSUME NEW t \in Threads, RequestValid(request'[t]),
             \A s \in Threads \ {t} : request'[s] = request[s]
      PROVE  RequestsValid'
  BY <1>2 DEF RequestsValid, RequestValid
<1>3. ASSUME NEW t \in Threads, Finish(t)
      PROVE  RequestsValid'
  BY <1>2, <1>3, Moves, IdleRequest
<1>4. ASSUME NEW t \in Threads, NEW step \in StepName, Continue(t, step),
             RequestValid([request[t] EXCEPT !.step = step])
      PROVE  RequestsValid'
  BY <1>2, <1>4, Moves
<1>5. ASSUME NEW t \in Threads, NEW k \in Keys, StartSend(t, k)
      PROVE  RequestsValid'
  <2> DEFINE r == [Idle EXCEPT !.step = "send", !.key = k]
  <2>1. r \in Request /\ RequestValid(r)
    BY DEF Idle, Request, RequestValid
  <2>2. QED  BY <1>2, <1>5, <2>1, BeginsTyped DEF StartSend
<1>6. ASSUME NEW t \in Threads, ReadActive(t)
      PROVE  RequestsValid'
  <2>1. PICK step \in {"insert", "invalidate"} : Continue(t, step)
    BY <1>6 DEF ReadActive
  <2>2. RequestValid([request[t] EXCEPT !.step = step])
    BY <1>6, RequestFields DEF ReadActive, RequestValid, Request
  <2>3. QED  BY <1>4, <2>1, <2>2 DEF StepName
<1>7. ASSUME NEW t \in Threads, InvalidateActive(t)
      PROVE  RequestsValid'
  <2>1. RequestValid([request[t] EXCEPT !.step = "insert"])
    BY <1>7, RequestFields DEF InvalidateActive, RequestValid, Request
  <2>2. QED  BY <1>4, <1>7, <2>1 DEF InvalidateActive, StepName
<1>8. ASSUME NEW t \in Threads, NEW v \in Codes, CreateVerification(t, v)
      PROVE  RequestsValid'
  <2>1. /\ request'[t] = [request[t] EXCEPT !.step = "mail", !.code = v]
        /\ \A s \in Threads \ {t} : request'[s] = request[s]
    BY <1>8 DEF CreateVerification, TypeOK, Request
  <2>2. RequestValid(request'[t])
    BY <2>1, RequestFields DEF RequestValid, Request
  <2>3. QED  BY <1>2, <2>1, <2>2
<1>9. ASSUME NEW t \in Threads, NEW k \in Keys, NEW v \in Codes,
             NEW p \in mailed \cup {WrongOtp}, LoadForVerify(t, k, v, p)
      PROVE  RequestsValid'
  <2> DEFINE r(step) == [step |-> step, key |-> k, code |-> v,
                         seen |-> code[v].failed_attempts]
  <2>1. PICK step \in {"retire", "use", "count"} :
              /\ Begin(t, r(step))
              /\ step = "count" => ~Exhausted(code[v].failed_attempts)
    BY <1>9 DEF LoadForVerify
  <2>2. code[v].failed_attempts \in Nat
    BY DEF TypeOK, CodeRow
  <2>3. r(step) \in Request
    BY NewRequests DEF StepName
  <2>4. RequestValid(r(step))
    BY <2>1, <2>2 DEF RequestValid, Exhausted
  <2>5. QED  BY <1>2, <2>1, <2>3, <2>4, BeginsTyped
<1>10. ASSUME NEW t \in Threads, IncrementFailedAttempts(t)
       PROVE  RequestsValid'
  <2>1. RequestValid([request[t] EXCEPT !.step = "recount"])
    BY <1>10, RequestFields DEF IncrementFailedAttempts, RequestValid, Request
  <2>2. QED  BY <1>4, <1>10, <2>1 DEF IncrementFailedAttempts, StepName
<1>11. ASSUME NEW t \in Threads, ReadCount(t)
       PROVE  RequestsValid'
  <2>1. RequestValid([request[t] EXCEPT !.step = "retire"])
    BY <1>11, RequestFields DEF ReadCount, RequestValid, Request
  <2>2. QED  BY <1>3, <1>4, <1>11, <2>1 DEF ReadCount, StepName
<1>12. ASSUME NEW t \in Threads, MarkUsed(t)
       PROVE  RequestsValid'
  <2>1. RequestValid([request[t] EXCEPT !.step = "effect"])
    BY <1>12, RequestFields DEF MarkUsed, RequestValid, Request
  <2>2. QED  BY <1>4, <1>12, <2>1 DEF MarkUsed, StepName
<1>13. ASSUME NEW t \in Threads, SendEmail(t) \/ Retire(t) \/ TakeEffect(t) \/ Abort(t)
       PROVE  RequestsValid'
  BY <1>3, <1>13 DEF SendEmail, Retire, TakeEffect, Abort
<1>14. ASSUME NEW v \in Codes, Age(v)
       PROVE  RequestsValid'
  BY <1>14 DEF Age, RequestsValid, RequestValid
<1>15. ASSUME NEW expired \in SUBSET Codes, Cleanup(expired)
       PROVE  RequestsValid'
  BY <1>15 DEF Cleanup, RequestsValid, RequestValid
<1>16. QED
  BY Steps, <1>5, <1>6, <1>7, <1>8, <1>9, <1>10, <1>11, <1>12, <1>13, <1>14, <1>15

-----------------------------------------------------------------------------
(***************************************************************************)
(* How the rows of the codes change.                                       *)
(***************************************************************************)

\* A cleanup touches nothing but the mark.
LEMMA CleanupMarks ==
    ASSUME TypeOK, NEW expired \in SUBSET Codes, Cleanup(expired), NEW v \in Codes
    PROVE  /\ code'[v].key = code[v].key
           /\ code'[v].used = code[v].used
           /\ code'[v].invalidated = code[v].invalidated
           /\ code'[v].age = code[v].age
           /\ code'[v].failed_attempts = code[v].failed_attempts
<1>1. code'[v] = code[v] \/ code'[v] = [code[v] EXCEPT !.deleted = TRUE]
  BY DEF Cleanup, TypeOK
<1>2. QED  BY <1>1 DEF TypeOK, CodeRow

\* Whatever ends the activity of a code is final.
Ages(v) ==
    /\ code'[v].key = code[v].key
    /\ code[v].used => code'[v].used
    /\ code[v].invalidated => code'[v].invalidated
    /\ code[v].age = "expired" => code'[v].age = "expired"

\* Only the INSERT of a code does anything else.
LEMMA RowsAge ==
    ASSUME TypeOK, RequestsValid, [Next]_vars,
           \A t \in Threads, v \in Codes : ~CreateVerification(t, v)
    PROVE  \A v \in Codes : Ages(v)
<1> USE DEF Ages
<1>1. CASE UNCHANGED code
  BY <1>1
<1>2. ASSUME NEW t \in Threads, InvalidateActive(t)
      PROVE  \A v \in Codes : Ages(v)
  BY <1>2 DEF InvalidateActive, TypeOK, CodeRow
<1>3. ASSUME NEW t \in Threads, IncrementFailedAttempts(t)
      PROVE  \A v \in Codes : Ages(v)
  <2>1. \A v \in Codes : code'[v] = code[v] \/
           code'[v] = [code[v] EXCEPT !.failed_attempts = Incremented(request[t].seen)]
    BY <1>3 DEF IncrementFailedAttempts, TypeOK
  <2>2. QED  BY <2>1 DEF TypeOK, CodeRow
<1>4. ASSUME NEW t \in Threads, Retire(t)
      PROVE  \A v \in Codes : Ages(v)
  <2>1. \A v \in Codes : code'[v] = code[v] \/
           code'[v] = [code[v] EXCEPT !.invalidated = TRUE]
    BY <1>4 DEF Retire, TypeOK
  <2>2. QED  BY <2>1 DEF TypeOK, CodeRow
<1>5. ASSUME NEW t \in Threads, MarkUsed(t)
      PROVE  \A v \in Codes : Ages(v)
  <2>1. \A v \in Codes : code'[v] = code[v] \/
           code'[v] = [code[v] EXCEPT !.used = TRUE]
    BY <1>5 DEF MarkUsed, TypeOK
  <2>2. QED  BY <2>1 DEF TypeOK, CodeRow
<1>6. ASSUME NEW w \in Codes, Age(w)
      PROVE  \A v \in Codes : Ages(v)
  <2>1. \A v \in Codes :
           \/ code'[v] = code[v]
           \/ code[v].age = "fresh" /\ code'[v] = [code[v] EXCEPT !.age = "cool"]
           \/ code[v].age = "cool" /\ code'[v] = [code[v] EXCEPT !.age = "expired"]
    BY <1>6 DEF Age, TypeOK
  <2>2. ASSUME NEW v \in Codes, NEW age \in {"cool", "expired"},
               code[v].age # "expired", code'[v] = [code[v] EXCEPT !.age = age]
        PROVE  Ages(v)
    BY <2>2 DEF TypeOK, CodeRow
  <2>3. ASSUME NEW v \in Codes, code'[v] = code[v]
        PROVE  Ages(v)
    BY <2>3
  <2>4. QED  BY <2>1, <2>2, <2>3
<1>7. ASSUME NEW expired \in SUBSET Codes, Cleanup(expired)
      PROVE  \A v \in Codes : Ages(v)
  BY <1>7, CleanupMarks
<1>8. ASSUME Next PROVE \A v \in Codes : Ages(v)
  BY <1>8, Steps, <1>1, <1>2, <1>3, <1>4, <1>5, <1>6, <1>7
  DEF StartSend, ReadActive, SendEmail, LoadForVerify, ReadCount, TakeEffect, Abort
<1>9. QED  BY <1>1, <1>8 DEF vars

LEMMA KeysKept ==
    ASSUME TypeOK, RequestsValid, [Next]_vars, NEW v \in Codes, Inserted(v)
    PROVE  Ages(v)
<1>1. CASE \E t \in Threads, w \in Codes : CreateVerification(t, w)
  <2>1. PICK t \in Threads, w \in Codes : CreateVerification(t, w)
    BY <1>1
  <2>2. v # w /\ code'[v] = code[v]
    BY <2>1 DEF CreateVerification, Inserted, TypeOK
  <2>3. QED  BY <2>2 DEF Ages
<1>2. QED  BY <1>1, RowsAge

\* What becomes active in a step was inserted by it.
LEMMA ActiveShrinks ==
    ASSUME TypeOK, RequestsValid, [Next]_vars, NEW k \in Keys,
           \A t \in Threads, v \in Codes : ~CreateVerification(t, v)
    PROVE  ActiveCodes(k)' \subseteq ActiveCodes(k)
  BY RowsAge DEF ActiveCodes, Ages

\* A code is used only by the request that marks it.
LEMMA UsedByMark ==
    ASSUME TypeOK, RequestsValid, [Next]_vars, NEW v \in Codes,
           code'[v].used, ~code[v].used
    PROVE  \E t \in Threads : MarkUsed(t) /\ request[t].code = v
<1>1. CASE UNCHANGED code
  BY <1>1
<1>2. ASSUME NEW t \in Threads, InvalidateActive(t)
      PROVE  FALSE
  BY <1>2 DEF InvalidateActive, TypeOK, CodeRow
<1>3. ASSUME NEW t \in Threads, IncrementFailedAttempts(t)
      PROVE  FALSE
  <2>1. code'[v] = code[v] \/
        code'[v] = [code[v] EXCEPT !.failed_attempts = Incremented(request[t].seen)]
    BY <1>3 DEF IncrementFailedAttempts, TypeOK
  <2>2. QED  BY <2>1 DEF TypeOK, CodeRow
<1>4. ASSUME NEW t \in Threads, Retire(t)
      PROVE  FALSE
  <2>1. code'[v] = code[v] \/ code'[v] = [code[v] EXCEPT !.invalidated = TRUE]
    BY <1>4 DEF Retire, TypeOK
  <2>2. QED  BY <2>1 DEF TypeOK, CodeRow
<1>5. ASSUME NEW t \in Threads, MarkUsed(t)
      PROVE  request[t].code = v
  BY <1>5 DEF MarkUsed, TypeOK
<1>6. ASSUME NEW w \in Codes, Age(w)
      PROVE  FALSE
  <2>1. \/ code'[v] = code[v]
        \/ code'[v] = [code[v] EXCEPT !.age = "cool"]
        \/ code'[v] = [code[v] EXCEPT !.age = "expired"]
    BY <1>6 DEF Age, TypeOK
  <2>2. QED  BY <2>1 DEF TypeOK, CodeRow
<1>7. ASSUME NEW t \in Threads, NEW w \in Codes, CreateVerification(t, w)
      PROVE  FALSE
  <2>1. request[t].key \in Keys
    BY <1>7, RequestFields DEF CreateVerification
  <2>2. code'[v] = code[v] \/ code'[v] = NewCode(request[t].key, v)
    BY <1>7 DEF CreateVerification, TypeOK
  <2>3. QED  BY <2>1, <2>2, NewRow
<1>8. ASSUME NEW expired \in SUBSET Codes, Cleanup(expired)
      PROVE  FALSE
  BY <1>8, CleanupMarks
<1>9. ASSUME Next
      PROVE  \E t \in Threads : MarkUsed(t) /\ request[t].code = v
  BY <1>9, Steps, <1>1, <1>2, <1>3, <1>4, <1>5, <1>6, <1>7, <1>8
  DEF StartSend, ReadActive, SendEmail, LoadForVerify, ReadCount, TakeEffect, Abort
<1>10. QED  BY <1>1, <1>9 DEF vars

-----------------------------------------------------------------------------
(***************************************************************************)
(* How the requests that work on a code come to it.                        *)
(***************************************************************************)
CodeStep == {"count", "recount", "retire", "use", "effect"}

\* In one step a request stays with its code and moves on, or it loads a code
\* that is active.
StaysWithCode(s) ==
    /\ request[s].step \in CodeStep
    /\ request'[s].code = request[s].code
    /\ request'[s].step \in {"use", "effect"} => request[s].step \in {"use", "effect"}
    /\ request'[s].step = "effect" => request[s].step = "effect" \/ MarkUsed(s)

LoadsActive(s) ==
    /\ request'[s].step # "effect"
    /\ \E k \in Keys : request'[s].code \in ActiveCodes(k)

LEMMA Progress ==
    ASSUME TypeOK, RequestsValid, [Next]_vars,
           NEW s \in Threads, request'[s].step \in CodeStep
    PROVE  StaysWithCode(s) \/ LoadsActive(s)
<1>1. ASSUME request'[s] = request[s]
      PROVE  StaysWithCode(s)
  BY <1>1 DEF StaysWithCode
<1>2. ASSUME NEW t \in Threads, Finish(t)
      PROVE  StaysWithCode(s)
  <2>1. request'[t].step = "idle"
    BY <1>2, Moves DEF Idle
  <2>2. t # s
    BY <2>1 DEF CodeStep
  <2>3. QED  BY <1>1, <1>2, <2>2, Moves
<1>3. ASSUME NEW t \in Threads, NEW step \in StepName, Continue(t, step)
      PROVE  \/ request'[s] = request[s]
             \/ t = s /\ request'[s].step = step /\ request'[s].code = request[s].code
  <2>1. /\ request'[t] = [request[t] EXCEPT !.step = step]
        /\ \A u \in Threads \ {t} : request'[u] = request[u]
    BY <1>3, Moves
  <2>2. request[t] \in Request
    BY DEF TypeOK
  <2>3. request'[t].step = step /\ request'[t].code = request[t].code
    BY <2>1, <2>2 DEF Request
  <2>4. QED  BY <2>1, <2>3
<1>4. ASSUME NEW t \in Threads, NEW k \in Keys, StartSend(t, k)
      PROVE  StaysWithCode(s)
  <2> DEFINE r == [Idle EXCEPT !.step = "send", !.key = k]
  <2>1. r \in Request /\ r.step = "send"
    BY DEF Idle, Request
  <2>2. request'[t] = r /\ \A u \in Threads \ {t} : request'[u] = request[u]
    BY <1>4, <2>1, BeginsTyped DEF StartSend
  <2>3. t # s
    BY <2>1, <2>2 DEF CodeStep
  <2>4. QED  BY <1>1, <2>2, <2>3
<1>5. ASSUME NEW t \in Threads, ReadActive(t) \/ InvalidateActive(t)
      PROVE  StaysWithCode(s)
  <2>1. Continue(t, "insert") \/ Continue(t, "invalidate")
    BY <1>5 DEF ReadActive, InvalidateActive
  <2>2. PICK step \in {"insert", "invalidate"} : Continue(t, step)
    BY <2>1
  <2>3. \/ request'[s] = request[s]
        \/ request'[s].step = step
    BY <1>3, <2>2 DEF StepName
  <2>4. QED  BY <1>1, <2>3 DEF CodeStep
<1>6. ASSUME NEW t \in Threads, NEW v \in Codes, CreateVerification(t, v)
      PROVE  StaysWithCode(s)
  <2>1. /\ request'[t] = [request[t] EXCEPT !.step = "mail", !.code = v]
        /\ \A u \in Threads \ {t} : request'[u] = request[u]
    BY <1>6 DEF CreateVerification, TypeOK, Request
  <2>2. request'[t].step = "mail"
    BY <2>1 DEF TypeOK, Request
  <2>3. t # s
    BY <2>2 DEF CodeStep
  <2>4. QED  BY <1>1, <2>1, <2>3
<1>7. ASSUME NEW t \in Threads, NEW k \in Keys, NEW v \in Codes,
             NEW p \in mailed \cup {WrongOtp}, LoadForVerify(t, k, v, p)
      PROVE  StaysWithCode(s) \/ LoadsActive(s)
  <2> DEFINE r(step) == [step |-> step, key |-> k, code |-> v,
                         seen |-> code[v].failed_attempts]
  <2>1. PICK step \in {"retire", "use", "count"} : Begin(t, r(step))
    BY <1>7 DEF LoadForVerify
  <2>2. r(step) \in Request
    BY VerificationAssumption, NewRequests DEF StepName
  <2>3. request'[t] = r(step) /\ \A u \in Threads \ {t} : request'[u] = request[u]
    BY <2>1, <2>2, BeginsTyped
  <2>4. v \in ActiveCodes(k)
    BY <1>7 DEF LoadForVerify
  <2>5. QED  BY <1>1, <2>3, <2>4 DEF LoadsActive
<1>8. ASSUME NEW t \in Threads, IncrementFailedAttempts(t) \/ ReadCount(t)
      PROVE  StaysWithCode(s)
  <2>1. /\ request[t].step \in {"count", "recount"}
        /\ Continue(t, "recount") \/ Continue(t, "retire") \/ Finish(t)
    BY <1>8 DEF IncrementFailedAttempts, ReadCount
  <2>2. QED  BY <1>1, <1>2, <1>3, <2>1 DEF StaysWithCode, CodeStep, StepName
<1>9. ASSUME NEW t \in Threads, MarkUsed(t)
      PROVE  StaysWithCode(s)
  <2>1. request[t].step = "use" /\ Continue(t, "effect")
    BY <1>9 DEF MarkUsed
  <2>2. QED  BY <1>1, <1>3, <1>9, <2>1 DEF StaysWithCode, CodeStep, StepName
<1>10. ASSUME NEW t \in Threads, SendEmail(t) \/ Retire(t) \/ TakeEffect(t) \/ Abort(t)
       PROVE  StaysWithCode(s)
  BY <1>2, <1>10 DEF SendEmail, Retire, TakeEffect, Abort
<1>11. ASSUME NEW v \in Codes, Age(v)
       PROVE  StaysWithCode(s)
  <2>1. request' = request
    BY <1>11 DEF Age
  <2>2. QED  BY <1>1, <2>1
<1>12. ASSUME NEW expired \in SUBSET Codes, Cleanup(expired)
       PROVE  StaysWithCode(s)
  <2>1. request' = request
    BY <1>12 DEF Cleanup
  <2>2. QED  BY <1>1, <2>1
<1>13. ASSUME Next PROVE StaysWithCode(s) \/ LoadsActive(s)
  BY <1>13, Steps, <1>4, <1>5, <1>6, <1>7, <1>8, <1>9, <1>10, <1>11, <1>12
<1>14. QED  BY <1>1, <1>13 DEF vars

-----------------------------------------------------------------------------
(***************************************************************************)
(* The conjuncts of the invariant, one by one.                             *)
(***************************************************************************)
LEMMA InsertedStep ==
    ASSUME TypeOK, RequestsValid, CodesInserted, [Next]_vars
    PROVE  CodesInserted'
<1>1. \A v \in Codes : Inserted(v) => Inserted(v)'
  BY KeysKept DEF Ages, Inserted
<1>2. ASSUME NEW s \in Threads, request'[s].step \in CodeStep
      PROVE  Inserted(request[s].code)'
  <2>1. CASE StaysWithCode(s)
    <3>1. request[s].code \in Codes
      BY <2>1, RequestFields DEF StaysWithCode, CodeStep
    <3>2. Inserted(request[s].code)
      BY <2>1 DEF StaysWithCode, CodesInserted, CodeStep
    <3>3. QED  BY <1>1, <2>1, <3>1, <3>2 DEF StaysWithCode, Inserted
  <2>2. CASE LoadsActive(s)
    <3>1. PICK k \in Keys : request'[s].code \in ActiveCodes(k)
      BY <2>2 DEF LoadsActive
    <3>2. request'[s].code \in Codes /\ Inserted(request'[s].code)
      BY <3>1, VerificationAssumption DEF ActiveCodes, Inserted
    <3>3. QED  BY <1>1, <3>2 DEF Inserted
  <2>3. QED  BY <1>2, <2>1, <2>2, Progress
<1>3. ASSUME NEW v \in Codes, code'[v].used
      PROVE  Inserted(v)'
  <2>1. CASE code[v].used
    BY <1>1, <2>1 DEF CodesInserted
  <2>2. CASE ~code[v].used
    <3>1. PICK t \in Threads : MarkUsed(t) /\ request[t].code = v
      BY <1>3, <2>2, UsedByMark
    <3>2. Inserted(v)
      BY <3>1 DEF MarkUsed, CodesInserted
    <3>3. QED  BY <1>1, <3>2
  <2>3. QED  BY <2>1, <2>2
<1>4. QED  BY <1>2, <1>3 DEF CodesInserted, CodeStep, Inserted

\* A code that was used stays used.
LEMMA UsedForGood ==
    ASSUME TypeOK, RequestsValid, CodesInserted, [Next]_vars,
           NEW v \in Codes, code[v].used
    PROVE  code'[v].used
  BY KeysKept DEF CodesInserted, Ages

\* Effects are counted by TakeEffect alone.
LEMMA EffectsCounted ==
    ASSUME [Next]_vars, \A t \in Threads : ~TakeEffect(t)
    PROVE  effects' = effects
<1>1. CASE UNCHANGED vars
  BY <1>1 DEF vars
<1>2. CASE Next
  BY <1>2, Steps DEF StartSend, ReadActive, InvalidateActive, CreateVerification,
     SendEmail, LoadForVerify, IncrementFailedAttempts, ReadCount, Retire,
     MarkUsed, Abort, Age, Cleanup
<1>3. QED  BY <1>1, <1>2

LEMMA UntouchedStep ==
    ASSUME TypeOK, RequestsValid, CodesInserted, UnusedIsUntouched, [Next]_vars
    PROVE  UnusedIsUntouched'
<1> SUFFICES ASSUME NEW v \in Codes, ~code'[v].used
             PROVE  /\ effects'[v] = 0
                    /\ \A t \in Threads :
                          request'[t].code = v => request'[t].step # "effect"
  BY DEF UnusedIsUntouched
<1>1. ~code[v].used
  BY UsedForGood
<1>2. /\ effects[v] = 0
      /\ \A t \in Threads : request[t].code = v => request[t].step # "effect"
  BY <1>1 DEF UnusedIsUntouched
<1>3. effects'[v] = 0
  <2>1. ASSUME NEW t \in Threads, TakeEffect(t)
        PROVE  effects'[v] = effects[v]
    BY <1>2, <2>1 DEF TakeEffect, TypeOK
  <2>2. QED  BY <1>2, <2>1, EffectsCounted
<1>4. ASSUME NEW t \in Threads, request'[t].code = v, request'[t].step = "effect"
      PROVE  FALSE
  <2>1. StaysWithCode(t)
    BY <1>4, Progress DEF LoadsActive, CodeStep
  <2>2. MarkUsed(t) /\ request[t].code = v
    BY <1>2, <1>4, <2>1 DEF StaysWithCode
  <2>3. code'[v].used
    BY <2>2 DEF MarkUsed, TypeOK, CodeRow
  <2>4. QED  BY <2>3
<1>5. QED  BY <1>3, <1>4

\* The counter of a code changes when a wrong OTP is counted.
LEMMA CounterWrites ==
    ASSUME TypeOK, RequestsValid, [Next]_vars, NEW v \in Codes,
           \A t \in Threads : ~IncrementFailedAttempts(t)
    PROVE  \/ code'[v].failed_attempts = code[v].failed_attempts
           \/ ~Inserted(v) /\ code'[v].failed_attempts = 0
<1> DEFINE Same == code'[v].failed_attempts = code[v].failed_attempts
<1>1. ASSUME NEW t \in Threads, InvalidateActive(t)
      PROVE  Same
  BY <1>1 DEF InvalidateActive, TypeOK, CodeRow
<1>2. ASSUME NEW t \in Threads, NEW w \in Codes, CreateVerification(t, w)
      PROVE  Same \/ (~Inserted(v) /\ code'[v].failed_attempts = 0)
  <2>1. request[t].key \in Keys
    BY <1>2, RequestFields DEF CreateVerification
  <2>2. code'[v] = code[v] \/ (v = w /\ code'[v] = NewCode(request[t].key, v))
    BY <1>2 DEF CreateVerification, TypeOK
  <2>3. ~Inserted(w)
    BY <1>2 DEF CreateVerification, Inserted
  <2>4. QED  BY <2>1, <2>2, <2>3, NewRow
<1>3. ASSUME NEW t \in Threads, Retire(t)
      PROVE  Same
  BY <1>3 DEF Retire, TypeOK, CodeRow
<1>4. ASSUME NEW t \in Threads, MarkUsed(t)
      PROVE  Same
  BY <1>4 DEF MarkUsed, TypeOK, CodeRow
<1>5. ASSUME NEW w \in Codes, Age(w)
      PROVE  Same
  <2>1. \/ code'[v] = code[v]
        \/ code'[v] = [code[v] EXCEPT !.age = "cool"]
        \/ code'[v] = [code[v] EXCEPT !.age = "expired"]
    BY <1>5 DEF Age, TypeOK
  <2>2. QED  BY <2>1 DEF TypeOK, CodeRow
<1>6. ASSUME NEW expired \in SUBSET Codes, Cleanup(expired)
      PROVE  Same
  BY <1>6, CleanupMarks
<1>7. ASSUME UNCHANGED code
      PROVE  Same
  BY <1>7
<1>8. CASE UNCHANGED vars
  BY <1>7, <1>8 DEF vars
<1>9. CASE Next
  BY <1>9, Steps, <1>1, <1>2, <1>3, <1>4, <1>5, <1>6, <1>7
  DEF StartSend, ReadActive, SendEmail, LoadForVerify, ReadCount, TakeEffect, Abort
<1>10. QED  BY <1>8, <1>9

\* It is then one more than the number that was read.
LEMMA CounterIncrements ==
    ASSUME TypeOK, RequestsValid, NEW t \in Threads, IncrementFailedAttempts(t)
    PROVE  /\ request[t].code \in Codes
           /\ code'[request[t].code].failed_attempts = request[t].seen + 1
           /\ \A v \in Codes \ {request[t].code} : code'[v] = code[v]
<1>1. request[t].code \in Codes
  BY RequestFields DEF IncrementFailedAttempts
<1>2. code[request[t].code] \in CodeRow
  BY <1>1 DEF TypeOK
<1>3. code'[request[t].code] =
          [code[request[t].code] EXCEPT !.failed_attempts = request[t].seen + 1]
  BY <1>1 DEF IncrementFailedAttempts, Incremented, TypeOK
<1>4. QED
  BY <1>1, <1>2, <1>3 DEF IncrementFailedAttempts, TypeOK, CodeRow

LEMMA AttemptsStep ==
    ASSUME TypeOK, RequestsValid, AttemptsWithinLimit, [Next]_vars
    PROVE  AttemptsWithinLimit'
<1> SUFFICES ASSUME NEW v \in Codes
             PROVE  code'[v].failed_attempts <= OTP_MAX_FAILED_ATTEMPTS
  BY DEF AttemptsWithinLimit
<1>1. /\ code[v].failed_attempts <= OTP_MAX_FAILED_ATTEMPTS
      /\ 0 <= OTP_MAX_FAILED_ATTEMPTS
  BY VerificationAssumption DEF AttemptsWithinLimit
<1>2. CASE \E t \in Threads : IncrementFailedAttempts(t)
  <2>1. PICK t \in Threads : IncrementFailedAttempts(t)
    BY <1>2
  <2>2. request[t].seen \in Nat /\ request[t].seen < OTP_MAX_FAILED_ATTEMPTS
    BY <2>1, RequestFields DEF IncrementFailedAttempts
  <2>3. \/ code'[v] = code[v]
        \/ code'[v].failed_attempts = request[t].seen + 1
    BY <2>1, CounterIncrements
  <2>4. QED  BY <1>1, <2>2, <2>3, VerificationAssumption
<1>3. CASE ~\E t \in Threads : IncrementFailedAttempts(t)
  BY <1>1, <1>3, CounterWrites
<1>4. QED  BY <1>2, <1>3

\* Guesses are counted with the counter.
LEMMA GuessesCounted ==
    ASSUME [Next]_vars, \A t \in Threads : ~IncrementFailedAttempts(t)
    PROVE  counted' = counted
<1>1. CASE UNCHANGED vars
  BY <1>1 DEF vars
<1>2. CASE Next
  BY <1>2, Steps DEF StartSend, ReadActive, InvalidateActive, CreateVerification,
     SendEmail, LoadForVerify, ReadCount, Retire, MarkUsed, TakeEffect, Abort,
     Age, Cleanup
<1>3. QED  BY <1>1, <1>2

\* A request that is about to count has just read the counter.
LEMMA CountsWhatItRead ==
    ASSUME TypeOK, RequestsValid, [Next]_vars,
           NEW s \in Threads, request'[s].step = "count"
    PROVE  \/ request'[s] = request[s]
           \/ /\ request'[s].code \in Codes
              /\ request'[s].seen = code[request'[s].code].failed_attempts
<1>1. ASSUME NEW t \in Threads, request'[t].step # "count",
             \A u \in Threads \ {t} : request'[u] = request[u]
      PROVE  request'[s] = request[s]
  BY <1>1
<1>2. ASSUME NEW t \in Threads, Finish(t)
      PROVE  request'[s] = request[s]
  BY <1>1, <1>2, Moves DEF Idle
<1>3. ASSUME NEW t \in Threads, NEW step \in StepName \ {"count"}, Continue(t, step)
      PROVE  request'[s] = request[s]
  <2>1. /\ request'[t] = [request[t] EXCEPT !.step = step]
        /\ \A u \in Threads \ {t} : request'[u] = request[u]
    BY <1>3, Moves
  <2>2. request'[t].step = step
    BY <2>1 DEF TypeOK, Request
  <2>3. QED  BY <1>1, <2>1, <2>2
<1>4. ASSUME NEW t \in Threads, NEW k \in Keys, StartSend(t, k)
      PROVE  request'[s] = request[s]
  <2> DEFINE r == [Idle EXCEPT !.step = "send", !.key = k]
  <2>1. r \in Request /\ r.step = "send"
    BY DEF Idle, Request
  <2>2. request'[t] = r /\ \A u \in Threads \ {t} : request'[u] = request[u]
    BY <1>4, <2>1, BeginsTyped DEF StartSend
  <2>3. QED  BY <1>1, <2>1, <2>2
<1>5. ASSUME NEW t \in Threads, NEW v \in Codes, CreateVerification(t, v)
      PROVE  request'[s] = request[s]
  <2>1. /\ request'[t] = [request[t] EXCEPT !.step = "mail", !.code = v]
        /\ \A u \in Threads \ {t} : request'[u] = request[u]
    BY <1>5 DEF CreateVerification, TypeOK, Request
  <2>2. request'[t].step = "mail"
    BY <2>1 DEF TypeOK, Request
  <2>3. QED  BY <1>1, <2>1, <2>2
<1>6. ASSUME NEW t \in Threads, NEW k \in Keys, NEW v \in Codes,
             NEW p \in mailed \cup {WrongOtp}, LoadForVerify(t, k, v, p)
      PROVE  \/ request'[s] = request[s]
             \/ /\ request'[s].code \in Codes
                /\ request'[s].seen = code[request'[s].code].failed_attempts
  <2> DEFINE r(step) == [step |-> step, key |-> k, code |-> v,
                         seen |-> code[v].failed_attempts]
  <2>1. PICK step \in {"retire", "use", "count"} : Begin(t, r(step))
    BY <1>6 DEF LoadForVerify
  <2>2. r(step) \in Request
    BY VerificationAssumption, NewRequests DEF StepName
  <2>3. request'[t] = r(step) /\ \A u \in Threads \ {t} : request'[u] = request[u]
    BY <2>1, <2>2, BeginsTyped
  <2>4. QED  BY <2>3
<1>7. ASSUME NEW t \in Threads,
             \/ ReadActive(t) \/ InvalidateActive(t) \/ IncrementFailedAttempts(t)
             \/ ReadCount(t) \/ MarkUsed(t)
      PROVE  request'[s] = request[s]
  <2>1. \/ Finish(t)
        \/ \E step \in {"insert", "invalidate", "recount", "retire", "effect"} :
              Continue(t, step)
    BY <1>7 DEF ReadActive, InvalidateActive, IncrementFailedAttempts, ReadCount, MarkUsed
  <2>2. QED  BY <1>2, <1>3, <2>1 DEF StepName
<1>8. ASSUME NEW t \in Threads, SendEmail(t) \/ Retire(t) \/ TakeEffect(t) \/ Abort(t)
      PROVE  request'[s] = request[s]
  BY <1>2, <1>8 DEF SendEmail, Retire, TakeEffect, Abort
<1>9. ASSUME UNCHANGED request
      PROVE  request'[s] = request[s]
  BY <1>9
<1>10. CASE Next
  BY <1>10, Steps, <1>4, <1>5, <1>6, <1>7, <1>8, <1>9 DEF Age, Cleanup
<1>11. QED  BY <1>9, <1>10 DEF vars

LEMMA FreshStep ==
    ASSUME TypeOK, RequestsValid, CodesInserted, FreshUncounted, [Next]_vars
    PROVE  FreshUncounted'
<1> SUFFICES ASSUME NEW v \in Codes, ~Inserted(v)'
             PROVE  code'[v].failed_attempts = 0
  BY DEF FreshUncounted
<1>1. ~Inserted(v) /\ code[v].failed_attempts = 0
  BY KeysKept DEF Ages, Inserted, FreshUncounted
<1>2. CASE \E t \in Threads : IncrementFailedAttempts(t)
  <2>1. PICK t \in Threads : IncrementFailedAttempts(t)
    BY <1>2
  <2>2. request[t].code # v
    BY <1>1, <2>1 DEF CodesInserted, IncrementFailedAttempts
  <2>3. QED  BY <1>1, <2>1, <2>2, CounterIncrements
<1>3. CASE ~\E t \in Threads : IncrementFailedAttempts(t)
  BY <1>1, <1>3, CounterWrites
<1>4. QED  BY <1>2, <1>3

\* Those that guess are some of the threads.
LEMMA GuessingFinite ==
    ASSUME NEW v, NEW n
    PROVE  /\ IsFiniteSet(Guessing(v, n))
           /\ Cardinality(Guessing(v, n)) \in Nat
           /\ Cardinality(Guessing(v, n)) <= Cardinality(Threads)
           /\ Cardinality(Threads) \in Nat
           /\ \A S \in SUBSET Guessing(v, n) :
                 Cardinality(S) \in Nat /\ Cardinality(S) <= Cardinality(Guessing(v, n))
<1>1. IsFiniteSet(Threads)
  BY VerificationAssumption
<1>2. Guessing(v, n) \in SUBSET Threads
  BY DEF Guessing
<1>3. IsFiniteSet(Guessing(v, n)) /\ Cardinality(Guessing(v, n)) <= Cardinality(Threads)
  BY <1>1, <1>2, FS_Subset
<1>4. ASSUME NEW S \in SUBSET Guessing(v, n)
      PROVE  Cardinality(S) \in Nat /\ Cardinality(S) <= Cardinality(Guessing(v, n))
  BY <1>3, FS_Subset, FS_CardinalityType
<1>5. QED  BY <1>1, <1>3, <1>4, FS_CardinalityType

LEMMA CountedTyped ==
    ASSUME TypeOK, NEW v \in Codes, NEW n \in 1..OTP_MAX_FAILED_ATTEMPTS
    PROVE  /\ counted[v] \in [1..OTP_MAX_FAILED_ATTEMPTS -> Nat]
           /\ counted[v][n] \in Nat
           /\ Chances(v, n) \in Nat
<1>1. counted[v] \in [1..OTP_MAX_FAILED_ATTEMPTS -> Nat]
  BY DEF TypeOK
<1>2. n # 1 => n - 1 \in 1..OTP_MAX_FAILED_ATTEMPTS
  BY VerificationAssumption
<1>3. n # 1 => counted[v][n - 1] \in Nat
  BY <1>1, <1>2
<1>4. QED  BY <1>1, <1>3 DEF Chances

\* A step that counts nothing for v: only who has just read the counter joins
\* those that guess.
LEMMA GuessesElsewhere ==
    ASSUME TypeOK, RequestsValid, GuessesInHand, [Next]_vars,
           NEW v \in Codes, NEW n \in 1..OTP_MAX_FAILED_ATTEMPTS,
           counted'[v] = counted[v],
           code'[v].failed_attempts = code[v].failed_attempts
    PROVE  /\ counted'[v][n] + Cardinality(Guessing(v, n)')
                 <= Cardinality(Threads) * Chances(v, n)'
           /\ code'[v].failed_attempts = n - 1 =>
                 counted'[v][n] + Cardinality(Threads)
                     <= Cardinality(Threads) * Chances(v, n)'
<1>1. Chances(v, n)' = Chances(v, n)
  BY DEF Chances
<1>2. /\ counted[v][n] \in Nat
      /\ counted[v][n] + Cardinality(Guessing(v, n)) <= Cardinality(Threads) * Chances(v, n)
      /\ code[v].failed_attempts = n - 1 =>
            counted[v][n] + Cardinality(Threads) <= Cardinality(Threads) * Chances(v, n)
  BY CountedTyped DEF GuessesInHand
<1>3. Chances(v, n) \in Nat
  BY CountedTyped
<1>4. Cardinality(Threads) * Chances(v, n) \in Nat
  BY <1>3, GuessingFinite
<1>5. Guessing(v, n)' \in SUBSET Threads
  BY DEF Guessing
<1>6. /\ Cardinality(Guessing(v, n)') \in Nat
      /\ Cardinality(Guessing(v, n)') <= Cardinality(Threads)
  BY <1>5, VerificationAssumption, FS_Subset, FS_CardinalityType
<1>7. CASE Guessing(v, n)' \subseteq Guessing(v, n)
  <2>1. Cardinality(Guessing(v, n)') <= Cardinality(Guessing(v, n))
    BY <1>7, GuessingFinite
  <2>2. QED  BY <1>1, <1>2, <1>4, <1>6, <2>1, GuessingFinite
<1>8. CASE ~(Guessing(v, n)' \subseteq Guessing(v, n))
  <2>1. PICK s \in Threads : s \in Guessing(v, n)' /\ s \notin Guessing(v, n)
    BY <1>5, <1>8
  <2>2. request'[s].step = "count" /\ request'[s].code = v /\ request'[s].seen + 1 = n
        /\ request'[s] # request[s]
    BY <2>1 DEF Guessing
  <2>3. request'[s].seen = code[v].failed_attempts
    BY <2>2, CountsWhatItRead
  <2>4. code[v].failed_attempts \in Nat
    BY DEF TypeOK, CodeRow
  <2>5. code[v].failed_attempts = n - 1
    BY <2>2, <2>3, <2>4
  <2>6. QED  BY <1>1, <1>2, <1>4, <1>6, <2>5, GuessingFinite
<1>9. QED  BY <1>7, <1>8

\* A wrong OTP is counted as the attempt that its request was about to count,
\* and gives a chance to the next.
LEMMA GuessesHere ==
    ASSUME TypeOK, RequestsValid, GuessesInHand,
           NEW t \in Threads, IncrementFailedAttempts(t),
           NEW v \in Codes, v = request[t].code,
           NEW n \in 1..OTP_MAX_FAILED_ATTEMPTS
    PROVE  /\ counted'[v][n] + Cardinality(Guessing(v, n)')
                 <= Cardinality(Threads) * Chances(v, n)'
           /\ code'[v].failed_attempts = n - 1 =>
                 counted'[v][n] + Cardinality(Threads)
                     <= Cardinality(Threads) * Chances(v, n)'
<1> DEFINE m == request[t].seen + 1
           T == Cardinality(Threads)
<1>1. /\ m \in 1..OTP_MAX_FAILED_ATTEMPTS
      /\ code'[v].failed_attempts = m
  <2>1. request[t].seen \in Nat /\ request[t].seen < OTP_MAX_FAILED_ATTEMPTS
    BY RequestFields DEF IncrementFailedAttempts
  <2>2. code'[v].failed_attempts = m
    BY CounterIncrements
  <2>3. QED  BY <2>1, <2>2, VerificationAssumption
<1>2. counted[v] \in [1..OTP_MAX_FAILED_ATTEMPTS -> Nat]
  BY CountedTyped
<1>3. counted'[v] = [counted[v] EXCEPT ![m] = @ + 1]
  BY <1>1 DEF IncrementFailedAttempts, TypeOK
<1>4. /\ request'[t].step = "recount"
      /\ \A s \in Threads \ {t} : request'[s] = request[s]
  <2>1. Continue(t, "recount")
    BY DEF IncrementFailedAttempts
  <2>2. /\ request'[t] = [request[t] EXCEPT !.step = "recount"]
        /\ \A s \in Threads \ {t} : request'[s] = request[s]
    BY <2>1, Moves DEF StepName
  <2>3. QED  BY <2>2 DEF TypeOK, Request
<1>5. Guessing(v, n)' = Guessing(v, n) \ {t}
  BY <1>4 DEF Guessing
<1>6. /\ counted[v][n] + Cardinality(Guessing(v, n)) <= T * Chances(v, n)
      /\ counted[v][n] \in Nat /\ Chances(v, n) \in Nat
  BY CountedTyped DEF GuessesInHand
<1>7. T \in Nat /\ T * Chances(v, n) \in Nat
  BY <1>6, GuessingFinite
<1>8. /\ Cardinality(Guessing(v, n)) \in Nat
      /\ Cardinality(Guessing(v, n)') \in Nat
      /\ Cardinality(Guessing(v, n)') <= Cardinality(Guessing(v, n))
  BY <1>5, GuessingFinite
<1> HIDE DEF T
<1>9. CASE n = m
  <2>1. t \in Guessing(v, n)
    BY <1>9 DEF Guessing, IncrementFailedAttempts
  <2>2. Cardinality(Guessing(v, n)') = Cardinality(Guessing(v, n)) - 1
    BY <1>5, <2>1, GuessingFinite, FS_RemoveElement
  <2>3. counted'[v][n] = counted[v][n] + 1
    BY <1>1, <1>2, <1>3, <1>9
  <2>4. Chances(v, n)' = Chances(v, n)
    BY <1>1, <1>2, <1>3, <1>9 DEF Chances
  <2>5. code'[v].failed_attempts # n - 1
    BY <1>1, <1>9
  <2>6. QED  BY <1>6, <1>7, <1>8, <2>2, <2>3, <2>4, <2>5 DEF T
<1>10. CASE n = m + 1
  <2>1. counted'[v][n] = counted[v][n]
    BY <1>1, <1>2, <1>3, <1>10
  <2>2. Chances(v, n)' = Chances(v, n) + 1
    <3>1. n # 1 /\ n - 1 = m
      BY <1>1, <1>10
    <3>2. Chances(v, n) = counted[v][m] /\ Chances(v, n)' = counted'[v][m]
      BY <3>1 DEF Chances
    <3>3. counted'[v][m] = counted[v][m] + 1
      BY <1>1, <1>2, <1>3
    <3>4. QED  BY <3>2, <3>3
  <2>3. T * Chances(v, n)' = T * Chances(v, n) + T
    BY <1>6, <1>7, <2>2
  <2>4. QED  BY <1>6, <1>7, <1>8, <2>1, <2>3 DEF T
<1>11. CASE n # m /\ n # m + 1
  <2>1. counted'[v][n] = counted[v][n]
    BY <1>1, <1>2, <1>3, <1>11
  <2>2. Chances(v, n)' = Chances(v, n)
    BY <1>1, <1>2, <1>3, <1>11 DEF Chances
  <2>3. code'[v].failed_attempts # n - 1
    BY <1>1, <1>11
  <2>4. QED  BY <1>6, <1>7, <1>8, <2>1, <2>2, <2>3 DEF T
<1>12. QED  BY <1>9, <1>10, <1>11

LEMMA GuessesStep ==
    ASSUME TypeOK, RequestsValid, CodesInserted, FreshUncounted, GuessesInHand,
           [Next]_vars
    PROVE  GuessesInHand'
<1> SUFFICES ASSUME NEW v \in Codes, NEW n \in 1..OTP_MAX_FAILED_ATTEMPTS
             PROVE  /\ counted'[v][n] + Cardinality(Guessing(v, n)')
                          <= Cardinality(Threads) * Chances(v, n)'
                    /\ code'[v].failed_attempts = n - 1 =>
                          counted'[v][n] + Cardinality(Threads)
                              <= Cardinality(Threads) * Chances(v, n)'
  BY DEF GuessesInHand
<1>1. CASE \E t \in Threads : IncrementFailedAttempts(t) /\ request[t].code = v
  BY <1>1, GuessesHere
<1>2. CASE \E t \in Threads : IncrementFailedAttempts(t) /\ request[t].code # v
  <2>1. PICK t \in Threads : IncrementFailedAttempts(t) /\ request[t].code # v
    BY <1>2
  <2>2. code'[v] = code[v]
    BY <2>1, CounterIncrements
  <2>3. counted'[v] = counted[v]
    BY <2>1 DEF IncrementFailedAttempts, TypeOK
  <2>4. QED  BY <2>2, <2>3, GuessesElsewhere
<1>3. CASE \A t \in Threads : ~IncrementFailedAttempts(t)
  <2>1. code'[v].failed_attempts = code[v].failed_attempts
    BY <1>3, CounterWrites DEF FreshUncounted
  <2>2. counted'[v] = counted[v]
    BY <1>3, GuessesCounted
  <2>3. QED  BY <2>1, <2>2, GuessesElsewhere
<1>4. QED  BY <1>1, <1>2, <1>3

\* The threads are finitely many, and so are those that accept a code.
LEMMA AcceptingFinite ==
    ASSUME NEW v
    PROVE  /\ IsFiniteSet(Accepting(v))
           /\ Cardinality(Accepting(v)) \in Nat
           /\ Cardinality(Accepting(v)) <= Cardinality(Threads)
           /\ Cardinality(Threads) \in Nat
           /\ \A S \in SUBSET Accepting(v) :
                 Cardinality(S) \in Nat /\ Cardinality(S) <= Cardinality(Accepting(v))
<1>1. IsFiniteSet(Threads)
  BY VerificationAssumption
<1>2. Accepting(v) \in SUBSET Threads
  BY DEF Accepting
<1>3. IsFiniteSet(Accepting(v)) /\ Cardinality(Accepting(v)) <= Cardinality(Threads)
  BY <1>1, <1>2, FS_Subset
<1>4. ASSUME NEW S \in SUBSET Accepting(v)
      PROVE  Cardinality(S) \in Nat /\ Cardinality(S) <= Cardinality(Accepting(v))
  BY <1>3, FS_Subset, FS_CardinalityType
<1>5. QED  BY <1>1, <1>3, <1>4, FS_CardinalityType

LEMMA EffectsStep ==
    ASSUME TypeOK, RequestsValid, CodesInserted, UnusedIsUntouched,
           EffectsBounded, [Next]_vars
    PROVE  EffectsBounded'
<1> SUFFICES ASSUME NEW v \in Codes
             PROVE  effects'[v] + Cardinality(Accepting(v)') <= Cardinality(Threads)
  BY DEF EffectsBounded
<1>1. effects[v] \in Nat /\ effects[v] + Cardinality(Accepting(v)) <= Cardinality(Threads)
  BY DEF TypeOK, EffectsBounded
<1>2. ASSUME NEW s \in Threads, LoadsActive(s), request'[s].code = v
      PROVE  ~code[v].used
  BY <1>2 DEF LoadsActive, ActiveCodes
<1>3. CASE \A s \in Accepting(v)' : StaysWithCode(s)
  <2>1. Accepting(v)' \subseteq Accepting(v)
    BY <1>3 DEF StaysWithCode, Accepting
  <2>2. CASE \E t \in Threads : TakeEffect(t) /\ request[t].code = v
    <3>1. PICK t \in Threads : TakeEffect(t) /\ request[t].code = v
      BY <2>2
    <3>2. t \in Accepting(v) /\ effects'[v] = effects[v] + 1
      BY <3>1 DEF Accepting, TakeEffect, TypeOK
    <3>3. request'[t].step = "idle"
      BY <3>1, Moves DEF TakeEffect, Idle
    <3>4. Accepting(v)' \in SUBSET (Accepting(v) \ {t})
      BY <2>1, <3>3 DEF Accepting
    <3>5. /\ IsFiniteSet(Accepting(v) \ {t})
          /\ Cardinality(Accepting(v) \ {t}) = Cardinality(Accepting(v)) - 1
      BY <3>2, AcceptingFinite, FS_RemoveElement
    <3>6. Cardinality(Accepting(v)') <= Cardinality(Accepting(v)) - 1
      BY <3>4, <3>5, FS_Subset
    <3>7. Cardinality(Accepting(v)') \in Nat
      BY <2>1, AcceptingFinite
    <3>8. QED  BY <1>1, <3>2, <3>6, <3>7, AcceptingFinite
  <2>3. CASE ~\E t \in Threads : TakeEffect(t) /\ request[t].code = v
    <3>1. effects'[v] = effects[v]
      <4>1. ASSUME NEW t \in Threads, TakeEffect(t)
            PROVE  effects'[v] = effects[v]
        BY <2>3, <4>1 DEF TakeEffect, TypeOK
      <4>2. QED  BY <4>1, EffectsCounted
    <3>2. QED  BY <1>1, <2>1, <3>1, AcceptingFinite
  <2>4. QED  BY <2>2, <2>3
<1>4. CASE ~\A s \in Accepting(v)' : StaysWithCode(s)
  <2>1. PICK s \in Threads : /\ request'[s].code = v
                             /\ request'[s].step \in {"use", "effect"}
                             /\ ~StaysWithCode(s)
    BY <1>4 DEF Accepting
  <2>2. LoadsActive(s)
    BY <2>1, Progress DEF CodeStep
  <2>3. ~code[v].used
    BY <1>2, <2>1, <2>2
  <2>4. effects[v] = 0 /\ ~\E t \in Threads : TakeEffect(t) /\ request[t].code = v
    BY <2>3 DEF UnusedIsUntouched, TakeEffect
  <2>5. effects'[v] = 0
    <3>1. ASSUME NEW t \in Threads, TakeEffect(t)
          PROVE  effects'[v] = effects[v]
      BY <2>4, <3>1 DEF TakeEffect, TypeOK
    <3>2. QED  BY <2>4, <3>1, EffectsCounted
  <2>6. Accepting(v)' \in SUBSET Threads
    BY DEF Accepting
  <2>7. /\ Cardinality(Accepting(v)') <= Cardinality(Threads)
        /\ Cardinality(Accepting(v)') \in Nat
    BY <2>6, VerificationAssumption, FS_Subset, FS_CardinalityType
  <2>8. QED  BY <2>5, <2>7
<1>5. QED  BY <1>3, <1>4

\* Which requests are about to insert a code is decided by two steps.
LEMMA InsertingStep ==
    ASSUME TypeOK, RequestsValid, [Next]_vars, NEW t \in Threads, NEW k \in Keys,
           Inserting(t, k)', ~Inserting(t, k)
    PROVE  ActiveCodes(k)' = {}
<1>1. request'[t] # request[t] /\ request'[t].step = "insert" /\ request'[t].key = k
  BY DEF Inserting
<1>2. ASSUME NEW s \in Threads, request'[s].step # "insert",
             \A u \in Threads \ {s} : request'[u] = request[u]
      PROVE  FALSE
  BY <1>1, <1>2
<1>3. ASSUME NEW s \in Threads, Finish(s)
      PROVE  FALSE
  BY <1>2, <1>3, Moves DEF Idle
<1>4. ASSUME NEW s \in Threads, NEW step \in StepName \ {"insert"}, Continue(s, step)
      PROVE  FALSE
  <2>1. /\ request'[s] = [request[s] EXCEPT !.step = step]
        /\ \A u \in Threads \ {s} : request'[u] = request[u]
    BY <1>4, Moves
  <2>2. request'[s].step = step
    BY <2>1 DEF TypeOK, Request
  <2>3. QED  BY <1>2, <2>1, <2>2
<1>5. ASSUME NEW s \in Threads, Continue(s, "insert")
      PROVE  s = t /\ request[t].key = k
  <2>1. /\ request'[s] = [request[s] EXCEPT !.step = "insert"]
        /\ \A u \in Threads \ {s} : request'[u] = request[u]
    BY <1>5, Moves DEF StepName
  <2>2. s = t
    BY <1>1, <2>1
  <2>3. request'[t].key = request[t].key
    BY <2>1, <2>2 DEF TypeOK, Request
  <2>4. QED  BY <1>1, <2>2, <2>3
<1>6. ASSUME NEW s \in Threads, NEW r \in Request, Begin(s, r), r.step # "insert"
      PROVE  FALSE
  BY <1>2, <1>6, BeginsTyped
<1>7. ASSUME NEW s \in Threads, NEW l \in Keys, StartSend(s, l)
      PROVE  FALSE
  <2>1. /\ [Idle EXCEPT !.step = "send", !.key = l] \in Request
        /\ [Idle EXCEPT !.step = "send", !.key = l].step # "insert"
    BY DEF Idle, Request
  <2>2. QED  BY <1>6, <1>7, <2>1 DEF StartSend
<1>8. ASSUME NEW s \in Threads, ReadActive(s)
      PROVE  ActiveCodes(k)' = {}
  <2>1. CASE ActiveCodes(request[s].key) = {}
    <3>1. Continue(s, "insert")
      BY <1>8, <2>1 DEF ReadActive
    <3>2. ActiveCodes(k) = {}
      BY <1>5, <2>1, <3>1
    <3>3. code' = code
      BY <1>8 DEF ReadActive
    <3>4. QED  BY <3>2, <3>3 DEF ActiveCodes
  <2>2. CASE ActiveCodes(request[s].key) # {}
    <3>1. Continue(s, "invalidate")
      BY <1>8, <2>2 DEF ReadActive
    <3>2. QED  BY <1>4, <3>1 DEF StepName
  <2>3. QED  BY <2>1, <2>2
<1>9. ASSUME NEW s \in Threads, InvalidateActive(s)
      PROVE  ActiveCodes(k)' = {}
  <2>1. request[s].key = k
    BY <1>5, <1>9 DEF InvalidateActive
  <2>2. ASSUME NEW v \in ActiveCodes(k)
        PROVE  code'[v].invalidated
    <3>1. v \in Codes /\ code[v] \in CodeRow
      BY DEF ActiveCodes, TypeOK
    <3>2. code'[v] = [code[v] EXCEPT !.invalidated = TRUE]
      BY <1>9, <2>1, <2>2, <3>1 DEF InvalidateActive, Replaced
    <3>3. QED  BY <3>1, <3>2 DEF CodeRow
  <2>3. ActiveCodes(k)' \subseteq ActiveCodes(k)
    <3>1. \A v \in Codes, u \in Threads : ~CreateVerification(u, v)
      BY <1>9, <1>5, <1>1 DEF InvalidateActive, CreateVerification, TypeOK, Request
    <3>2. QED  BY <3>1, ActiveShrinks
  <2>4. QED  BY <2>2, <2>3 DEF ActiveCodes
<1>10. ASSUME NEW s \in Threads, NEW v \in Codes, CreateVerification(s, v)
       PROVE  FALSE
  <2>1. /\ request'[s] = [request[s] EXCEPT !.step = "mail", !.code = v]
        /\ \A u \in Threads \ {s} : request'[u] = request[u]
    BY <1>10 DEF CreateVerification, TypeOK, Request
  <2>2. request'[s].step = "mail"
    BY <2>1 DEF TypeOK, Request
  <2>3. QED  BY <1>2, <2>1, <2>2
<1>11. ASSUME NEW s \in Threads, NEW l \in Keys, NEW v \in Codes,
              NEW p \in mailed \cup {WrongOtp}, LoadForVerify(s, l, v, p)
       PROVE  FALSE
  <2> DEFINE r(step) == [step |-> step, key |-> l, code |-> v,
                         seen |-> code[v].failed_attempts]
  <2>1. PICK step \in {"retire", "use", "count"} : Begin(s, r(step))
    BY <1>11 DEF LoadForVerify
  <2>2. r(step) \in Request /\ r(step).step # "insert"
    BY VerificationAssumption, NewRequests DEF StepName
  <2>3. QED  BY <1>6, <2>1, <2>2
<1>12. ASSUME NEW s \in Threads, \/ IncrementFailedAttempts(s) \/ ReadCount(s)
                                 \/ MarkUsed(s)
       PROVE  FALSE
  <2>1. \/ Continue(s, "recount") \/ Continue(s, "retire")
        \/ Continue(s, "effect") \/ Finish(s)
    BY <1>12 DEF IncrementFailedAttempts, ReadCount, MarkUsed
  <2>2. QED  BY <1>3, <1>4, <2>1 DEF StepName
<1>13. ASSUME NEW s \in Threads, SendEmail(s) \/ Retire(s) \/ TakeEffect(s) \/ Abort(s)
       PROVE  FALSE
  BY <1>3, <1>13 DEF SendEmail, Retire, TakeEffect, Abort
<1>14. ASSUME NEW v \in Codes, Age(v)
       PROVE  FALSE
  BY <1>1, <1>14 DEF Age
<1>15. ASSUME NEW expired \in SUBSET Codes, Cleanup(expired)
       PROVE  FALSE
  BY <1>1, <1>15 DEF Cleanup
<1>16. Next
  BY <1>1 DEF vars
<1>17. QED
  BY <1>16, Steps, <1>7, <1>8, <1>9, <1>10, <1>11, <1>12, <1>13, <1>14, <1>15

\* An owner map stays one as long as no code becomes active.
LEMMA OwnersKept ==
    ASSUME NEW k \in Keys, Owners(k) # {},
           ActiveCodes(k)' \subseteq ActiveCodes(k),
           \A t \in Threads : Inserting(t, k)' =>
               Inserting(t, k) \/ ActiveCodes(k)' = {}
    PROVE  Owners(k)' # {}
<1>1. PICK f \in Owners(k) : TRUE
  OBVIOUS
<1>0. PICK A : A = ActiveCodes(k)'
  OBVIOUS
<1> DEFINE g == [v \in A |-> f[v]]
<1>2. /\ f \in [ActiveCodes(k) -> Threads]
      /\ \A v, w \in ActiveCodes(k) : f[v] = f[w] => v = w
      /\ \A v \in ActiveCodes(k) : ~Inserting(f[v], k)
  BY <1>1 DEF Owners, Injection, IsInjective
<1>3. g \in Injection(A, Threads)
  BY <1>0, <1>2 DEF Injection, IsInjective
<1>4. ASSUME NEW v \in A
      PROVE  g[v] = f[v] /\ ~Inserting(g[v], k)'
  <2>1. ~Inserting(f[v], k)'
    BY <1>0, <1>2, <1>4
  <2>2. QED  BY <2>1
<1>5. g \in Owners(k)'
  BY <1>0, <1>3, <1>4 DEF Owners
<1>6. QED  BY <1>5

LEMMA OwnedStep ==
    ASSUME TypeOK, RequestsValid, CodesOwned, [Next]_vars
    PROVE  CodesOwned'
<1> SUFFICES ASSUME NEW k \in Keys
             PROVE  Owners(k)' # {}
  BY DEF CodesOwned
<1>1. Owners(k) # {}
  BY DEF CodesOwned
<1>2. \A t \in Threads : Inserting(t, k)' => Inserting(t, k) \/ ActiveCodes(k)' = {}
  BY InsertingStep
<1>3. CASE ActiveCodes(k)' \subseteq ActiveCodes(k)
  BY <1>1, <1>2, <1>3, OwnersKept
<1>4. CASE ~(ActiveCodes(k)' \subseteq ActiveCodes(k))
  <2>1. PICK t \in Threads, v \in Codes : CreateVerification(t, v)
    BY <1>4, ActiveShrinks
  <2>2. request[t].key \in Keys
    BY <2>1, RequestFields DEF CreateVerification
  <2>3. \A w \in Codes \ {v} : code'[w] = code[w]
    BY <2>1 DEF CreateVerification, TypeOK
  <2>4. code'[v] = NewCode(request[t].key, v) /\ code'[v].key = request[t].key
    BY <2>1, <2>2, NewRow DEF CreateVerification, TypeOK
  <2>5. request[t].key = k /\ v \notin ActiveCodes(k)
        /\ ActiveCodes(k)' \subseteq ActiveCodes(k) \cup {v}
    BY <1>4, <2>3, <2>4 DEF ActiveCodes
  <2>6. Inserting(t, k)
    BY <2>1, <2>5 DEF Inserting, CreateVerification
  <2>7. PICK f \in Owners(k) : TRUE
    BY <1>1
  <2>8. /\ f \in [ActiveCodes(k) -> Threads]
        /\ \A w, x \in ActiveCodes(k) : f[w] = f[x] => w = x
        /\ \A w \in ActiveCodes(k) : ~Inserting(f[w], k) /\ f[w] # t
    BY <2>6, <2>7 DEF Owners, Injection, IsInjective
  <2>a. PICK A : A = ActiveCodes(k)'
    OBVIOUS
  <2> DEFINE g == [w \in A |-> IF w = v THEN t ELSE f[w]]
  <2>9. g \in [A -> Threads]
    BY <2>a, <2>5, <2>8
  <2>10. \A w, x \in A : g[w] = g[x] => w = x
    BY <2>a, <2>5, <2>8
  <2>11. g \in Injection(A, Threads)
    BY <2>9, <2>10 DEF Injection, IsInjective
  <2>12. A # {}
    BY <1>4, <2>a
  <2>13. ~Inserting(t, k)'
    BY <2>1 DEF CreateVerification, Inserting, TypeOK, Request
  <2>14. ASSUME NEW w \in A
         PROVE  ~Inserting(g[w], k)'
    <3>1. CASE w = v
      BY <2>13, <3>1
    <3>2. CASE w # v
      <4>1. g[w] = f[w] /\ f[w] \in Threads /\ ~Inserting(f[w], k)
        BY <2>a, <2>5, <2>8, <3>2
      <4>2. QED  BY <1>2, <2>a, <2>12, <4>1
    <3>3. QED  BY <3>1, <3>2
  <2>15. g \in Owners(k)'
    BY <2>a, <2>11, <2>14 DEF Owners
  <2>16. QED  BY <2>15
<1>5. QED  BY <1>3, <1>4

-----------------------------------------------------------------------------
(***************************************************************************)
(* The theorems.                                                           *)
(***************************************************************************)
LEMMA InitIInv == Init => IInv
<1> SUFFICES ASSUME Init PROVE IInv
  OBVIOUS
<1> USE VerificationAssumption DEF Init
<1>1. TypeOK
  BY IdleRequest DEF TypeOK, NoCode, CodeRow
<1>2. RequestsValid
  BY IdleRequest DEF RequestsValid
<1>3. CodesInserted
  BY DEF CodesInserted, Idle, NoCode
<1>4. UnusedIsUntouched
  BY DEF UnusedIsUntouched, Idle
<1>5. AttemptsWithinLimit
  BY DEF AttemptsWithinLimit, NoCode
<1>6. EffectsBounded
  <2>1. ASSUME NEW v \in Codes
        PROVE  effects[v] + Cardinality(Accepting(v)) <= Cardinality(Threads)
    <3>1. Accepting(v) = {} /\ effects[v] = 0
      BY DEF Accepting, Idle
    <3>2. Cardinality(Accepting(v)) = 0 /\ Cardinality(Threads) \in Nat
      BY <3>1, AcceptingFinite, FS_EmptySet
    <3> HIDE DEF Init
    <3>3. QED  BY <3>1, <3>2
  <2>2. QED  BY <2>1 DEF EffectsBounded
<1>7. CodesOwned
  <2>1. ASSUME NEW k \in Keys
        PROVE  Owners(k) # {}
    <3>1. ActiveCodes(k) = {}
      BY DEF ActiveCodes, NoCode
    <3>2. [v \in {} |-> v] \in Owners(k)
      BY <3>1 DEF Owners, Injection, IsInjective
    <3>3. QED  BY <3>2
  <2>2. QED  BY <2>1 DEF CodesOwned
<1>8. FreshUncounted
  BY DEF FreshUncounted, NoCode
<1>9. GuessesInHand
  <2>1. ASSUME NEW v \in Codes, NEW n \in 1..OTP_MAX_FAILED_ATTEMPTS
        PROVE  /\ counted[v][n] + Cardinality(Guessing(v, n))
                     <= Cardinality(Threads) * Chances(v, n)
               /\ code[v].failed_attempts = n - 1 =>
                     counted[v][n] + Cardinality(Threads)
                         <= Cardinality(Threads) * Chances(v, n)
    <3>1. Guessing(v, n) = {} /\ counted[v][n] = 0 /\ code[v].failed_attempts = 0
      BY DEF Guessing, Idle, NoCode
    <3>2. Cardinality(Guessing(v, n)) = 0 /\ Cardinality(Threads) \in Nat
      BY <3>1, GuessingFinite, FS_EmptySet
    <3>3. CASE n = 1
      <4>1. Chances(v, n) = 1
        BY <3>3 DEF Chances
      <4>2. QED  BY <3>1, <3>2, <4>1
    <3>4. CASE n # 1
      <4>1. Chances(v, n) = 0
        BY <3>4 DEF Chances
      <4>2. QED  BY <3>1, <3>2, <3>4, <4>1
    <3>5. QED  BY <3>3, <3>4
  <2>2. QED  BY <2>1 DEF GuessesInHand
<1>10. QED
  BY <1>1, <1>2, <1>3, <1>4, <1>5, <1>6, <1>7, <1>8, <1>9 DEF IInv

\* The invariant holds in every reachable state.
THEOREM Invariance == Spec => []IInv
<1>1. IInv /\ [Next]_vars => IInv'
  BY TypeStep, RequestsStep, InsertedStep, UntouchedStep, AttemptsStep,
     EffectsStep, OwnedStep, FreshStep, GuessesStep DEF IInv
<1>2. QED
  BY InitIInv, <1>1, PTL DEF Spec

\* Every state of the codes and of the requests has its type.
THEOREM TypeCorrect == Spec => []TypeOK
  BY Invariance, PTL DEF IInv

\* A code takes effect at most once per thread of the server, however many
\* requests present its OTP and however often (mark_used).
THEOREM EffectsCorrect == Spec => []EffectsBounded
  BY Invariance, PTL DEF IInv

\* A key never has more active codes than the server has threads, however
\* many sends and resends there were (send_verification).
THEOREM ActiveCorrect == Spec => []ActiveBounded
<1>1. IInv => ActiveBounded
  <2> SUFFICES ASSUME IInv, NEW k \in Keys
               PROVE  Cardinality(ActiveCodes(k)) <= Cardinality(Threads)
    BY DEF ActiveBounded
  <2>1. PICK f \in Injection(ActiveCodes(k), Threads) : TRUE
    BY DEF IInv, CodesOwned, Owners
  <2>2. QED  BY <2>1, VerificationAssumption, FS_Injection
<1>2. QED
  BY Invariance, <1>1, PTL

\* The counter of failed attempts never passes OTP_MAX_FAILED_ATTEMPTS, also
\* when increments overlap and processes die (increment_failed_attempts).
THEOREM AttemptsCorrect == Spec => []AttemptsWithinLimit
  BY Invariance, PTL DEF IInv

\* However increments overlap, the wrong OTPs that are tried at one code are
\* bounded by the limit and the number of threads: each that was counted as the
\* n-th failed attempt makes way for at most one more of every thread
\* (increment_failed_attempts).
THEOREM GuessesCorrect == Spec => []GuessesBounded
<1>1. IInv => GuessesBounded
  <2> SUFFICES ASSUME IInv, NEW v \in Codes, NEW n \in 1..OTP_MAX_FAILED_ATTEMPTS
               PROVE  counted[v][n] <= Cardinality(Threads) * Chances(v, n)
    BY DEF GuessesBounded
  <2>1. /\ counted[v][n] + Cardinality(Guessing(v, n)) <= Cardinality(Threads) * Chances(v, n)
        /\ counted[v][n] \in Nat /\ Chances(v, n) \in Nat
    BY CountedTyped DEF IInv, GuessesInHand
  <2>2. Cardinality(Threads) * Chances(v, n) \in Nat
    BY <2>1, GuessingFinite
  <2>3. QED  BY <2>1, <2>2, GuessingFinite
<1>2. QED
  BY Invariance, <1>1, PTL
=============================================================================
