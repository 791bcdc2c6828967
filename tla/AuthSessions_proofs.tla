------------------------- MODULE AuthSessions_proofs ------------------------
(***************************************************************************)
(* Proofs about sign-in sessions, for any number of users, sessions,       *)
(* tokens, passwords and threads: what overlapping refreshes, revocations  *)
(* and changes of the password can do, and what they cannot.               *)
(***************************************************************************)
EXTENDS AuthSessions, FiniteSetTheorems, TLAPS

-----------------------------------------------------------------------------
(***************************************************************************)
(* The inductive invariant.                                                *)
(***************************************************************************)

\* What a request carries when it gets to a step that uses it.  The token of
\* a refresh is on record for its session, or for none any more.
RequestValid(r) ==
    /\ r.step \in {"create", "set_password"} => r.user \in Users /\ r.password \in Passwords
    /\ r.step = "revoke_all" => r.user \in Users
    /\ r.step \in {"rotate", "revoke"} => r.session \in Sessions
    /\ r.step = "rotate" =>
          /\ r.token \in issued
          /\ \A s \in Sessions : session[s].token = r.token => s = r.session

RequestsValid == \A t \in Threads : RequestValid(request[t])

\* A token is issued once, to one session, and goes when it is accepted.
TokensOwned ==
    /\ \A s \in Sessions : session[s].token # Null => session[s].token \in issued
    /\ \A s, w \in Sessions :
          session[s].token # Null /\ session[s].token = session[w].token => s = w
    /\ \A k \in Tokens : accepted[k] # 0 =>
          k \in issued /\ \A s \in Sessions : session[s].token # k

\* The sessions of superseded passwords that nobody has revoked.  Those that
\* have expired are among them: a refresh that was under way renews them.
Lingering(u) ==
    {s \in Sessions : session[s].user = u /\ ~session[s].revoked
                                          /\ session[s].login # password[u]}

LingeringBounded ==
    \A u \in Users \ torn :
        Changing(u) = {} =>
            Cardinality(Lingering(u)) + Cardinality(StaleLogins(u))
                < Cardinality(Threads)

IInv ==
    /\ TypeOK
    /\ RequestsValid
    /\ TokensOwned
    /\ AcceptedBounded
    /\ LingeringBounded

-----------------------------------------------------------------------------
(***************************************************************************)
(* The steps.                                                              *)
(***************************************************************************)
LEMMA Steps ==
    ASSUME Next
    PROVE  \/ \E t \in Threads, u \in Users : CheckPassword(t, u)
           \/ \E t \in Threads, s \in Sessions, k \in Tokens : CreateSession(t, s, k)
           \/ \E t \in Threads, s \in Sessions, k \in Tokens : LoadForRefresh(t, s, k)
           \/ \E t \in Threads, k \in Tokens : RotateToken(t, k)
           \/ \E t \in Threads, s \in Sessions, k \in Tokens : LoadForLogout(t, s, k)
           \/ \E t \in Threads, u \in Users, s \in Sessions : LoadForRevoke(t, u, s)
           \/ \E t \in Threads : RevokeSession(t)
           \/ \E t \in Threads, u \in Users : LogoutAll(t, u)
           \/ \E t \in Threads, u \in Users, new \in Passwords : StartPasswordChange(t, u, new)
           \/ \E t \in Threads : SetPassword(t)
           \/ \E t \in Threads : RevokeAll(t)
           \/ \E t \in Threads : Abort(t)
           \/ \E s \in Sessions : Expire(s)
           \/ CleanupExpired
           \/ CleanupRevoked
BY DEF Next, Serve, Work

LEMMA IdleTyped == Idle \in Request /\ Idle.step = "idle"
BY SessionAssumption DEF Idle, Request

\* What a thread does to its request.
LEMMA Moves ==
    ASSUME TypeOK, NEW t \in Threads
    PROVE  /\ Finish(t) => /\ request' \in [Threads -> Request] /\ request'[t] = Idle
                           /\ \A w \in Threads \ {t} : request'[w] = request[w]
           /\ \A r \in Request : Begin(t, r) =>
                  /\ request' \in [Threads -> Request] /\ request'[t] = r
                  /\ \A w \in Threads \ {t} : request'[w] = request[w]
BY IdleTyped DEF TypeOK, Finish, Begin

LEMMA RowsTyped ==
    /\ NoSession \in SessionRow /\ Gone \in SessionRow
    /\ \A row \in SessionRow :
          /\ [row EXCEPT !.revoked = TRUE] \in SessionRow
          /\ [row EXCEPT !.expired = TRUE] \in SessionRow
          /\ \A k \in Tokens : Rotated(row, k) \in SessionRow
BY SessionAssumption DEF NoSession, Gone, SessionRow, Rotated

\* The rows of sessions, whoever writes them.
LEMMA SessionStep ==
    ASSUME TypeOK, RequestsValid, Next
    PROVE  session' \in [Sessions -> SessionRow]
<1> USE RowsTyped DEF TypeOK
<1>1. ASSUME NEW t \in Threads, NEW s \in Sessions, NEW k \in Tokens, CreateSession(t, s, k)
      PROVE  session' \in [Sessions -> SessionRow]
    <2>1. request[t].user \in Users /\ request[t].password \in Passwords
        BY <1>1 DEF CreateSession, RequestsValid, RequestValid
    <2>2. NewSession(request[t], s, k) \in SessionRow
        BY <2>1 DEF NewSession, SessionRow
    <2> QED
        BY <1>1, <2>2 DEF CreateSession
<1>2. ASSUME NEW t \in Threads, NEW k \in Tokens, RotateToken(t, k)
      PROVE  session' \in [Sessions -> SessionRow]
    <2>1. request[t].session \in Sessions
        BY <1>2 DEF RotateToken, RequestsValid, RequestValid
    <2>2. Rotated(session[request[t].session], k) \in SessionRow
        BY <2>1
    <2> QED
        BY <1>2, <2>1, <2>2 DEF RotateToken
<1>3. ASSUME NEW t \in Threads, RevokeSession(t)
      PROVE  session' \in [Sessions -> SessionRow]
    <2>1. request[t].session \in Sessions
        BY <1>3 DEF RevokeSession, RequestsValid, RequestValid
    <2> QED
        BY <1>3, <2>1 DEF RevokeSession
<1>4. ASSUME NEW u PROVE AllRevoked(u) \in [Sessions -> SessionRow]
    BY DEF AllRevoked
<1>5. ASSUME NEW deleted PROVE Without(deleted) \in [Sessions -> SessionRow]
    BY DEF Without
<1>6. ASSUME NEW s \in Sessions, Expire(s) PROVE session' \in [Sessions -> SessionRow]
    BY <1>6 DEF Expire
<1> QED
    BY Steps, <1>1, <1>2, <1>3, <1>4, <1>5, <1>6
       DEF CheckPassword, LoadForRefresh, LoadForLogout, LoadForRevoke, LogoutAll,
           StartPasswordChange, SetPassword, RevokeAll, Abort, CleanupExpired, CleanupRevoked

LEMMA RequestStep ==
    ASSUME TypeOK, RequestsValid, Next
    PROVE  request' \in [Threads -> Request]
<1> USE DEF TypeOK
<1>1. ASSUME NEW t \in Threads, NEW u \in Users, CheckPassword(t, u)
      PROVE  request' \in [Threads -> Request]
    <2>1. [Idle EXCEPT !.step = "create", !.user = u, !.password = password[u]] \in Request
        BY SessionAssumption DEF Idle, Request
    <2> QED
        BY <1>1, <2>1, Moves DEF CheckPassword
<1>2. ASSUME NEW t \in Threads, NEW s \in Sessions, NEW k \in Tokens, LoadForRefresh(t, s, k)
      PROVE  request' \in [Threads -> Request]
    <2>1. [Idle EXCEPT !.step = "rotate", !.session = s, !.token = k] \in Request
        BY SessionAssumption DEF Idle, Request
    <2> QED
        BY <1>2, <2>1, Moves DEF LoadForRefresh
<1>3. ASSUME NEW t \in Threads, NEW s \in Sessions,
             Begin(t, [Idle EXCEPT !.step = "revoke", !.session = s])
      PROVE  request' \in [Threads -> Request]
    <2>1. [Idle EXCEPT !.step = "revoke", !.session = s] \in Request
        BY SessionAssumption DEF Idle, Request
    <2> QED
        BY <1>3, <2>1, Moves
<1>4. ASSUME NEW t \in Threads, NEW u \in Users, NEW new \in Passwords,
             StartPasswordChange(t, u, new)
      PROVE  request' \in [Threads -> Request]
    <2>1. [Idle EXCEPT !.step = "set_password", !.user = u, !.password = new] \in Request
        BY SessionAssumption DEF Idle, Request
    <2> QED
        BY <1>4, <2>1, Moves DEF StartPasswordChange
<1>5. ASSUME NEW t \in Threads, SetPassword(t)
      PROVE  request' \in [Threads -> Request]
    <2>1. [request[t] EXCEPT !.step = "revoke_all"] \in Request
        BY DEF Request
    <2> QED
        BY <1>5, <2>1 DEF SetPassword
<1>6. ASSUME NEW t \in Threads, Finish(t)
      PROVE  request' \in [Threads -> Request]
    BY <1>6, Moves
<1> QED
    BY Steps, <1>1, <1>2, <1>3, <1>4, <1>5, <1>6
       DEF CreateSession, RotateToken, LoadForLogout, LoadForRevoke, RevokeSession, LogoutAll,
           RevokeAll, Abort, Expire, CleanupExpired, CleanupRevoked

LEMMA TypeStep ==
    ASSUME TypeOK, RequestsValid, Next
    PROVE  TypeOK'
<1> USE DEF TypeOK
<1>1. password' \in [Users -> Passwords]
    BY Steps DEF CheckPassword, CreateSession, LoadForRefresh, RotateToken, LoadForLogout,
           LoadForRevoke, RevokeSession, LogoutAll, StartPasswordChange, SetPassword, RevokeAll,
           Abort, Expire, CleanupExpired, CleanupRevoked, accountVars, RequestsValid, RequestValid
<1>2. chosen' \in [Users -> SUBSET Passwords]
    BY Steps DEF CheckPassword, CreateSession, LoadForRefresh, RotateToken, LoadForLogout,
           LoadForRevoke, RevokeSession, LogoutAll, StartPasswordChange, SetPassword, RevokeAll,
           Abort, Expire, CleanupExpired, CleanupRevoked, accountVars
<1>3. issued' \subseteq Tokens /\ accepted' \in [Tokens -> Nat]
    <2>1. ASSUME NEW t \in Threads, NEW k \in Tokens, RotateToken(t, k)
          PROVE  issued' \subseteq Tokens /\ accepted' \in [Tokens -> Nat]
        <3>1. \A j \in Tokens : accepted[j] + 1 \in Nat
            OBVIOUS
        <3> QED
            BY <2>1, <3>1 DEF RotateToken
    <2> QED
      BY Steps, <2>1 DEF CheckPassword, CreateSession, LoadForRefresh, LoadForLogout,
           LoadForRevoke, RevokeSession, LogoutAll, StartPasswordChange, SetPassword, RevokeAll,
           Abort, Expire, CleanupExpired, CleanupRevoked, tokenVars
<1>4. torn' \subseteq Users
    BY Steps DEF CheckPassword, CreateSession, LoadForRefresh, RotateToken, LoadForLogout,
           LoadForRevoke, RevokeSession, LogoutAll, StartPasswordChange, SetPassword, RevokeAll,
           Abort, Expire, CleanupExpired, CleanupRevoked, accountVars, RequestsValid, RequestValid
<1> QED
    BY <1>1, <1>2, <1>3, <1>4, SessionStep, RequestStep

-----------------------------------------------------------------------------
(***************************************************************************)
(* Tokens.                                                                 *)
(***************************************************************************)

\* A step leaves the tokens of the sessions, or deletes them, or gives one
\* session a token that was never issued.
LEMMA TokenSteps ==
    ASSUME TypeOK, RequestsValid, Next
    PROVE  \/ /\ \A s \in Sessions : session'[s].token \in {session[s].token, Null}
              /\ issued' = issued /\ accepted' = accepted
           \/ \E s \in Sessions, k \in Tokens \ issued :
                 /\ session'[s].token = k
                 /\ \A w \in Sessions \ {s} : session'[w] = session[w]
                 /\ issued' = issued \cup {k}
                 /\ \/ accepted' = accepted
                    \/ \E t \in Threads : RotateToken(t, k) /\ s = request[t].session
<1> USE DEF TypeOK
<1> DEFINE Leaves == /\ \A s \in Sessions : session'[s].token \in {session[s].token, Null}
                     /\ issued' = issued /\ accepted' = accepted
           Gives == \E s \in Sessions, k \in Tokens \ issued :
                 /\ session'[s].token = k
                 /\ \A w \in Sessions \ {s} : session'[w] = session[w]
                 /\ issued' = issued \cup {k}
                 /\ \/ accepted' = accepted
                    \/ \E t \in Threads : RotateToken(t, k) /\ s = request[t].session
<1> SUFFICES Leaves \/ Gives
    OBVIOUS
<1>1. ASSUME NEW t \in Threads, NEW s \in Sessions, NEW k \in Tokens, CreateSession(t, s, k)
      PROVE  Gives
    <2>1. session'[s].token = k
        BY <1>1 DEF CreateSession, NewSession
    <2> QED
        BY <1>1, <2>1 DEF CreateSession
<1>2. ASSUME NEW t \in Threads, NEW k \in Tokens, RotateToken(t, k)
      PROVE  Gives
    <2>1. request[t].session \in Sessions
        BY <1>2 DEF RotateToken, RequestsValid, RequestValid
    <2>2. Rotated(session[request[t].session], k).token = k
        BY <2>1 DEF Rotated, SessionRow
    <2>3. session'[request[t].session].token = k
        BY <1>2, <2>1, <2>2 DEF RotateToken
    <2> QED
        BY <1>2, <2>1, <2>3 DEF RotateToken
<1> HIDE DEF Gives
<1>3. ASSUME UNCHANGED <<session, issued, accepted>> PROVE Leaves
    BY <1>3
<1>4. ASSUME NEW t \in Threads, RevokeSession(t) PROVE Leaves
    <2>1. request[t].session \in Sessions
        BY <1>4 DEF RevokeSession, RequestsValid, RequestValid
    <2>2. [session[request[t].session] EXCEPT !.revoked = TRUE].token = session[request[t].session].token
        BY <2>1 DEF SessionRow
    <2> QED
        BY <1>4, <2>1, <2>2 DEF RevokeSession, tokenVars
<1>5. ASSUME NEW u, session' = AllRevoked(u), issued' = issued, accepted' = accepted PROVE Leaves
    <2>1. \A s \in Sessions : [session[s] EXCEPT !.revoked = TRUE].token = session[s].token
        BY DEF SessionRow
    <2> QED
        BY <1>5, <2>1 DEF AllRevoked
<1>6. ASSUME NEW deleted, session' = Without(deleted), issued' = issued, accepted' = accepted
      PROVE  Leaves
    BY <1>6 DEF Without, Gone, NoSession
<1>7. ASSUME NEW s \in Sessions, Expire(s) PROVE Leaves
    <2>1. [session[s] EXCEPT !.expired = TRUE].token = session[s].token
        BY DEF SessionRow
    <2> QED
        BY <1>7, <2>1 DEF Expire, tokenVars
<1> QED
    BY Steps, <1>1, <1>2, <1>3, <1>4, <1>5, <1>6, <1>7
       DEF CheckPassword, LoadForRefresh, LoadForLogout, LoadForRevoke, LogoutAll,
           StartPasswordChange, SetPassword, RevokeAll, Abort, CleanupExpired, CleanupRevoked,
           tokenVars

LEMMA TokensStep ==
    ASSUME TypeOK, TypeOK', RequestsValid, TokensOwned, Next
    PROVE  TokensOwned'
<1> USE SessionAssumption DEF TypeOK
<1>1. ASSUME \A s \in Sessions : session'[s].token \in {session[s].token, Null},
             issued' = issued, accepted' = accepted
      PROVE  TokensOwned'
    BY <1>1 DEF TokensOwned
<1>2. ASSUME NEW s \in Sessions, NEW k \in Tokens \ issued,
             session'[s].token = k,
             \A w \in Sessions \ {s} : session'[w] = session[w],
             issued' = issued \cup {k},
             \/ accepted' = accepted
             \/ \E t \in Threads : RotateToken(t, k) /\ s = request[t].session
      PROVE  TokensOwned'
    <2>1. \A w \in Sessions : session'[w].token # Null => session'[w].token \in issued'
        BY <1>2 DEF TokensOwned
    <2>2. \A v, w \in Sessions :
              session'[v].token # Null /\ session'[v].token = session'[w].token => v = w
        BY <1>2 DEF TokensOwned
    <2>3. ASSUME NEW j \in Tokens, accepted'[j] # 0
          PROVE  j \in issued' /\ \A w \in Sessions : session'[w].token # j
        <3>1. CASE accepted[j] # 0
            BY <1>2, <3>1 DEF TokensOwned
        <3>2. CASE accepted[j] = 0
            <4>1. PICK t \in Threads : RotateToken(t, k) /\ s = request[t].session
                BY <1>2, <2>3, <3>2
            <4>2. j = request[t].token
                BY <2>3, <3>2, <4>1 DEF RotateToken
            <4>3. j \in issued /\ \A w \in Sessions : session[w].token = j => w = s
                BY <4>1, <4>2 DEF RotateToken, RequestsValid, RequestValid
            <4> QED
                BY <1>2, <4>3
        <3> QED
            BY <3>1, <3>2
    <2> QED
        BY <2>1, <2>2, <2>3 DEF TokensOwned
<1> QED
    BY TokenSteps, <1>1, <1>2

\* What a request knows of its token stays true.
LEMMA RequestsStep ==
    ASSUME TypeOK, TypeOK', RequestsValid, TokensOwned, Next
    PROVE  RequestsValid'
<1> USE DEF TypeOK
<1> SUFFICES ASSUME NEW t \in Threads
             PROVE  RequestValid(request[t])'
    BY DEF RequestsValid
<1>1. ASSUME request'[t] = request[t]
      PROVE  RequestValid(request[t])'
    <2>1. RequestValid(request[t])
        BY DEF RequestsValid
    <2>2. ASSUME request[t].step = "rotate"
          PROVE  /\ request[t].token \in issued'
                 /\ \A s \in Sessions : session'[s].token = request[t].token => s = request[t].session
        BY <2>1, <2>2, TokenSteps, SessionAssumption DEF RequestValid
    <2> QED
        BY <1>1, <2>1, <2>2 DEF RequestValid
<1>idle. ASSUME request'[t] = Idle PROVE RequestValid(request[t])'
    BY <1>idle, IdleTyped DEF RequestValid
<1>2. ASSUME NEW u \in Users, NEW w \in Passwords,
             \/ request'[t] = [Idle EXCEPT !.step = "create", !.user = u, !.password = w]
             \/ request'[t] = [Idle EXCEPT !.step = "set_password", !.user = u, !.password = w]
      PROVE  RequestValid(request[t])'
    BY <1>2 DEF RequestValid, Idle
<1>3. ASSUME NEW s \in Sessions, request'[t] = [Idle EXCEPT !.step = "revoke", !.session = s]
      PROVE  RequestValid(request[t])'
    BY <1>3 DEF RequestValid, Idle
<1>4. ASSUME NEW s \in Sessions, NEW k \in Tokens, LoadForRefresh(t, s, k)
      PROVE  RequestValid(request[t])'
    <2>1. request'[t] = [Idle EXCEPT !.step = "rotate", !.session = s, !.token = k]
        BY <1>4 DEF LoadForRefresh, Begin
    <2>2. request'[t].step = "rotate" /\ request'[t].session = s /\ request'[t].token = k
        BY <2>1 DEF Idle
    <2>3. k \in issued /\ \A w \in Sessions : session[w].token = k => w = s
        BY <1>4, SessionAssumption DEF LoadForRefresh, ByToken, TokensOwned
    <2> QED
        BY <1>4, <2>2, <2>3 DEF RequestValid, LoadForRefresh, tokenVars
<1>5. ASSUME SetPassword(t)
      PROVE  RequestValid(request[t])'
    <2>1. request'[t] = [request[t] EXCEPT !.step = "revoke_all"] /\ request[t].user \in Users
        BY <1>5 DEF SetPassword, RequestsValid, RequestValid
    <2>2. request'[t].step = "revoke_all" /\ request'[t].user \in Users
        BY <2>1 DEF Request
    <2> QED
        BY <2>2 DEF RequestValid
\* The requests of the others.
<1>6. \A w \in Threads \ {t} :
          /\ Finish(w) => request'[t] = request[t]
          /\ \A r : Begin(w, r) => request'[t] = request[t]
    BY DEF Finish, Begin
<1>7. \A r : Begin(t, r) => request'[t] = r
    BY DEF Begin
<1>8. Finish(t) => request'[t] = Idle
    BY DEF Finish
<1>9. ASSUME NEW w \in Threads, NEW s \in Sessions,
             Begin(w, [Idle EXCEPT !.step = "revoke", !.session = s])
      PROVE  RequestValid(request[t])'
    BY <1>1, <1>3, <1>6, <1>7, <1>9
<1>10. ASSUME NEW w \in Threads, Finish(w)
       PROVE  RequestValid(request[t])'
    BY <1>1, <1>idle, <1>6, <1>8, <1>10
<1>11. ASSUME NEW w \in Threads, NEW u \in Users, CheckPassword(w, u)
       PROVE  RequestValid(request[t])'
    BY <1>1, <1>2, <1>6, <1>7, <1>11 DEF CheckPassword
<1>12. ASSUME NEW w \in Threads, NEW u \in Users, NEW new \in Passwords,
              StartPasswordChange(w, u, new)
       PROVE  RequestValid(request[t])'
    <2>1. Begin(w, [Idle EXCEPT !.step = "set_password", !.user = u, !.password = new])
        BY <1>12 DEF StartPasswordChange
    <2>2. CASE w = t
        BY <1>2, <1>7, <2>1, <2>2
    <2>3. CASE w # t
        BY <1>1, <1>6, <2>1, <2>3
    <2> QED
        BY <2>2, <2>3
<1>13. ASSUME NEW w \in Threads, NEW s \in Sessions, NEW k \in Tokens, LoadForRefresh(w, s, k)
       PROVE  RequestValid(request[t])'
    <2>1. CASE w = t
        BY <1>4, <1>13, <2>1
    <2>2. CASE w # t
        BY <1>1, <1>6, <1>13, <2>2 DEF LoadForRefresh
    <2> QED
        BY <2>1, <2>2
<1>14. ASSUME NEW w \in Threads, SetPassword(w)
       PROVE  RequestValid(request[t])'
    BY <1>1, <1>5, <1>14 DEF SetPassword
<1>15. ASSUME UNCHANGED request
       PROVE  RequestValid(request[t])'
    BY <1>1, <1>15
<1>16. ASSUME NEW w \in Threads, NEW s \in Sessions, NEW k \in Tokens, CreateSession(w, s, k)
       PROVE  RequestValid(request[t])'
    BY <1>10, <1>16 DEF CreateSession
<1>17. ASSUME NEW w \in Threads, NEW k \in Tokens, RotateToken(w, k)
       PROVE  RequestValid(request[t])'
    BY <1>10, <1>17 DEF RotateToken
<1>18. ASSUME NEW w \in Threads, RevokeSession(w) \/ RevokeAll(w) \/ Abort(w)
       PROVE  RequestValid(request[t])'
    BY <1>10, <1>18 DEF RevokeSession, RevokeAll, Abort
<1>19. ASSUME NEW w \in Threads, NEW s \in Sessions, NEW k \in Tokens, LoadForLogout(w, s, k)
       PROVE  RequestValid(request[t])'
    BY <1>9, <1>19 DEF LoadForLogout
<1>20. ASSUME NEW w \in Threads, NEW u \in Users, NEW s \in Sessions, LoadForRevoke(w, u, s)
       PROVE  RequestValid(request[t])'
    BY <1>9, <1>20 DEF LoadForRevoke
<1>21. ASSUME \/ \E w \in Threads, u \in Users : LogoutAll(w, u)
              \/ \E s \in Sessions : Expire(s)
              \/ CleanupExpired
              \/ CleanupRevoked
       PROVE  RequestValid(request[t])'
    BY <1>15, <1>21 DEF LogoutAll, Expire, CleanupExpired, CleanupRevoked
<1> QED
    BY Steps, <1>11, <1>12, <1>13, <1>14, <1>16, <1>17, <1>18, <1>19, <1>20, <1>21

\* Who starts to refresh, who refreshes, and what the others leave alone.
LEMMA RotatingSteps ==
    ASSUME TypeOK, RequestsValid, Next, NEW k \in Tokens
    PROVE  \/ accepted'[k] = accepted[k] /\ Rotating(k)' \subseteq Rotating(k)
           \/ \E s \in Sessions : session[s].token = k /\ accepted' = accepted
           \/ \E t \in Rotating(k) :
                 /\ accepted'[k] = accepted[k] + 1
                 /\ Rotating(k)' \subseteq Rotating(k) \ {t}
<1> USE DEF TypeOK
<1> DEFINE Less == accepted'[k] = accepted[k] /\ Rotating(k)' \subseteq Rotating(k)
           Loads == \E s \in Sessions : session[s].token = k /\ accepted' = accepted
           Rotates == \E t \in Rotating(k) :
                 /\ accepted'[k] = accepted[k] + 1
                 /\ Rotating(k)' \subseteq Rotating(k) \ {t}
<1> SUFFICES Less \/ Loads \/ Rotates
    OBVIOUS
<1>1. ASSUME accepted'[k] = accepted[k], NEW t \in Threads,
             request'[t].step # "rotate",
             \A w \in Threads \ {t} : request'[w] = request[w]
      PROVE  Less
    BY <1>1 DEF Rotating
<1>2. ASSUME accepted' = accepted, NEW t \in Threads, Finish(t)
      PROVE  Less
    BY <1>1, <1>2, Moves, IdleTyped
<1>3. ASSUME UNCHANGED <<request, accepted>>
      PROVE  Less
    BY <1>3 DEF Rotating
<1>4. ASSUME NEW t \in Threads, NEW j \in Tokens, RotateToken(t, j)
      PROVE  Less \/ Rotates
    <2>1. /\ accepted' = [accepted EXCEPT ![request[t].token] = @ + 1]
          /\ request[t].step = "rotate" /\ Finish(t)
        BY <1>4 DEF RotateToken
    <2>2. \A w \in Threads : request'[w].step = "rotate" => w # t /\ request'[w] = request[w]
        BY <2>1, Moves, IdleTyped
    <2>3. CASE request[t].token = k
        <3>1. t \in Rotating(k) /\ accepted'[k] = accepted[k] + 1
            BY <2>1, <2>3 DEF Rotating
        <3>2. Rotating(k)' \subseteq Rotating(k) \ {t}
            BY <2>2 DEF Rotating
        <3> QED
            BY <3>1, <3>2
    <2>4. CASE request[t].token # k
        <3>1. accepted'[k] = accepted[k]
            BY <2>1, <2>4
        <3>2. Rotating(k)' \subseteq Rotating(k)
            BY <2>2 DEF Rotating
        <3> QED
            BY <3>1, <3>2
    <2> QED
        BY <2>3, <2>4
<1>5. ASSUME NEW t \in Threads, NEW s \in Sessions, NEW j \in Tokens, LoadForRefresh(t, s, j)
      PROVE  Less \/ Loads
    <2>1. accepted' = accepted /\ session[s].token = j
        BY <1>5 DEF LoadForRefresh, ByToken, tokenVars
    <2>2. CASE j = k
        BY <2>1, <2>2
    <2>3. CASE j # k
        <3>1. request'[t].token = j /\ \A w \in Threads \ {t} : request'[w] = request[w]
            BY <1>5 DEF LoadForRefresh, Begin, Idle
        <3>2. Rotating(k)' \subseteq Rotating(k)
            BY <2>3, <3>1 DEF Rotating
        <3> QED
            BY <2>1, <3>2
    <2> QED
        BY <2>2, <2>3
<1>6. ASSUME NEW t \in Threads, NEW r, Begin(t, r), r.step # "rotate", accepted' = accepted
      PROVE  Less
    BY <1>1, <1>6 DEF Begin
<1>7. ASSUME NEW t \in Threads, NEW u \in Users, CheckPassword(t, u) PROVE Less
    <2>1. [Idle EXCEPT !.step = "create", !.user = u, !.password = password[u]].step # "rotate"
        BY DEF Idle
    <2> QED
        BY <1>6, <1>7, <2>1 DEF CheckPassword, tokenVars
<1>8. ASSUME NEW t \in Threads, NEW s \in Sessions, accepted' = accepted,
             Begin(t, [Idle EXCEPT !.step = "revoke", !.session = s])
      PROVE  Less
    <2>1. [Idle EXCEPT !.step = "revoke", !.session = s].step # "rotate"
        BY DEF Idle
    <2> QED
        BY <1>6, <1>8, <2>1
<1>9. ASSUME NEW t \in Threads, NEW u \in Users, NEW new \in Passwords,
             StartPasswordChange(t, u, new)
      PROVE  Less
    <2>1. [Idle EXCEPT !.step = "set_password", !.user = u, !.password = new].step # "rotate"
        BY DEF Idle
    <2> QED
        BY <1>6, <1>9, <2>1 DEF StartPasswordChange, tokenVars
<1>10. ASSUME NEW t \in Threads, SetPassword(t) PROVE Less
    <2>1. request'[t] = [request[t] EXCEPT !.step = "revoke_all"]
        BY <1>10 DEF SetPassword
    <2>2. request'[t].step # "rotate"
        BY <2>1 DEF Request
    <2> QED
        BY <1>1, <1>10, <2>2 DEF SetPassword, tokenVars
<1>11. ASSUME \/ \E t \in Threads, s \in Sessions, j \in Tokens :
                    CreateSession(t, s, j) \/ LoadForLogout(t, s, j)
              \/ \E t \in Threads, u \in Users, s \in Sessions : LoadForRevoke(t, u, s)
              \/ \E t \in Threads : RevokeSession(t) \/ RevokeAll(t) \/ Abort(t)
       PROVE  Less
    BY <1>2, <1>8, <1>11
       DEF CreateSession, LoadForLogout, LoadForRevoke, RevokeSession, RevokeAll, Abort, tokenVars
<1>12. ASSUME \/ \E t \in Threads, u \in Users : LogoutAll(t, u)
              \/ \E s \in Sessions : Expire(s)
              \/ CleanupExpired
              \/ CleanupRevoked
       PROVE  Less
    BY <1>3, <1>12 DEF LogoutAll, Expire, CleanupExpired, CleanupRevoked, tokenVars
<1> HIDE DEF Less, Loads, Rotates
<1> QED
    BY Steps, <1>4, <1>5, <1>7, <1>9, <1>10, <1>11, <1>12

LEMMA AcceptedStep ==
    ASSUME TypeOK, TypeOK', RequestsValid, TokensOwned, AcceptedBounded, Next
    PROVE  AcceptedBounded'
<1> SUFFICES ASSUME NEW k \in Tokens
             PROVE  accepted'[k] + Cardinality(Rotating(k)') <= Cardinality(Threads)
    BY DEF AcceptedBounded
<1>1. /\ Rotating(k) \subseteq Threads /\ Rotating(k)' \subseteq Threads
      /\ IsFiniteSet(Rotating(k)) /\ IsFiniteSet(Rotating(k)')
      /\ Cardinality(Rotating(k)') <= Cardinality(Threads)
    BY SessionAssumption, FS_Subset DEF Rotating
<1>2. /\ Cardinality(Rotating(k)) \in Nat /\ Cardinality(Rotating(k)') \in Nat
      /\ Cardinality(Threads) \in Nat
    BY <1>1, SessionAssumption, FS_CardinalityType
<1>3. accepted[k] \in Nat /\ accepted'[k] \in Nat
    BY DEF TypeOK
<1>4. accepted[k] + Cardinality(Rotating(k)) <= Cardinality(Threads)
    BY DEF AcceptedBounded
<1>5. CASE accepted'[k] = accepted[k] /\ Rotating(k)' \subseteq Rotating(k)
    <2>1. Cardinality(Rotating(k)') <= Cardinality(Rotating(k))
        BY <1>1, <1>5, FS_Subset
    <2> QED
        BY <1>2, <1>3, <1>4, <1>5, <2>1
<1>6. CASE \E s \in Sessions : session[s].token = k /\ accepted' = accepted
    <2>1. accepted'[k] = 0
        BY <1>6 DEF TokensOwned
    <2> QED
        BY <1>1, <1>2, <2>1
<1>7. CASE \E t \in Rotating(k) :
               /\ accepted'[k] = accepted[k] + 1
               /\ Rotating(k)' \subseteq Rotating(k) \ {t}
    <2>1. PICK t \in Rotating(k) :
               /\ accepted'[k] = accepted[k] + 1
               /\ Rotating(k)' \subseteq Rotating(k) \ {t}
        BY <1>7
    <2>2. /\ IsFiniteSet(Rotating(k) \ {t})
          /\ Cardinality(Rotating(k) \ {t}) = Cardinality(Rotating(k)) - 1
        BY <1>1, FS_RemoveElement
    <2>3. Cardinality(Rotating(k)') <= Cardinality(Rotating(k)) - 1
        BY <2>1, <2>2, FS_Subset
    <2> QED
        BY <1>2, <1>3, <1>4, <2>1, <2>3
<1> QED
    BY RotatingSteps, <1>5, <1>6, <1>7

-----------------------------------------------------------------------------
(***************************************************************************)
(* Passwords.                                                              *)
(***************************************************************************)

\* What becomes of the sessions there are, in every step but the one that
\* opens a session: they are deleted, or keep their user and stay revoked.
Kept ==
    \A s \in Sessions :
        \/ session'[s].user = Null
        \/ /\ session'[s].user = session[s].user
           /\ session'[s].login = session[s].login
           /\ session[s].revoked => session'[s].revoked

\* Whoever writes the row of a session that exists.
LEMMA KeptRows ==
    ASSUME TypeOK, RequestsValid
    PROVE  /\ UNCHANGED session => Kept
           /\ \A t \in Threads, k \in Tokens : RotateToken(t, k) => Kept
           /\ \A t \in Threads : RevokeSession(t) => Kept
           /\ \A u : session' = AllRevoked(u) => Kept
           /\ \A deleted : session' = Without(deleted) => Kept
           /\ \A s \in Sessions : Expire(s) => Kept
<1> USE DEF TypeOK
<1>1. \A s \in Sessions :
          /\ [session[s] EXCEPT !.revoked = TRUE].user = session[s].user
          /\ [session[s] EXCEPT !.revoked = TRUE].login = session[s].login
          /\ [session[s] EXCEPT !.revoked = TRUE].revoked
    BY DEF SessionRow
<1>2. \A s \in Sessions :
          /\ [session[s] EXCEPT !.expired = TRUE].user = session[s].user
          /\ [session[s] EXCEPT !.expired = TRUE].login = session[s].login
          /\ session[s].revoked => [session[s] EXCEPT !.expired = TRUE].revoked
    BY DEF SessionRow
<1>3. \A row \in SessionRow, k \in Tokens :
          /\ Rotated(row, k).user = row.user
          /\ Rotated(row, k).login = row.login
          /\ Rotated(row, k).revoked = row.revoked
    BY DEF SessionRow, Rotated
<1>4. UNCHANGED session => Kept
    BY DEF Kept
<1>5. ASSUME NEW t \in Threads, NEW k \in Tokens, RotateToken(t, k) PROVE Kept
    <2>1. request[t].session \in Sessions
        BY <1>5 DEF RotateToken, RequestsValid, RequestValid
    <2>2. \A s \in Sessions :
              session'[s] = session[s] \/ session'[s] = Rotated(session[s], k)
        BY <1>5, <2>1 DEF RotateToken
    <2> QED
        BY <1>3, <2>2 DEF Kept
<1>6. ASSUME NEW t \in Threads, RevokeSession(t) PROVE Kept
    <2>1. request[t].session \in Sessions
        BY <1>6 DEF RevokeSession, RequestsValid, RequestValid
    <2>2. \A s \in Sessions :
              session'[s] = session[s] \/ session'[s] = [session[s] EXCEPT !.revoked = TRUE]
        BY <1>6, <2>1 DEF RevokeSession
    <2> QED
        BY <1>1, <2>2 DEF Kept
<1>7. ASSUME NEW u, session' = AllRevoked(u) PROVE Kept
    <2>1. \A s \in Sessions :
              session'[s] = session[s] \/ session'[s] = [session[s] EXCEPT !.revoked = TRUE]
        BY <1>7 DEF AllRevoked
    <2> QED
        BY <1>1, <2>1 DEF Kept
<1>8. ASSUME NEW deleted, session' = Without(deleted) PROVE Kept
    BY <1>8 DEF Without, Gone, NoSession, Kept
<1>9. ASSUME NEW s \in Sessions, Expire(s) PROVE Kept
    <2>1. \A w \in Sessions :
              session'[w] = session[w] \/ session'[w] = [session[w] EXCEPT !.expired = TRUE]
        BY <1>9 DEF Expire
    <2> QED
        BY <1>2, <2>1 DEF Kept
<1> QED
    BY <1>4, <1>5, <1>6, <1>7, <1>8, <1>9

LEMMA SessionSteps ==
    ASSUME TypeOK, RequestsValid, Next
    PROVE  \/ Kept
           \/ \E t \in Threads, s \in Sessions, k \in Tokens : CreateSession(t, s, k)
BY Steps, KeptRows
   DEF CheckPassword, LoadForRefresh, LoadForLogout, LoadForRevoke, LogoutAll,
       StartPasswordChange, SetPassword, RevokeAll, Abort, CleanupExpired, CleanupRevoked

Bounded(u) ==
    Cardinality(Lingering(u)) + Cardinality(StaleLogins(u)) < Cardinality(Threads)

LEMMA Finite ==
    ASSUME NEW u
    PROVE  /\ IsFiniteSet(Lingering(u)) /\ Cardinality(Lingering(u)) \in Nat
           /\ IsFiniteSet(StaleLogins(u)) /\ Cardinality(StaleLogins(u)) \in Nat
           /\ IsFiniteSet(Lingering(u)') /\ Cardinality(Lingering(u)') \in Nat
           /\ IsFiniteSet(StaleLogins(u)') /\ Cardinality(StaleLogins(u)') \in Nat
           /\ IsFiniteSet(Threads) /\ Cardinality(Threads) \in Nat
<1>1. Lingering(u) \subseteq Sessions /\ Lingering(u)' \subseteq Sessions
    BY DEF Lingering
<1>2. StaleLogins(u) \subseteq Threads /\ StaleLogins(u)' \subseteq Threads
    BY DEF StaleLogins
<1>3. IsFiniteSet(Sessions) /\ IsFiniteSet(Threads)
    BY SessionAssumption
<1>4. /\ IsFiniteSet(Lingering(u)) /\ IsFiniteSet(Lingering(u)')
      /\ IsFiniteSet(StaleLogins(u)) /\ IsFiniteSet(StaleLogins(u)')
    BY <1>1, <1>2, <1>3, FS_Subset
<1> QED
    BY <1>3, <1>4, FS_CardinalityType

\* No more sessions and no more logins than before.
LEMMA BoundKept ==
    ASSUME NEW u, Bounded(u),
           Lingering(u)' \subseteq Lingering(u),
           StaleLogins(u)' \subseteq StaleLogins(u)
    PROVE  Bounded(u)'
<1>1. Cardinality(Lingering(u)') <= Cardinality(Lingering(u))
    BY Finite, FS_Subset
<1>2. Cardinality(StaleLogins(u)') <= Cardinality(StaleLogins(u))
    BY Finite, FS_Subset
<1> QED
    BY <1>1, <1>2, Finite DEF Bounded

\* A login in progress becomes a session.
LEMMA BoundMoved ==
    ASSUME NEW u, Bounded(u), NEW t \in StaleLogins(u), NEW s,
           Lingering(u)' \subseteq Lingering(u) \cup {s},
           StaleLogins(u)' \subseteq StaleLogins(u) \ {t}
    PROVE  Bounded(u)'
<1>1. /\ IsFiniteSet(Lingering(u) \cup {s})
      /\ Cardinality(Lingering(u) \cup {s}) <= Cardinality(Lingering(u)) + 1
      /\ Cardinality(Lingering(u) \cup {s}) \in Nat
    <2>1. /\ IsFiniteSet(Lingering(u) \cup {s})
          /\ Cardinality(Lingering(u) \cup {s}) =
                IF s \in Lingering(u) THEN Cardinality(Lingering(u))
                                      ELSE Cardinality(Lingering(u)) + 1
        BY Finite, FS_AddElement
    <2> QED
        BY <2>1, Finite
<1>2. /\ IsFiniteSet(StaleLogins(u) \ {t})
      /\ Cardinality(StaleLogins(u) \ {t}) = Cardinality(StaleLogins(u)) - 1
    BY Finite, FS_RemoveElement
<1>3. Cardinality(Lingering(u)') <= Cardinality(Lingering(u) \cup {s})
    BY <1>1, FS_Subset
<1>4. Cardinality(StaleLogins(u)') <= Cardinality(StaleLogins(u)) - 1
    BY <1>2, FS_Subset
<1> QED
    BY <1>1, <1>2, <1>3, <1>4, Finite DEF Bounded

\* All sessions are revoked, and the thread that did it does not log in.
LEMMA BoundReset ==
    ASSUME NEW u, Lingering(u)' = {},
           NEW t \in Threads, t \notin StaleLogins(u)'
    PROVE  Bounded(u)'
<1>1. StaleLogins(u)' \subseteq Threads \ {t}
    BY DEF StaleLogins
<1>2. /\ IsFiniteSet(Threads \ {t})
      /\ Cardinality(Threads \ {t}) = Cardinality(Threads) - 1
    BY Finite, FS_RemoveElement
<1>3. Cardinality(StaleLogins(u)') <= Cardinality(Threads) - 1
    BY <1>1, <1>2, FS_Subset
<1>4. Cardinality(Lingering(u)') = 0
    BY FS_EmptySet
<1> QED
    BY <1>3, <1>4, Finite DEF Bounded

LEMMA LingersLess ==
    ASSUME Kept, NEW u \in Users, password'[u] = password[u]
    PROVE  Lingering(u)' \subseteq Lingering(u)
BY SessionAssumption DEF Lingering, Kept

\* A step of thread t that neither ends a change of the password of u nor
\* starts a login of u with a password that is not his.
LEMMA BoundServed ==
    ASSUME LingeringBounded, Kept, NEW u \in Users \ torn, password'[u] = password[u],
           Changing(u)' = {}, NEW t \in Threads,
           \A w \in Threads \ {t} : request'[w] = request[w],
           request[t].step = "revoke_all" => request[t].user # u,
           request'[t].step = "create" /\ request'[t].user = u
               => request'[t].password = password[u]
    PROVE  Bounded(u)'
<1>1. Changing(u) = {}
    BY DEF Changing
<1>2. Bounded(u)
    BY <1>1 DEF LingeringBounded, Bounded
<1>3. StaleLogins(u)' \subseteq StaleLogins(u)
    BY DEF StaleLogins
<1> QED
    BY <1>2, <1>3, LingersLess, BoundKept

\* A step of no request.
LEMMA BoundAlone ==
    ASSUME LingeringBounded, Kept, NEW u \in Users \ torn, password'[u] = password[u],
           Changing(u)' = {}, UNCHANGED request
    PROVE  Bounded(u)'
<1>1. Changing(u) = {}
    BY DEF Changing
<1>2. Bounded(u)
    BY <1>1 DEF LingeringBounded, Bounded
<1>3. StaleLogins(u)' \subseteq StaleLogins(u)
    BY DEF StaleLogins
<1> QED
    BY <1>2, <1>3, LingersLess, BoundKept

LEMMA BoundOpened ==
    ASSUME TypeOK, RequestsValid, LingeringBounded, NEW u \in Users \ torn, Changing(u)' = {},
           NEW t \in Threads, NEW s \in Sessions, NEW k \in Tokens, CreateSession(t, s, k)
    PROVE  Bounded(u)'
<1> USE DEF TypeOK
<1>1. /\ password' = password
      /\ request[t].step = "create"
      /\ request'[t].step = "idle" /\ \A w \in Threads \ {t} : request'[w] = request[w]
    BY Moves, IdleTyped DEF CreateSession, accountVars
<1>2. Changing(u) = {}
    BY <1>1 DEF Changing
<1>3. Bounded(u)
    BY <1>2 DEF LingeringBounded, Bounded
<1>4. StaleLogins(u)' \subseteq StaleLogins(u) \ {t}
    BY <1>1 DEF StaleLogins
<1>5. /\ \A w \in Sessions \ {s} : session'[w] = session[w]
      /\ session'[s].user = request[t].user /\ session'[s].login = request[t].password
    BY DEF CreateSession, NewSession
<1>6. CASE t \in StaleLogins(u)
    <2>1. Lingering(u)' \subseteq Lingering(u) \cup {s}
        BY <1>1, <1>5 DEF Lingering
    <2> QED
        BY <1>3, <1>4, <1>6, <2>1, BoundMoved
<1>7. CASE t \notin StaleLogins(u)
    <2>1. s \notin Lingering(u)'
        BY <1>1, <1>5, <1>7 DEF Lingering, StaleLogins
    <2>2. Lingering(u)' \subseteq Lingering(u)
        BY <1>1, <1>5, <2>1 DEF Lingering
    <2> QED
        BY <1>3, <1>4, <2>2, BoundKept
<1> QED
    BY <1>6, <1>7

LEMMA BoundRevoked ==
    ASSUME TypeOK, NEW u \in Users, session' = AllRevoked(u),
           NEW t \in Threads, request'[t].step # "create"
    PROVE  Bounded(u)'
<1>1. \A s \in Sessions : session[s].user = u => [session[s] EXCEPT !.revoked = TRUE].revoked
    BY DEF TypeOK, SessionRow
<1>2. \A s \in Sessions : session'[s].user = u => session'[s].revoked
    <2> SUFFICES ASSUME NEW s \in Sessions, session'[s].user = u
                 PROVE  session'[s].revoked
        OBVIOUS
    <2>1. CASE session[s].user = u
        BY <1>1, <2>1 DEF AllRevoked
    <2>2. CASE session[s].user # u
        BY <2>2 DEF AllRevoked
    <2> QED
        BY <2>1, <2>2
<1>3. Lingering(u)' = {}
    BY <1>2 DEF Lingering
<1>4. t \notin StaleLogins(u)'
    BY DEF StaleLogins
<1> QED
    BY <1>3, <1>4, BoundReset

LEMMA LingerStep ==
    ASSUME TypeOK, RequestsValid, LingeringBounded, Next
    PROVE  LingeringBounded'
<1> USE DEF TypeOK
<1> SUFFICES ASSUME NEW u \in Users \ torn', Changing(u)' = {}
             PROVE  Bounded(u)'
    BY DEF LingeringBounded, Bounded
<1>1. ASSUME NEW t \in Threads, NEW s \in Sessions, NEW k \in Tokens, CreateSession(t, s, k)
      PROVE  Bounded(u)'
    BY <1>1, BoundOpened DEF CreateSession, accountVars
<1>2. ASSUME NEW t \in Threads, Finish(t), UNCHANGED accountVars, Kept,
             request[t].step # "revoke_all"
      PROVE  Bounded(u)'
    BY <1>2, Moves, IdleTyped, BoundServed DEF accountVars
<1>3. ASSUME NEW t \in Threads, NEW r, Begin(t, r), Kept,
             password' = password, torn' = torn,
             r.step = "create" => r.password = password[r.user]
      PROVE  Bounded(u)'
    <2>1. request[t].step = "idle" /\ request'[t] = r
          /\ \A w \in Threads \ {t} : request'[w] = request[w]
        BY <1>3, IdleTyped DEF Begin
    <2> QED
        BY <1>3, <2>1, BoundServed
<1>4. ASSUME UNCHANGED <<request, accountVars>>, Kept
      PROVE  Bounded(u)'
    BY <1>4, BoundAlone DEF accountVars
<1>5. ASSUME NEW t \in Threads, NEW v \in Users, CheckPassword(t, v)
      PROVE  Bounded(u)'
    <2> DEFINE r == [Idle EXCEPT !.step = "create", !.user = v, !.password = password[v]]
    <2>1. r.password = password[r.user]
        BY DEF Idle
    <2>2. Begin(t, r) /\ password' = password /\ torn' = torn /\ session' = session
        BY <1>5 DEF CheckPassword, accountVars
    <2> HIDE DEF r
    <2> QED
        BY <1>3, <2>1, <2>2, KeptRows
<1>6. ASSUME NEW t \in Threads, NEW s \in Sessions, NEW k \in Tokens, LoadForRefresh(t, s, k)
      PROVE  Bounded(u)'
    <2> DEFINE r == [Idle EXCEPT !.step = "rotate", !.session = s, !.token = k]
    <2>1. r.step # "create"
        BY DEF Idle
    <2>2. Begin(t, r) /\ password' = password /\ torn' = torn /\ session' = session
        BY <1>6 DEF LoadForRefresh, accountVars
    <2> HIDE DEF r
    <2> QED
        BY <1>3, <2>1, <2>2, KeptRows
<1>7. ASSUME NEW t \in Threads, NEW s \in Sessions,
             \/ \E k \in Tokens : LoadForLogout(t, s, k)
             \/ \E v \in Users : LoadForRevoke(t, v, s)
      PROVE  Bounded(u)'
    <2> DEFINE r == [Idle EXCEPT !.step = "revoke", !.session = s]
    <2>1. r.step # "create"
        BY DEF Idle
    <2>2. Begin(t, r) /\ password' = password /\ torn' = torn /\ session' = session
        BY <1>7 DEF LoadForLogout, LoadForRevoke, accountVars
    <2> HIDE DEF r
    <2> QED
        BY <1>3, <2>1, <2>2, KeptRows
<1>8. ASSUME NEW t \in Threads, NEW v \in Users, NEW new \in Passwords,
             StartPasswordChange(t, v, new)
      PROVE  Bounded(u)'
    <2> DEFINE r == [Idle EXCEPT !.step = "set_password", !.user = v, !.password = new]
    <2>1. r.step # "create"
        BY DEF Idle
    <2>2. Begin(t, r) /\ password' = password /\ torn' = torn /\ session' = session
        BY <1>8 DEF StartPasswordChange
    <2> HIDE DEF r
    <2> QED
        BY <1>3, <2>1, <2>2, KeptRows
<1>9. ASSUME NEW t \in Threads, NEW k \in Tokens, RotateToken(t, k)
      PROVE  Bounded(u)'
    <2>1. Finish(t) /\ UNCHANGED accountVars /\ request[t].step # "revoke_all"
        BY <1>9 DEF RotateToken
    <2> QED
        BY <1>2, <1>9, <2>1, KeptRows
<1>10. ASSUME NEW t \in Threads, RevokeSession(t)
       PROVE  Bounded(u)'
    <2>1. Finish(t) /\ UNCHANGED accountVars /\ request[t].step # "revoke_all"
        BY <1>10 DEF RevokeSession
    <2> QED
        BY <1>2, <1>10, <2>1, KeptRows
<1>11. ASSUME NEW t \in Threads, NEW v \in Users, LogoutAll(t, v)
       PROVE  Bounded(u)'
    <2>1. /\ request' = request /\ request[t].step = "idle" /\ password' = password
          /\ session' = AllRevoked(v) /\ torn' = torn \ {v}
        BY <1>11, IdleTyped DEF LogoutAll
    <2>2. CASE v = u
        BY <2>1, <2>2, BoundRevoked
    <2>3. CASE v # u
        BY <2>1, <2>3, KeptRows, BoundAlone
    <2> QED
        BY <2>2, <2>3
\* While the sessions of u are still to be revoked, nothing is claimed of him.
<1>12. ASSUME NEW t \in Threads, SetPassword(t)
       PROVE  Bounded(u)'
    <2>1. /\ request'[t] = [request[t] EXCEPT !.step = "revoke_all"]
          /\ \A w \in Threads \ {t} : request'[w] = request[w]
          /\ request[t].step = "set_password" /\ request[t].user \in Users
          /\ torn' = torn /\ session' = session
        BY <1>12 DEF SetPassword, RequestsValid, RequestValid
    <2>2. request'[t].step = "revoke_all" /\ request'[t].user = request[t].user
        BY <2>1 DEF Request
    <2>3. request[t].user # u
        BY <2>2 DEF Changing
    <2>4. password'[u] = password[u]
        BY <1>12, <2>3 DEF SetPassword
    <2> QED
        BY <2>1, <2>2, <2>4, KeptRows, BoundServed
<1>13. ASSUME NEW t \in Threads, RevokeAll(t)
       PROVE  Bounded(u)'
    <2>1. /\ session' = AllRevoked(request[t].user) /\ torn' = torn \ {request[t].user}
          /\ password' = password
          /\ request'[t].step = "idle"
          /\ \A w \in Threads \ {t} : request'[w] = request[w]
        BY <1>13, Moves, IdleTyped DEF RevokeAll
    <2>2. CASE request[t].user = u
        BY <2>1, <2>2, BoundRevoked
    <2>3. CASE request[t].user # u
        BY <2>1, <2>3, KeptRows, BoundServed
    <2> QED
        BY <2>2, <2>3
<1>14. ASSUME NEW t \in Threads, Abort(t)
       PROVE  Bounded(u)'
    <2>1. /\ password' = password /\ session' = session
          /\ request'[t].step = "idle"
          /\ \A w \in Threads \ {t} : request'[w] = request[w]
        BY <1>14, Moves, IdleTyped DEF Abort
    <2>2. u \notin torn /\ (request[t].step = "revoke_all" => request[t].user # u)
        BY <1>14 DEF Abort
    <2> QED
        BY <2>1, <2>2, KeptRows, BoundServed
<1>15. ASSUME \/ \E s \in Sessions : Expire(s)
              \/ CleanupExpired
              \/ CleanupRevoked
       PROVE  Bounded(u)'
    BY <1>4, <1>15, KeptRows DEF Expire, CleanupExpired, CleanupRevoked
<1> QED
    BY Steps, <1>1, <1>5, <1>6, <1>7, <1>8, <1>9, <1>10, <1>11, <1>12, <1>13, <1>14, <1>15

-----------------------------------------------------------------------------
(***************************************************************************)
(* The theorems.                                                           *)
(***************************************************************************)
LEMMA InitInvariant ==
    ASSUME Init
    PROVE  IInv
<1>1. TypeOK
    BY SessionAssumption, IdleTyped, RowsTyped DEF Init, TypeOK
<1>2. RequestsValid
    BY IdleTyped DEF Init, RequestsValid, RequestValid
<1>3. TokensOwned
    BY SessionAssumption DEF Init, TokensOwned, NoSession
<1>4. AcceptedBounded
    <2> SUFFICES ASSUME NEW k \in Tokens
                 PROVE  accepted[k] + Cardinality(Rotating(k)) <= Cardinality(Threads)
        BY DEF AcceptedBounded
    <2>1. Rotating(k) = {}
        BY IdleTyped DEF Init, Rotating
    <2>2. Cardinality(Rotating(k)) = 0 /\ Cardinality(Threads) \in Nat
        BY <2>1, FS_EmptySet, FS_CardinalityType, SessionAssumption
    <2> QED
        BY <2>2 DEF Init
<1>5. LingeringBounded
    <2> SUFFICES ASSUME NEW u \in Users
                 PROVE  Bounded(u)
        BY DEF LingeringBounded, Bounded
    <2>1. Lingering(u) = {}
        BY SessionAssumption DEF Init, Lingering, NoSession
    <2>2. StaleLogins(u) = {}
        BY IdleTyped DEF Init, StaleLogins
    <2>3. Cardinality(Lingering(u)) = 0 /\ Cardinality(StaleLogins(u)) = 0
        BY <2>1, <2>2, FS_EmptySet
    <2>4. Cardinality(Threads) \in Nat /\ Cardinality(Threads) # 0
        BY SessionAssumption, FS_EmptySet, FS_CardinalityType
    <2> QED
        BY <2>3, <2>4 DEF Bounded
<1> QED
    BY <1>1, <1>2, <1>3, <1>4, <1>5 DEF IInv

\* The invariant holds in every state that the sessions can reach.
THEOREM Invariance == Spec => []IInv
<1>1. Init => IInv
    BY InitInvariant
<1>2. IInv /\ [Next]_vars => IInv'
    <2>1. ASSUME IInv, Next PROVE IInv'
        BY <2>1, TypeStep, RequestsStep, TokensStep, AcceptedStep, LingerStep DEF IInv
    <2>2. ASSUME IInv, UNCHANGED vars PROVE IInv'
        BY <2>2 DEF IInv, vars, TypeOK, RequestsValid, RequestValid, TokensOwned,
           AcceptedBounded, Rotating, LingeringBounded, Lingering, StaleLogins, Changing
    <2> QED
        BY <2>1, <2>2
<1> QED
    BY <1>1, <1>2, PTL DEF Spec

\* Rows, requests and tokens have their types, whatever the requests do.
THEOREM TypeCorrect == Spec => []TypeOK
<1>1. IInv => TypeOK
    BY DEF IInv
<1> QED
    BY <1>1, Invariance, PTL

\* No refresh token is accepted more often than there are threads, however
\* many refreshes of one session overlap (AuthService.refresh).
THEOREM AcceptedCorrect == Spec => []AcceptedBounded
<1>1. IInv => AcceptedBounded
    BY DEF IInv
<1> QED
    BY <1>1, Invariance, PTL

\* However long the server runs, fewer sessions of superseded passwords stay
\* active than there are threads, unless a change of the password was cut
\* short (AuthService.change_password, reset_password).
THEOREM StaleCorrect == Spec => []StaleBounded
<1>1. ASSUME LingeringBounded PROVE StaleBounded
    <2> SUFFICES ASSUME NEW u \in Users \ torn, Changing(u) = {}
                 PROVE  Cardinality(Stale(u)) + Cardinality(StaleLogins(u))
                            < Cardinality(Threads)
        BY DEF StaleBounded
    <2>1. Bounded(u)
        BY <1>1 DEF LingeringBounded, Bounded
    <2>2. Stale(u) \subseteq Lingering(u)
        BY DEF Stale, Lingering, Active
    <2>3. IsFiniteSet(Stale(u)) /\ Cardinality(Stale(u)) <= Cardinality(Lingering(u))
        BY <2>2, Finite, FS_Subset
    <2>4. Cardinality(Stale(u)) \in Nat
        BY <2>3, FS_CardinalityType
    <2> QED
        BY <2>1, <2>3, <2>4, Finite DEF Bounded
<1>2. IInv => StaleBounded
    BY <1>1 DEF IInv
<1> QED
    BY <1>2, Invariance, PTL

\* A session that was revoked or deleted is never active again, whichever
\* refreshes of it were under way (AuthService.refresh, logout).
THEOREM RevokedCorrect == Spec => RevokedForGood
<1> DEFINE Stays == \A s \in Sessions :
                        session[s].revoked \/ session[s] = Gone => ~Active(s)'
<1>1. ASSUME IInv, Next PROVE Stays
    <2>1. CASE Kept
        BY <2>1 DEF Kept, Active, Opened, Gone, NoSession
    <2>2. CASE \E t \in Threads, s \in Sessions, k \in Tokens : CreateSession(t, s, k)
        <3>1. PICK t \in Threads, s \in Sessions, k \in Tokens : CreateSession(t, s, k)
            BY <2>2
        <3>2. session[s] = NoSession /\ \A w \in Sessions \ {s} : session'[w] = session[w]
            BY <1>1, <3>1 DEF CreateSession, IInv, TypeOK
        <3>3. ~NoSession.revoked /\ NoSession.expired # Gone.expired
            BY DEF NoSession, Gone
        <3>4. ASSUME NEW w \in Sessions \ {s}, session[w].revoked \/ session[w] = Gone
              PROVE  ~Active(w)'
            BY <3>2, <3>4 DEF Active, Opened, Gone, NoSession
        <3> QED
            BY <3>2, <3>3, <3>4
    <2> QED
        BY <1>1, <2>1, <2>2, SessionSteps DEF IInv
<1>2. ASSUME UNCHANGED vars PROVE Stays
    BY <1>2 DEF vars, Active, Opened, Gone, NoSession
<1>3. IInv /\ [Next]_vars => [Stays]_vars
    BY <1>1
<1> QED
    BY <1>3, Invariance, PTL DEF Spec, RevokedForGood
=============================================================================
