---------------------------- MODULE AuthSessions ----------------------------
(***************************************************************************)
(* Sign-in sessions: login opens one, refresh rotates its refresh token,   *)
(* logout and DELETE /auth/sessions/{id} revoke one, logout-all and every  *)
(* change of the password revoke all (AuthService, AuthSessionRepository). *)
(*                                                                         *)
(* A request reads, decides, and then writes by id in one or two           *)
(* transactions.  Nothing it has read is locked in between.  Access tokens *)
(* are not looked up in the database and not modelled: whoever holds one   *)
(* acts as its user until it expires.                                      *)
(***************************************************************************)
EXTENDS Naturals, FiniteSets

CONSTANTS
    Users,     \* ids of users whose e-mail address is verified
    Sessions,  \* ids of sessions
    Tokens,    \* refresh tokens
    Passwords, \* the passwords a user may have over time
    First,     \* the password everybody signed up with
    Threads,   \* the threads that serve requests
    Null       \* SQL NULL

ASSUME SessionAssumption ==
    /\ First \in Passwords
    /\ Null \notin Users \cup Sessions \cup Tokens \cup Passwords
    /\ IsFiniteSet(Threads) /\ Threads # {}
    /\ IsFiniteSet(Sessions)

VARIABLES
    password, \* password[u] is the password of u
    chosen,   \* chosen[u] are the passwords that u has ever asked for
    session,  \* session[s] is the row of session s
    issued,   \* the refresh tokens that were created
    accepted, \* accepted[k] counts the refreshes that token k got
    torn,     \* the users whose last change of password was cut short
    request   \* request[t] is what thread t carries between two steps

vars == <<password, chosen, session, issued, accepted, torn, request>>

accountVars == <<password, chosen, torn>>
tokenVars   == <<issued, accepted>>

(***************************************************************************)
(* login is the password that was checked when the session was opened: the *)
(* row does not hold it, the properties do.                                *)
(***************************************************************************)
SessionRow ==
    [user    : Users \cup {Null},
     token   : Tokens \cup {Null},
     login   : Passwords \cup {Null},
     revoked : BOOLEAN,
     expired : BOOLEAN]

NoSession == [user |-> Null, token |-> Null, login |-> Null,
              revoked |-> FALSE, expired |-> FALSE]

\* A row that a cleanup has deleted; its id is not used again.
Gone == [NoSession EXCEPT !.expired = TRUE]

Request ==
    [step     : {"idle", "create", "rotate", "revoke", "set_password",
                 "revoke_all"},
     user     : Users \cup {Null},
     session  : Sessions \cup {Null},
     token    : Tokens \cup {Null},
     password : Passwords \cup {Null}]

Idle == [step |-> "idle", user |-> Null, session |-> Null, token |-> Null,
         password |-> Null]

TypeOK ==
    /\ password \in [Users -> Passwords]
    /\ chosen \in [Users -> SUBSET Passwords]
    /\ session \in [Sessions -> SessionRow]
    /\ issued \subseteq Tokens
    /\ accepted \in [Tokens -> Nat]
    /\ torn \subseteq Users
    /\ request \in [Threads -> Request]

Init ==
    /\ password = [u \in Users |-> First]
    /\ chosen = [u \in Users |-> {First}]
    /\ session = [s \in Sessions |-> NoSession]
    /\ issued = {}
    /\ accepted = [k \in Tokens |-> 0]
    /\ torn = {}
    /\ request = [t \in Threads |-> Idle]

Opened(s) == session[s].user # Null

Active(s) == Opened(s) /\ ~session[s].revoked /\ ~session[s].expired

Begin(t, r) == request[t] = Idle /\ request' = [request EXCEPT ![t] = r]

Finish(t) == request' = [request EXCEPT ![t] = Idle]

-----------------------------------------------------------------------------
(***************************************************************************)
(* POST /auth/login.                                                       *)
(***************************************************************************)

\* The password is compared with the one on record.
CheckPassword(t, u) ==
    /\ Begin(t, [Idle EXCEPT !.step = "create", !.user = u,
                             !.password = password[u]])
    /\ UNCHANGED <<accountVars, session, tokenVars>>

\* Mutant: the row is made from the wrong id.
NewSession_UserOf(r, s, k) ==
    [user |-> s, token |-> k, login |-> r.password,
     revoked |-> FALSE, expired |-> FALSE]

NewSession(r, s, k) ==
    [user |-> r.user, token |-> k, login |-> r.password,
     revoked |-> FALSE, expired |-> FALSE]

CreateSession(t, s, k) ==
    /\ request[t].step = "create"
    /\ session[s] = NoSession
    /\ k \notin issued
    /\ session' = [session EXCEPT ![s] = NewSession(request[t], s, k)]
    /\ issued' = issued \cup {k}
    /\ Finish(t)
    /\ UNCHANGED <<accountVars, accepted>>

-----------------------------------------------------------------------------
(***************************************************************************)
(* POST /auth/refresh and POST /auth/logout.                               *)
(***************************************************************************)

\* The session that get_active_session_by_hash finds for a token.
ByToken(s, k) == Active(s) /\ session[s].token = k

LoadForRefresh(t, s, k) ==
    /\ ByToken(s, k)
    /\ Begin(t, [Idle EXCEPT !.step = "rotate", !.session = s, !.token = k])
    /\ UNCHANGED <<accountVars, session, tokenVars>>

\* Mutants: the hash of the new token is not stored; the columns that were
\* read are written, too.
Rotated_KeepsToken(row, k) == [row EXCEPT !.expired = FALSE]
Rotated_AsRead(row, k) ==
    [row EXCEPT !.token = k, !.expired = FALSE, !.revoked = FALSE]

\* The columns that a refresh writes.
Rotated(row, k) == [row EXCEPT !.token = k, !.expired = FALSE]

\* UPDATE by id: whether the session still has the token that was presented,
\* or was revoked meanwhile, is not noticed; that the row is gone is (Abort).
RotateToken(t, k) ==
    LET r == request[t] IN
    /\ r.step = "rotate"
    /\ Opened(r.session)
    /\ k \notin issued
    /\ session' = [session EXCEPT ![r.session] = Rotated(@, k)]
    /\ issued' = issued \cup {k}
    /\ accepted' = [accepted EXCEPT ![r.token] = @ + 1]
    /\ Finish(t)
    /\ UNCHANGED accountVars

LoadForLogout(t, s, k) ==
    /\ ByToken(s, k)
    /\ Begin(t, [Idle EXCEPT !.step = "revoke", !.session = s])
    /\ UNCHANGED <<accountVars, session, tokenVars>>

-----------------------------------------------------------------------------
(***************************************************************************)
(* DELETE /auth/sessions/{id} and POST /auth/logout-all.                   *)
(***************************************************************************)
LoadForRevoke(t, u, s) ==
    /\ Active(s)
    /\ session[s].user = u
    /\ Begin(t, [Idle EXCEPT !.step = "revoke", !.session = s])
    /\ UNCHANGED <<accountVars, session, tokenVars>>

RevokeSession(t) ==
    /\ request[t].step = "revoke"
    /\ Opened(request[t].session)
    /\ session' = [session EXCEPT ![request[t].session].revoked = TRUE]
    /\ Finish(t)
    /\ UNCHANGED <<accountVars, tokenVars>>

\* Mutant: one session is left out.
AllRevoked_ButOne(u) ==
    LET kept == CHOOSE s \in Sessions : TRUE IN
    [s \in Sessions |-> IF session[s].user = u /\ s # kept
                        THEN [session[s] EXCEPT !.revoked = TRUE]
                        ELSE session[s]]

\* One UPDATE of the sessions that user u has at this moment.
AllRevoked(u) ==
    [s \in Sessions |-> IF session[s].user = u
                        THEN [session[s] EXCEPT !.revoked = TRUE]
                        ELSE session[s]]

LogoutAll(t, u) ==
    /\ request[t] = Idle
    /\ session' = AllRevoked(u)
    /\ torn' = torn \ {u}
    /\ UNCHANGED <<password, chosen, tokenVars, request>>

-----------------------------------------------------------------------------
(***************************************************************************)
(* POST /auth/change-password and POST /auth/reset-password: the password  *)
(* is set in one transaction, the sessions are revoked in the next.        *)
(***************************************************************************)

\* The user knows his password, or a code that was mailed to him.
\* Bound: he never goes back to a password he once chose.
StartPasswordChange(t, u, new) ==
    /\ new \notin chosen[u]
    /\ chosen' = [chosen EXCEPT ![u] = @ \cup {new}]
    /\ Begin(t, [Idle EXCEPT !.step = "set_password", !.user = u,
                             !.password = new])
    /\ UNCHANGED <<password, torn, session, tokenVars>>

SetPassword(t) ==
    LET r == request[t] IN
    /\ r.step = "set_password"
    /\ password' = [password EXCEPT ![r.user] = r.password]
    /\ request' = [request EXCEPT ![t].step = "revoke_all"]
    /\ UNCHANGED <<chosen, torn, session, tokenVars>>

RevokeAll(t) ==
    LET u == request[t].user IN
    /\ request[t].step = "revoke_all"
    /\ session' = AllRevoked(u)
    /\ torn' = torn \ {u}
    /\ Finish(t)
    /\ UNCHANGED <<password, chosen, tokenVars>>

-----------------------------------------------------------------------------
\* The process or the database fails.  A change of password that has set the
\* password and not yet revoked the sessions is torn.
Abort(t) ==
    /\ request[t] # Idle
    /\ torn' = IF request[t].step = "revoke_all" THEN torn \cup {request[t].user}
                                                 ELSE torn
    /\ Finish(t)
    /\ UNCHANGED <<password, chosen, session, tokenVars>>

Expire(s) ==
    /\ Active(s)
    /\ session' = [session EXCEPT ![s].expired = TRUE]
    /\ UNCHANGED <<accountVars, tokenVars, request>>

(***************************************************************************)
(* The two cleanups, which nothing in the service calls yet: each is one   *)
(* DELETE.                                                                 *)
(***************************************************************************)
Without(deleted) ==
    [s \in Sessions |-> IF s \in deleted THEN Gone ELSE session[s]]

CleanupExpired ==
    /\ session' = Without({s \in Sessions : Opened(s) /\ session[s].expired})
    /\ UNCHANGED <<accountVars, tokenVars, request>>

CleanupRevoked ==
    /\ session' = Without({s \in Sessions : Opened(s) /\ session[s].revoked})
    /\ UNCHANGED <<accountVars, tokenVars, request>>

Serve(t) ==
    \/ \E u \in Users :
          \/ CheckPassword(t, u)
          \/ \E s \in Sessions : LoadForRevoke(t, u, s)
          \/ LogoutAll(t, u)
          \/ \E new \in Passwords : StartPasswordChange(t, u, new)
    \/ \E s \in Sessions, k \in Tokens :
          LoadForRefresh(t, s, k) \/ LoadForLogout(t, s, k)

Work(t) ==
    \/ \E s \in Sessions, k \in Tokens : CreateSession(t, s, k)
    \/ \E k \in Tokens : RotateToken(t, k)
    \/ RevokeSession(t)
    \/ SetPassword(t)
    \/ RevokeAll(t)

Next ==
    \/ \E t \in Threads : Serve(t) \/ Work(t) \/ Abort(t)
    \/ \E s \in Sessions : Expire(s)
    \/ CleanupExpired
    \/ CleanupRevoked

Spec == Init /\ [][Next]_vars

-----------------------------------------------------------------------------
(***************************************************************************)
(* What holds however the requests interleave.  With one thread the two    *)
(* bounds say what the service means to promise: no active session has a   *)
(* superseded password, and a refresh token is accepted once.              *)
(***************************************************************************)

\* The sessions and the logins in progress whose password is not the one of
\* their user any more.
Stale(u) ==
    {s \in Sessions : Active(s) /\ session[s].user = u
                                /\ session[s].login # password[u]}

StaleLogins(u) ==
    {t \in Threads : request[t].step = "create" /\ request[t].user = u
                                                /\ request[t].password # password[u]}

Changing(u) ==
    {t \in Threads : request[t].step = "revoke_all" /\ request[t].user = u}

\* Once no change of password is in progress or was cut short, the sessions
\* that a superseded password opened are those of logins that overlapped the
\* change: fewer than there are threads, however long the server runs
\* (change_password, reset_password).
StaleBounded ==
    \A u \in Users \ torn :
        Changing(u) = {} =>
            Cardinality(Stale(u)) + Cardinality(StaleLogins(u))
                < Cardinality(Threads)

\* The refreshes that have found token k on record and will replace it.
Rotating(k) ==
    {t \in Threads : request[t].step = "rotate" /\ request[t].token = k}

\* A refresh token that was replaced never comes back, so that no token is
\* accepted more than once per thread, also when refreshes of one session
\* overlap (refresh).
AcceptedBounded ==
    \A k \in Tokens :
        accepted[k] + Cardinality(Rotating(k)) <= Cardinality(Threads)

\* A session that was revoked is never active again: a refresh that had read
\* it before extends its expiry and its token, and leaves it revoked.  Nor is
\* one that a cleanup has deleted.
RevokedForGood ==
    [][\A s \in Sessions : session[s].revoked \/ session[s] = Gone => ~Active(s)']_vars
=============================================================================
