---------------------------- MODULE LegacySessions ----------------------------
(***************************************************************************)
(* Accounts and sessions of the TypeScript back end (auth.service.ts and    *)
(* its controller): register, login, logout, and the tokens that reset a    *)
(* password, while a platform administrator disables and deletes users and  *)
(* tokens expire.                                                           *)
(*                                                                         *)
(* A step is one Prisma call, or the arrival of a response in the browser.  *)
(* A request may end before any of its steps: the process dies, a statement *)
(* fails, or the response is lost on its way.  A request that is refused by *)
(* its first query changes nothing and is not modelled: the start of each   *)
(* operation has the query's outcome as guard.  Nor is POST /auth/refresh,  *)
(* which only reads the tables and sets no cookie.                          *)
(***************************************************************************)
EXTENDS Naturals, FiniteSets, LegacyApi

CONSTANTS
    Emails,             \* the addresses people register with
    Passwords,          \* passwords that satisfy validatePasswordStrength
    Browsers,           \* each has one cookie jar, shared by its tabs
    RefreshIds,         \* ids of every row ever inserted into refresh_tokens
    ResetIds,           \* ids of every row ever inserted into password_reset_tokens
    AuthorEmails,            \* addresses whose account has created a workflow or an API key
    MaxAccounts,        \* bound: how often one address is registered
    MaxRequests         \* bound: requests that get past their first query

ASSUME SessionsSetsAssumption ==
    None \notin Emails \cup Passwords \cup Browsers \cup RefreshIds \cup ResetIds
ASSUME SessionsBoundsAssumption ==
    /\ MaxAccounts \in Nat
    /\ MaxRequests \in Nat

VARIABLES
    account,    \* table users, by address; `id` tells the accounts of one address apart
    refresh,    \* table refresh_tokens
    reset,      \* table password_reset_tokens: a row names an address, not a user
    cookie,     \* per browser: the refresh token in its cookie
    request,    \* per handler: the request in progress
    spent,      \* history: how often a reset token has changed a password
    requests    \* history: how many requests there were

sessionVars == <<account, refresh, reset, cookie, request, spent, requests>>

-----------------------------------------------------------------------------

Account == [there : BOOLEAN, active : BOOLEAN, password : Passwords \cup {None}, id : 0..MaxAccounts]

\* `live` is "the row is there"; ids are never handed out twice.
RefreshToken ==
    [state : {"new", "live", "gone"}, email : Emails \cup {None}, id : 0..MaxAccounts]
ResetToken ==
    [state : {"new", "live"}, expired : BOOLEAN, used : BOOLEAN, email : Emails \cup {None}]

Steps == {"idle", "insert", "remember", "granted", "forget", "forgotten", "issue", "commit", "delete"}
Request ==
    [step : Steps, browser : Browsers \cup {None}, email : Emails \cup {None}, id : 0..MaxAccounts,
     password : Passwords \cup {None}, token : RefreshIds \cup ResetIds \cup {None}]
Idle == [step |-> "idle", browser |-> None, email |-> None, id |-> 0, password |-> None, token |-> None]

SessionsTypeOK ==
    /\ account \in [Emails -> Account]
    /\ refresh \in [RefreshIds -> RefreshToken]
    /\ reset \in [ResetIds -> ResetToken]
    /\ cookie \in [Browsers -> RefreshIds \cup {None}]
    /\ request \in [Handlers -> Request]
    /\ spent \in [ResetIds -> Nat]
    /\ requests \in 0..MaxRequests

SessionsInit ==
    /\ account = [e \in Emails |-> [there |-> FALSE, active |-> FALSE, password |-> None, id |-> 0]]
    /\ refresh = [t \in RefreshIds |-> [state |-> "new", email |-> None, id |-> 0]]
    /\ reset = [t \in ResetIds |-> [state |-> "new", expired |-> FALSE, used |-> FALSE, email |-> None]]
    /\ cookie = [b \in Browsers |-> None]
    /\ request = [h \in Handlers |-> Idle]
    /\ spent = [t \in ResetIds |-> 0]
    /\ requests = 0

\* A free handler takes up a request whose first query has let it pass.
Begin(h, r) ==
    /\ request[h].step = "idle"
    /\ requests < MaxRequests
    /\ requests' = requests + 1
    /\ request' = [request EXCEPT ![h] = r]

Continue(h, step) == request' = [request EXCEPT ![h].step = step] /\ UNCHANGED requests
End(h) == request' = [request EXCEPT ![h] = Idle] /\ UNCHANGED requests

\* The request ends where it is: what it has written stays, its response never arrives.
Fail(h) ==
    /\ request[h].step # "idle"
    /\ End(h)
    /\ UNCHANGED <<account, refresh, reset, cookie, spent>>

UserExists(e, id) == account[e].there /\ account[e].id = id

-----------------------------------------------------------------------------
(* Register. *)

StartRegister(h, b, e, p) ==
    /\ ~account[e].there
    /\ Begin(h, [Idle EXCEPT !.step = "insert", !.browser = b, !.email = e, !.password = p])
    /\ UNCHANGED <<account, refresh, reset, cookie, spent>>

\* The transaction: user, organization, membership.  email is unique, so the later of
\* two registrations that both saw no user fails.
InsertAccount(h) ==
    LET r == request[h] IN
    /\ r.step = "insert"
    /\ \/ /\ account[r.email].there
          /\ End(h)
          /\ UNCHANGED account
       \/ /\ ~account[r.email].there
          /\ account[r.email].id < MaxAccounts
          /\ LET id == account[r.email].id + 1 IN
             /\ account' = [account EXCEPT ![r.email] =
                    [there |-> TRUE, active |-> TRUE, password |-> r.password, id |-> id]]
             /\ request' = [request EXCEPT ![h].step = "remember", ![h].id = id]
          /\ UNCHANGED requests
    /\ UNCHANGED <<refresh, reset, cookie, spent>>

\* The foreign key userId refuses the row of a user who has gone meanwhile.
CreateRefreshToken(h) ==
    LET r == request[h] IN
    /\ r.step = "remember"
    /\ \/ /\ ~UserExists(r.email, r.id)
          /\ End(h)
          /\ UNCHANGED refresh
       \/ /\ UserExists(r.email, r.id)
          /\ \E t \in RefreshIds :
                /\ refresh[t].state = "new"
                /\ refresh' = [refresh EXCEPT ![t] =
                       [state |-> "live", email |-> r.email, id |-> r.id]]
                /\ request' = [request EXCEPT ![h].step = "granted", ![h].token = t]
          /\ UNCHANGED requests
    /\ UNCHANGED <<account, reset, cookie, spent>>

\* Mutant: the address is sent as the cookie.
SignedInSwapped(h) ==
    /\ request[h].step = "granted"
    /\ cookie' = [cookie EXCEPT ![request[h].browser] = request[h].email]
    /\ End(h)
    /\ UNCHANGED <<account, refresh, reset, spent>>

\* register and login answer alike: the browser's cookie is replaced.
SignedIn(h) ==
    /\ request[h].step = "granted"
    /\ cookie' = [cookie EXCEPT ![request[h].browser] = request[h].token]
    /\ End(h)
    /\ UNCHANGED <<account, refresh, reset, spent>>

(* Login: one query, then a slow comparison with the hash that was read. *)

StartLogin(h, b, e, p) ==
    /\ account[e].there
    /\ account[e].active
    /\ account[e].password = p
    /\ Begin(h, [Idle EXCEPT !.step = "remember", !.browser = b, !.email = e, !.id = account[e].id, !.password = p])
    /\ UNCHANGED <<account, refresh, reset, cookie, spent>>

(* Logout: without a cookie there is no row to delete; the cookie is cleared all the same. *)

StartLogout(h, b) ==
    /\ Begin(h, [Idle EXCEPT !.step = IF cookie[b] = None THEN "forgotten" ELSE "forget",
                             !.browser = b, !.token = cookie[b]])
    /\ UNCHANGED <<account, refresh, reset, cookie, spent>>

\* Mutant: every session of the user ends.
DeleteAllRefreshTokens(h) ==
    LET t == request[h].token IN
    /\ request[h].step = "forget"
    /\ \/ /\ refresh[t].state = "live"
          /\ refresh' = [s \in RefreshIds |-> IF refresh[s].state = "live" /\ refresh[s].email = refresh[t].email
                                             THEN [refresh[s] EXCEPT !.state = "gone"] ELSE refresh[s]]
          /\ Continue(h, "forgotten")
       \/ /\ refresh[t].state # "live"
          /\ End(h)
          /\ UNCHANGED refresh
    /\ UNCHANGED <<account, reset, cookie, spent>>

\* Prisma's delete throws when there is no such row; the cookie then stays.
DeleteRefreshToken(h) ==
    LET t == request[h].token IN
    /\ request[h].step = "forget"
    /\ \/ /\ refresh[t].state = "live"
          /\ refresh' = [refresh EXCEPT ![t].state = "gone"]
          /\ Continue(h, "forgotten")
       \/ /\ refresh[t].state # "live"
          /\ End(h)
          /\ UNCHANGED refresh
    /\ UNCHANGED <<account, reset, cookie, spent>>

\* clearCookie names no token: it clears whatever the browser has by now.
SignedOut(h) ==
    /\ request[h].step = "forgotten"
    /\ cookie' = [cookie EXCEPT ![request[h].browser] = None]
    /\ End(h)
    /\ UNCHANGED <<account, refresh, reset, spent>>

(* Password reset. *)

StartForgot(h, e) ==
    /\ account[e].there
    /\ Begin(h, [Idle EXCEPT !.step = "issue", !.email = e])
    /\ UNCHANGED <<account, refresh, reset, cookie, spent>>

IssueResetToken(h) ==
    /\ request[h].step = "issue"
    /\ \E t \in ResetIds :
          /\ reset[t].state = "new"
          /\ reset' = [reset EXCEPT ![t] =
                 [state |-> "live", expired |-> FALSE, used |-> FALSE, email |-> request[h].email]]
    /\ End(h)
    /\ UNCHANGED <<account, refresh, cookie, spent>>

\* Mutant: the query does not ask for used = false.
ValidResetUsed(t) == reset[t].state = "live" /\ ~reset[t].expired

ValidReset(t) == reset[t].state = "live" /\ ~reset[t].used /\ ~reset[t].expired

\* After this query the new password is hashed, which takes a while.
StartReset(h, t, p) ==
    /\ ValidReset(t)
    /\ Begin(h, [Idle EXCEPT !.step = "commit", !.email = reset[t].email, !.password = p, !.token = t])
    /\ UNCHANGED <<account, refresh, reset, cookie, spent>>

\* Mutant: two statements instead of a transaction, the token's first.
CommitResetLoosely(h) ==
    LET r == request[h] IN
    /\ r.step = "commit"
    /\ reset' = [reset EXCEPT ![r.token].used = TRUE]
    /\ \/ /\ account[r.email].there
          /\ account' = [account EXCEPT ![r.email].password = r.password]
          /\ spent' = [spent EXCEPT ![r.token] = @ + 1]
       \/ /\ ~account[r.email].there
          /\ UNCHANGED <<account, spent>>
    /\ End(h)
    /\ UNCHANGED <<refresh, cookie>>

\* One transaction: without a user of that address it is rolled back.
CommitReset(h) ==
    LET r == request[h] IN
    /\ r.step = "commit"
    /\ \/ /\ account[r.email].there
          /\ account' = [account EXCEPT ![r.email].password = r.password]
          /\ reset' = [reset EXCEPT ![r.token].used = TRUE]
          /\ spent' = [spent EXCEPT ![r.token] = @ + 1]
       \/ /\ ~account[r.email].there
          /\ UNCHANGED <<account, reset, spent>>
    /\ End(h)
    /\ UNCHANGED <<refresh, cookie>>

-----------------------------------------------------------------------------
(* The platform administrator, and time. *)

UpdateAccount(e) ==
    /\ account[e].there
    /\ account' = [account EXCEPT ![e].active = ~@]
    /\ UNCHANGED <<refresh, reset, cookie, request, spent, requests>>

StartDeleteAccount(h, e) ==
    /\ account[e].there
    /\ Begin(h, [Idle EXCEPT !.step = "delete", !.email = e, !.id = account[e].id])
    /\ UNCHANGED <<account, refresh, reset, cookie, spent>>

\* Mutant: no ON DELETE CASCADE.
CascadeNothing(e) == refresh

\* The tokens of the user go with the row; a workflow or an API key of the user, whose
\* relations do not cascade, keeps the row.
CascadeTokens(e) ==
    [t \in RefreshIds |-> IF refresh[t].state = "live" /\ refresh[t].email = e
                          THEN [refresh[t] EXCEPT !.state = "gone"] ELSE refresh[t]]

DeleteAccount(h) ==
    LET r == request[h] IN
    /\ r.step = "delete"
    /\ \/ /\ UserExists(r.email, r.id)
          /\ r.email \notin AuthorEmails
          /\ account' = [account EXCEPT ![r.email].there = FALSE]
          /\ refresh' = CascadeTokens(r.email)
       \/ /\ ~UserExists(r.email, r.id) \/ r.email \in AuthorEmails
          /\ UNCHANGED <<account, refresh>>
    /\ End(h)
    /\ UNCHANGED <<reset, cookie, spent>>

ExpireResetToken(t) ==
    /\ reset[t].state = "live"
    /\ ~reset[t].expired
    /\ reset' = [reset EXCEPT ![t].expired = TRUE]
    /\ UNCHANGED <<account, refresh, cookie, request, spent, requests>>

-----------------------------------------------------------------------------

Client(h) ==
    \/ \E b \in Browsers, e \in Emails, p \in Passwords : StartRegister(h, b, e, p) \/ StartLogin(h, b, e, p)
    \/ \E b \in Browsers : StartLogout(h, b)
    \/ \E e \in Emails : StartForgot(h, e) \/ StartDeleteAccount(h, e)
    \/ \E t \in ResetIds, p \in Passwords : StartReset(h, t, p)

Serve(h) ==
    \/ InsertAccount(h) \/ CreateRefreshToken(h) \/ SignedIn(h)
    \/ DeleteRefreshToken(h) \/ SignedOut(h)
    \/ IssueResetToken(h) \/ CommitReset(h)
    \/ DeleteAccount(h)

SessionsNext ==
    \/ \E h \in Handlers : Client(h) \/ Serve(h) \/ Fail(h)
    \/ \E e \in Emails : UpdateAccount(e)
    \/ \E t \in ResetIds : ExpireResetToken(t)

SessionsSpec == SessionsInit /\ [][SessionsNext]_sessionVars

-----------------------------------------------------------------------------
(* Properties. *)

\* docs/ARCHITECTURE.md calls them "One-time use tokens".  resetPassword looks for
\* used = false in one query and marks the token in a later transaction.
ResetTokensAreOneTime == \A t \in ResetIds : spent[t] <= 1

\* The handlers that have found a reset token unused and have not changed the password yet,
\* and a step that changes one with it, if at all, at the cost of such a handler.
Readers(t) == {h \in Handlers : request[h].step = "commit" /\ request[h].token = t}
ReuseWasUnderWay(t) ==
    /\ Readers(t)' \subseteq Readers(t)
    /\ spent'[t] > spent[t] => Readers(t)' # Readers(t)

\* What the code does keep of "one-time": once a token has changed a password, no request
\* that presents it later comes as far as the transaction, however often it is presented;
\* only requests that had found it unused by then can change a password again, each once.
ResetReusesWereUnderWay == [][\A t \in ResetIds : spent[t] > 0 => ReuseWasUnderWay(t)]_sessionVars

\* A reset token is marked used exactly when a password was changed with it: when the
\* account has gone between the two queries of resetPassword, both writes are rolled back.
ResetIsAtomic == \A t \in ResetIds : reset[t].used <=> spent[t] > 0

\* Every row of refresh_tokens belongs to a user that is there, although login and register
\* insert it after, and outside, the query that found the user, and deleteUser may come
\* in between and the address may be registered again.
SessionsBelongToUsers ==
    \A t \in RefreshIds : refresh[t].state = "live" => UserExists(refresh[t].email, refresh[t].id)

\* In a step, the row t of browser b goes with its user or to a logout with this cookie, and
\* b's cookie is cleared by a logout that was sent without it.
KeepsSession(b, t) ==
    /\ refresh'[t].state # "live" =>
           \/ ~UserExists(refresh[t].email, refresh[t].id)'
           \/ \E h \in Handlers : request[h].step = "forget" /\ request[h].browser = b /\ request[h].token = t
    /\ cookie'[b] = None =>
           \E h \in Handlers : request[h].step = "forgotten" /\ request[h].browser = b /\ request[h].token # t

\* A browser whose cookie names a row of refresh_tokens loses the row only to a logout it
\* sent with this cookie, or with the user; and it loses the cookie, while the row is there,
\* only to a newer sign-in or to the late response of a logout it had sent without this
\* cookie.  No other browser's logout, no reset, no request that dies or loses its response
\* ends a session.  (The reverse does happen: a logout whose response is lost leaves the
\* cookie of a row that is gone, and every later logout with it fails.)
SessionsEndByOwnLogout ==
    [][\A b \in Browsers : cookie[b] # None /\ refresh[cookie[b]].state = "live"
                            => KeepsSession(b, cookie[b])]_sessionVars
=============================================================================
