------------------------ MODULE LegacySessionsProofs ------------------------
(***************************************************************************)
(* Proofs about LegacySessions: types, reset tokens that are used again, and *)
(* the sessions of users and browsers, for any number of handlers, browsers, *)
(* users and tokens.  One inductive invariant, IInv, carries all; one lemma  *)
(* shows that an action keeps it.                                            *)
(***************************************************************************)
EXTENDS LegacySessions, TLAPS

-----------------------------------------------------------------------------
(* The inductive invariant. *)

\* What a request in progress has found, or has been sent with.
Holding == {"granted", "forget", "forgotten"}
Sound(r) ==
    /\ r.step \in Holding \cup {"insert", "remember"} => r.browser \in Browsers
    /\ r.step \in {"insert", "remember", "granted", "issue", "commit", "delete"} => r.email \in Emails
    /\ r.step \in {"insert", "commit"} => r.password \in Passwords
    /\ r.step \in {"granted", "forget"} => r.token \in RefreshIds
    /\ r.step = "forgotten" => r.token \in RefreshIds \cup {None}
    /\ r.step = "commit" => r.token \in ResetIds
RequestsSound == \A h \in Handlers : Sound(request[h])

ResetInv ==
    /\ \A t \in ResetIds :
          /\ reset[t].used <=> spent[t] > 0
          /\ reset[t].state = "new" => ~reset[t].used
          /\ reset[t].state = "live" => reset[t].email \in Emails
    /\ \A h \in Handlers : request[h].step = "commit" => reset[request[h].token].state = "live"

\* A row of refresh_tokens names an account of the past or the present.
TokensInv ==
    \A t \in RefreshIds : refresh[t].state # "new" =>
        /\ refresh[t].email \in Emails
        /\ refresh[t].id <= account[refresh[t].email].id
        /\ refresh[t].state = "live" => UserExists(refresh[t].email, refresh[t].id)

\* A refresh token is on its way to one browser, or in one cookie, and only that browser can
\* be logging out with it; when its logout is answered, the row has gone.
CookiesInv ==
    /\ \A b \in Browsers : cookie[b] # None =>
          /\ refresh[cookie[b]].state # "new"
          /\ \A c \in Browsers : cookie[c] = cookie[b] => c = b
    /\ \A h \in Handlers : request[h].step \in Holding /\ request[h].token # None =>
          /\ refresh[request[h].token].state # "new"
          /\ request[h].step = "forgotten" => refresh[request[h].token].state = "gone"
          /\ \A b \in Browsers : cookie[b] = request[h].token =>
                 request[h].step # "granted" /\ request[h].browser = b
          /\ request[h].step = "granted" =>
                 \A g \in Handlers :
                     request[g].step \in Holding /\ request[g].token = request[h].token => g = h

IInv ==
    /\ SessionsTypeOK
    /\ RequestsSound
    /\ ResetInv
    /\ TokensInv
    /\ CookiesInv

-----------------------------------------------------------------------------
(* Requests. *)

LEMMA IdleType == Idle \in Request /\ Sound(Idle) /\ Idle.step = "idle"
BY SessionsBoundsAssumption DEF Idle, Request, Steps, Sound, Holding

LEMMA OneRequest ==
    ASSUME SessionsTypeOK, RequestsSound, NEW h \in Handlers, NEW r \in Request, Sound(r),
           request' = [request EXCEPT ![h] = r]
    PROVE  /\ request' \in [Handlers -> Request]
           /\ RequestsSound'
           /\ request'[h] = r /\ \A g \in Handlers : g # h => request'[g] = request[g]
BY DEF SessionsTypeOK, RequestsSound, Sound

\* What holds of the request that one handler has next, and of the others'.
NextRequest(h, step) ==
    /\ request' \in [Handlers -> Request]
    /\ RequestsSound'
    /\ request'[h].step = step
    /\ \A g \in Handlers : g # h => request'[g] = request[g]

LEMMA EndStep ==
    ASSUME SessionsTypeOK, RequestsSound, NEW h \in Handlers, End(h)
    PROVE  NextRequest(h, "idle") /\ requests' = requests
BY IdleType, OneRequest DEF End, NextRequest

LEMMA BeginStep ==
    ASSUME SessionsTypeOK, RequestsSound, NEW h \in Handlers, NEW r \in Request, Sound(r), Begin(h, r)
    PROVE  /\ NextRequest(h, r.step) /\ request'[h] = r /\ request[h].step = "idle"
           /\ requests' \in 0..MaxRequests
<1>1. requests' \in 0..MaxRequests
    BY SessionsBoundsAssumption DEF Begin, SessionsTypeOK
<1> QED
    BY <1>1, OneRequest DEF Begin, NextRequest

\* The requests that handlers take up.
LEMMA NewRequests ==
    ASSUME NEW b \in Browsers, NEW e \in Emails, NEW p \in Passwords
    PROVE  /\ [Idle EXCEPT !.step = "insert", !.browser = b, !.email = e, !.password = p] \in Request
           /\ \A n \in 0..MaxAccounts :
                  [Idle EXCEPT !.step = "remember", !.browser = b, !.email = e, !.id = n, !.password = p] \in Request
BY IdleType DEF Request, Steps

LEMMA NewRequestsWithoutBrowser ==
    ASSUME NEW e \in Emails
    PROVE  /\ [Idle EXCEPT !.step = "issue", !.email = e] \in Request
           /\ \A n \in 0..MaxAccounts : [Idle EXCEPT !.step = "delete", !.email = e, !.id = n] \in Request
           /\ \A t \in ResetIds, p \in Passwords :
                  [Idle EXCEPT !.step = "commit", !.email = e, !.password = p, !.token = t] \in Request
BY IdleType DEF Request, Steps

\* The later steps of a request, and the rows inserted.
Inserted(r, n) == [r EXCEPT !.step = "remember", !.id = n]
Granted(r, t) == [r EXCEPT !.step = "granted", !.token = t]
Forgotten(r) == [r EXCEPT !.step = "forgotten"]
LEMMA LaterRequests ==
    ASSUME NEW r \in Request
    PROVE  /\ \A n \in 0..MaxAccounts :
                  /\ Inserted(r, n) \in Request
                  /\ Inserted(r, n).step = "remember" /\ Inserted(r, n).email = r.email
                  /\ Inserted(r, n).browser = r.browser
           /\ \A t \in RefreshIds :
                  /\ Granted(r, t) \in Request
                  /\ Granted(r, t).step = "granted" /\ Granted(r, t).token = t
                  /\ Granted(r, t).email = r.email /\ Granted(r, t).browser = r.browser
           /\ /\ Forgotten(r) \in Request /\ Forgotten(r).step = "forgotten"
              /\ Forgotten(r).token = r.token /\ Forgotten(r).browser = r.browser
BY DEF Request, Steps, Inserted, Granted, Forgotten

LEMMA NewAccount ==
    ASSUME NEW p \in Passwords, NEW n \in 0..MaxAccounts
    PROVE  LET a == [there |-> TRUE, active |-> TRUE, password |-> p, id |-> n] IN
           a \in Account /\ a.there /\ a.id = n
BY DEF Account

LEMMA NewRefreshToken ==
    ASSUME NEW r \in Request
    PROVE  LET t == [state |-> "live", email |-> r.email, id |-> r.id] IN
           t \in RefreshToken /\ t.state = "live" /\ t.email = r.email /\ t.id = r.id
BY DEF RefreshToken, Request

-----------------------------------------------------------------------------
(* What steps keep that do not touch it. *)

\* A password may change and a user be disabled.
AccountsKept == \A e \in Emails : account'[e].there = account[e].there /\ account'[e].id = account[e].id

\* No handler comes to hold a token or to read one.
RequestsKept ==
    \A g \in Handlers : request'[g] = request[g] \/ request'[g].step \notin Holding \cup {"commit"}

LEMMA ResetKept ==
    ASSUME SessionsTypeOK, ResetInv, RequestsKept, reset' = reset, spent' = spent
    PROVE  ResetInv'
<1>1. \A h \in Handlers : request'[h].step = "commit" => reset[request'[h].token].state = "live"
    BY DEF ResetInv, RequestsKept
<1> QED
    BY <1>1 DEF ResetInv

LEMMA TokensKept ==
    ASSUME TokensInv, AccountsKept, refresh' = refresh
    PROVE  TokensInv'
BY DEF TokensInv, AccountsKept, UserExists

\* Rows may go, and none appears; cookies may be cleared.
RowsKept == \A t \in RefreshIds :
    /\ refresh[t].state = "new" <=> refresh'[t].state = "new"
    /\ refresh[t].state = "gone" => refresh'[t].state = "gone"
JarsKept == \A b \in Browsers : cookie'[b] = cookie[b] \/ cookie'[b] = None

LEMMA CookiesKept ==
    ASSUME SessionsTypeOK, RequestsSound, CookiesInv, RequestsKept, RowsKept, JarsKept
    PROVE  CookiesInv'
<1>1. ASSUME NEW b \in Browsers, cookie'[b] # None
      PROVE  /\ refresh'[cookie'[b]].state # "new"
             /\ \A c \in Browsers : cookie'[c] = cookie'[b] => c = b
    <2>1. cookie'[b] = cookie[b] /\ cookie[b] \in RefreshIds
        BY <1>1 DEF JarsKept, SessionsTypeOK
    <2>2. \A c \in Browsers : cookie'[c] = cookie'[b] => cookie[c] = cookie[b]
        BY <1>1, <2>1 DEF JarsKept
    <2> QED
        BY <1>1, <2>1, <2>2 DEF CookiesInv, RowsKept
<1>2. ASSUME NEW h \in Handlers, request'[h].step \in Holding, request'[h].token # None
      PROVE  /\ refresh'[request'[h].token].state # "new"
             /\ request'[h].step = "forgotten" => refresh'[request'[h].token].state = "gone"
             /\ \A b \in Browsers : cookie'[b] = request'[h].token =>
                    request'[h].step # "granted" /\ request'[h].browser = b
             /\ request'[h].step = "granted" =>
                    \A g \in Handlers :
                        request'[g].step \in Holding /\ request'[g].token = request'[h].token => g = h
    <2>1. request'[h] = request[h] /\ request[h].token \in RefreshIds
        BY <1>2 DEF RequestsKept, RequestsSound, Sound, Holding
    <2>2. \A b \in Browsers : cookie'[b] = request[h].token => cookie[b] = request[h].token
        BY <1>2, <2>1 DEF JarsKept
    <2>3. \A g \in Handlers : request'[g].step \in Holding => request'[g] = request[g]
        BY DEF RequestsKept
    <2> QED
        BY <1>2, <2>1, <2>2, <2>3 DEF CookiesInv, RowsKept
<1> QED
    BY <1>1, <1>2 DEF CookiesInv

-----------------------------------------------------------------------------
(* Clients. *)

LEMMA BeginKeeps ==
    ASSUME IInv, NEW h \in Handlers, NEW r \in Request, Sound(r), Begin(h, r), r.step \notin Holding \cup {"commit"},
           UNCHANGED <<account, refresh, reset, cookie, spent>>
    PROVE  IInv'
<1>1. NextRequest(h, r.step) /\ request[h].step = "idle" /\ requests' \in 0..MaxRequests
    BY BeginStep DEF IInv
<1>2. SessionsTypeOK' /\ RequestsSound'
    BY <1>1 DEF IInv, SessionsTypeOK, NextRequest
<1>3. RequestsKept
    BY <1>1 DEF NextRequest, RequestsKept
<1>4. RowsKept /\ JarsKept /\ AccountsKept
    BY DEF RowsKept, JarsKept, AccountsKept
<1> QED
    BY <1>2, <1>3, <1>4, ResetKept, TokensKept, CookiesKept DEF IInv

LEMMA StartRegisterStep ==
    ASSUME IInv, NEW h \in Handlers, NEW b \in Browsers, NEW e \in Emails, NEW p \in Passwords, StartRegister(h, b, e, p)
    PROVE  IInv'
<1>1. PICK r \in Request : r = [Idle EXCEPT !.step = "insert", !.browser = b, !.email = e, !.password = p]
    BY NewRequests
<1>2. Sound(r) /\ r.step \notin Holding \cup {"commit"}
    BY <1>1 DEF Sound, Idle, Holding
<1> QED
    BY <1>1, <1>2, BeginKeeps DEF StartRegister

LEMMA StartLoginStep ==
    ASSUME IInv, NEW h \in Handlers, NEW b \in Browsers, NEW e \in Emails, NEW p \in Passwords, StartLogin(h, b, e, p)
    PROVE  IInv'
<1>1. account[e].id \in 0..MaxAccounts
    BY DEF IInv, SessionsTypeOK, Account
<1>2. PICK r \in Request : r = [Idle EXCEPT !.step = "remember", !.browser = b, !.email = e,
                                           !.id = account[e].id, !.password = p]
    BY <1>1, NewRequests
<1>3. Sound(r) /\ r.step \notin Holding \cup {"commit"}
    BY <1>2 DEF Sound, Idle, Holding
<1> QED
    BY <1>2, <1>3, BeginKeeps DEF StartLogin

LEMMA StartForgotStep ==
    ASSUME IInv, NEW h \in Handlers, NEW e \in Emails, StartForgot(h, e)
    PROVE  IInv'
<1>1. PICK r \in Request : r = [Idle EXCEPT !.step = "issue", !.email = e]
    BY NewRequestsWithoutBrowser
<1>2. Sound(r) /\ r.step \notin Holding \cup {"commit"}
    BY <1>1 DEF Sound, Idle, Holding
<1> QED
    BY <1>1, <1>2, BeginKeeps DEF StartForgot

LEMMA StartDeleteAccountStep ==
    ASSUME IInv, NEW h \in Handlers, NEW e \in Emails, StartDeleteAccount(h, e)
    PROVE  IInv'
<1>1. account[e].id \in 0..MaxAccounts
    BY DEF IInv, SessionsTypeOK, Account
<1>2. PICK r \in Request : r = [Idle EXCEPT !.step = "delete", !.email = e, !.id = account[e].id]
    BY <1>1, NewRequestsWithoutBrowser
<1>3. Sound(r) /\ r.step \notin Holding \cup {"commit"}
    BY <1>2 DEF Sound, Idle, Holding
<1> QED
    BY <1>2, <1>3, BeginKeeps DEF StartDeleteAccount

\* A request that ends early leaves nothing to hold.
LEMMA FailStep ==
    ASSUME IInv, NEW h \in Handlers, Fail(h)
    PROVE  IInv'
<1>1. UNCHANGED <<account, refresh, reset, cookie, spent>>
    BY DEF Fail
<1>2. NextRequest(h, "idle") /\ requests' = requests
    BY EndStep DEF Fail, IInv
<1>3. SessionsTypeOK' /\ RequestsSound'
    BY <1>1, <1>2 DEF IInv, SessionsTypeOK, NextRequest
<1>4. RequestsKept
    BY <1>2 DEF NextRequest, RequestsKept, Holding
<1>5. RowsKept /\ JarsKept /\ AccountsKept
    BY <1>1 DEF RowsKept, JarsKept, AccountsKept
<1> QED
    BY <1>1, <1>3, <1>4, <1>5, ResetKept, TokensKept, CookiesKept DEF IInv

\* The token in the cookie is on its way to no other browser.
LEMMA StartLogoutStep ==
    ASSUME IInv, NEW h \in Handlers, NEW b \in Browsers, StartLogout(h, b)
    PROVE  IInv'
<1>1. PICK t \in RefreshIds \cup {None} : t = cookie[b]
    BY DEF IInv, SessionsTypeOK
<1>2. PICK step \in {"forget", "forgotten"} : step = IF t = None THEN "forgotten" ELSE "forget"
    BY DEF Holding
<1> PICK r : r = [Idle EXCEPT !.step = step, !.browser = b, !.token = t]
    OBVIOUS
<1>3. r \in Request /\ r.step = step /\ r.browser = b /\ r.token = t
    BY IdleType DEF Request, Steps, Idle
<1>4. Sound(r)
    BY <1>2, <1>3, SessionsSetsAssumption DEF Sound, Holding
<1>5. Begin(h, r) /\ UNCHANGED <<account, refresh, reset, cookie, spent>>
    BY <1>1, <1>2 DEF StartLogout
<1>6. NextRequest(h, r.step) /\ request'[h] = r /\ request[h].step = "idle" /\ requests' \in 0..MaxRequests
    <2>1. r \in Request /\ SessionsTypeOK /\ RequestsSound
        BY <1>3 DEF IInv
    <2> QED
        BY <1>4, <1>5, <2>1, BeginStep
<1>7. SessionsTypeOK' /\ RequestsSound'
    BY <1>5, <1>6 DEF IInv, SessionsTypeOK, NextRequest
<1>8. \A g \in Handlers : request'[g].step = "commit" => request'[g] = request[g]
    BY <1>2, <1>3, <1>6 DEF NextRequest
<1>9. ResetInv'
    BY <1>5, <1>8 DEF IInv, ResetInv
<1>10. TokensInv'
    BY <1>5, TokensKept DEF IInv, AccountsKept
<1>11. ASSUME NEW g \in Handlers, request'[g].step \in Holding, request'[g].token # None
       PROVE  /\ refresh[request'[g].token].state # "new"
              /\ request'[g].step = "forgotten" => refresh[request'[g].token].state = "gone"
              /\ \A c \in Browsers : cookie[c] = request'[g].token =>
                     request'[g].step # "granted" /\ request'[g].browser = c
              /\ request'[g].step = "granted" =>
                     \A f \in Handlers :
                         request'[f].step \in Holding /\ request'[f].token = request'[g].token => f = g
    <2>1. CASE g = h
        <3>1. request'[g] = r /\ r.token = t /\ t = cookie[b] /\ t # None
            BY <1>1, <1>3, <1>6, <1>11, <2>1
        <3>2. r.step = "forget" /\ r.browser = b
            BY <1>2, <1>3, <3>1
        <3> QED
            BY <3>1, <3>2 DEF IInv, CookiesInv
    <2>2. CASE g # h
        <3>1. request'[g] = request[g]
            BY <1>6, <2>2 DEF NextRequest
        <3>2. request[g].step = "granted" => request'[h].token # request[g].token
            BY <1>1, <1>3, <1>6, <1>11, <2>2, <3>1 DEF IInv, CookiesInv, Holding
        <3>3. /\ refresh[request[g].token].state # "new"
              /\ request[g].step = "forgotten" => refresh[request[g].token].state = "gone"
              /\ \A c \in Browsers : cookie[c] = request[g].token =>
                     request[g].step # "granted" /\ request[g].browser = c
              /\ request[g].step = "granted" =>
                     \A f \in Handlers :
                         request[f].step \in Holding /\ request[f].token = request[g].token => f = g
            BY <1>11, <3>1 DEF IInv, CookiesInv
        <3>4. \A f \in Handlers : f # h => request'[f] = request[f]
            BY <1>6 DEF NextRequest
        <3> QED
            BY <3>1, <3>2, <3>3, <3>4
    <2> QED
        BY <2>1, <2>2
<1>12. CookiesInv'
    BY <1>5, <1>11 DEF IInv, CookiesInv
<1> QED
    BY <1>7, <1>9, <1>10, <1>12 DEF IInv

LEMMA StartResetStep ==
    ASSUME IInv, NEW h \in Handlers, NEW t \in ResetIds, NEW p \in Passwords, StartReset(h, t, p)
    PROVE  IInv'
<1>1. reset[t].email \in Emails /\ reset[t].state = "live" /\ ~reset[t].used
    BY DEF StartReset, ValidReset, IInv, ResetInv
<1>2. PICK r \in Request : r = [Idle EXCEPT !.step = "commit", !.email = reset[t].email, !.password = p, !.token = t]
    BY <1>1, NewRequestsWithoutBrowser
<1>3. r.step = "commit" /\ r.email \in Emails /\ r.password = p /\ r.token = t
    BY <1>1, <1>2 DEF Idle
<1>4. Sound(r)
    BY <1>3 DEF Sound, Holding
<1>5. Begin(h, r) /\ UNCHANGED <<account, refresh, reset, cookie, spent>>
    BY <1>2 DEF StartReset
<1>6. NextRequest(h, "commit") /\ request'[h] = r /\ request[h].step = "idle" /\ requests' \in 0..MaxRequests
    BY <1>3, <1>4, <1>5, BeginStep DEF IInv
<1>7. SessionsTypeOK' /\ RequestsSound'
    BY <1>5, <1>6 DEF IInv, SessionsTypeOK, NextRequest
<1>8. ResetInv'
    <2>1. \A g \in Handlers : request'[g].step = "commit" => reset[request'[g].token].state = "live"
        BY <1>1, <1>3, <1>6 DEF NextRequest, IInv, ResetInv
    <2> QED
        BY <1>5, <2>1 DEF IInv, ResetInv
<1>9. TokensInv'
    BY <1>5, TokensKept DEF IInv, AccountsKept
<1>10. CookiesInv'
    <2>1. \A g \in Handlers : request'[g].step \in Holding => request'[g] = request[g]
        BY <1>3, <1>6 DEF NextRequest, Holding
    <2> QED
        BY <1>5, <2>1 DEF IInv, CookiesInv
<1> QED
    BY <1>7, <1>8, <1>9, <1>10 DEF IInv

-----------------------------------------------------------------------------
(* Register and login. *)

\* A new account has an id that no row knows.
LEMMA InsertAccountStep ==
    ASSUME IInv, NEW h \in Handlers, InsertAccount(h)
    PROVE  IInv'
<1> PICK r \in Request : r = request[h] /\ Sound(r)
    BY DEF IInv, SessionsTypeOK, RequestsSound
<1>1. r.step = "insert" /\ r.email \in Emails /\ r.password \in Passwords /\ r.browser \in Browsers
    BY DEF InsertAccount, Sound
<1>2. UNCHANGED <<refresh, reset, cookie, spent>>
    BY DEF InsertAccount
<1>3. CASE End(h) /\ account' = account
    <2>1. NextRequest(h, "idle") /\ requests' = requests
        BY <1>3, EndStep DEF IInv
    <2>2. SessionsTypeOK' /\ RequestsSound'
        BY <1>2, <1>3, <2>1 DEF IInv, SessionsTypeOK, NextRequest
    <2>3. RequestsKept
        BY <1>1, <2>1 DEF NextRequest, RequestsKept, Holding
    <2>4. RowsKept /\ JarsKept /\ AccountsKept
        BY <1>2, <1>3 DEF RowsKept, JarsKept, AccountsKept
    <2> QED
        BY <1>2, <2>2, <2>3, <2>4, ResetKept, TokensKept, CookiesKept DEF IInv
<1>4. ASSUME ~account[r.email].there, account[r.email].id < MaxAccounts,
             account' = [account EXCEPT ![r.email] =
                 [there |-> TRUE, active |-> TRUE, password |-> r.password, id |-> account[r.email].id + 1]],
             request' = [request EXCEPT ![h].step = "remember", ![h].id = account[r.email].id + 1],
             requests' = requests
      PROVE  IInv'
    <2>1. account[r.email].id \in 0..MaxAccounts
        BY <1>1 DEF IInv, SessionsTypeOK, Account
    <2>2. PICK n \in 0..MaxAccounts : n = account[r.email].id + 1
        BY <1>4, <2>1, SessionsBoundsAssumption
    <2>3. PICK q \in Request : q = Inserted(r, n) /\ q.step = "remember"
                                /\ q.email = r.email /\ q.browser = r.browser
        BY LaterRequests
    <2>4. request' = [request EXCEPT ![h] = q]
        BY <1>4, <2>2, <2>3 DEF IInv, SessionsTypeOK, Inserted
    <2>5. Sound(q)
        BY <1>1, <2>3 DEF Sound, Holding
    <2>6. /\ request' \in [Handlers -> Request] /\ RequestsSound'
          /\ request'[h] = q /\ \A g \in Handlers : g # h => request'[g] = request[g]
        BY <2>4, <2>5, OneRequest DEF IInv
    <2>7. PICK a \in Account : a = [there |-> TRUE, active |-> TRUE, password |-> r.password, id |-> n]
                                /\ a.there /\ a.id = n
        BY <1>1, NewAccount, Zenon
    <2>8. account' \in [Emails -> Account] /\ account'[r.email] = a
          /\ \A e \in Emails : e # r.email => account'[e] = account[e]
        BY <1>1, <1>4, <2>2, <2>7 DEF IInv, SessionsTypeOK
    <2>9. SessionsTypeOK'
        BY <1>2, <1>4, <2>6, <2>8 DEF IInv, SessionsTypeOK
    <2>10. RequestsKept
        BY <1>1, <2>3, <2>6 DEF RequestsKept, Holding
    <2>11. \A t \in RefreshIds : refresh[t].id \in Nat
        BY DEF IInv, SessionsTypeOK, RefreshToken
    <2>12. TokensInv'
        BY <1>1, <1>2, <1>4, <2>1, <2>2, <2>7, <2>8, <2>11 DEF IInv, TokensInv, UserExists
    <2>13. RowsKept /\ JarsKept
        BY <1>2 DEF RowsKept, JarsKept
    <2> QED
        BY <1>2, <2>6, <2>9, <2>10, <2>12, <2>13, ResetKept, CookiesKept DEF IInv
<1> QED
    BY <1>3, <1>4 DEF InsertAccount

LEMMA CreateRefreshTokenStep ==
    ASSUME IInv, NEW h \in Handlers, CreateRefreshToken(h)
    PROVE  IInv'
<1> PICK r \in Request : r = request[h] /\ Sound(r)
    BY DEF IInv, SessionsTypeOK, RequestsSound
<1>1. r.step = "remember" /\ r.email \in Emails /\ r.browser \in Browsers
    BY DEF CreateRefreshToken, Sound
<1>2. UNCHANGED <<account, reset, cookie, spent>>
    BY DEF CreateRefreshToken
<1>3. CASE End(h) /\ refresh' = refresh
    <2>1. NextRequest(h, "idle") /\ requests' = requests
        BY <1>3, EndStep DEF IInv
    <2>2. SessionsTypeOK' /\ RequestsSound'
        BY <1>2, <1>3, <2>1 DEF IInv, SessionsTypeOK, NextRequest
    <2>3. RequestsKept
        BY <1>1, <2>1 DEF NextRequest, RequestsKept, Holding
    <2>4. RowsKept /\ JarsKept /\ AccountsKept
        BY <1>2, <1>3 DEF RowsKept, JarsKept, AccountsKept
    <2> QED
        BY <1>2, <1>3, <2>2, <2>3, <2>4, ResetKept, TokensKept, CookiesKept DEF IInv
<1>4. ASSUME UserExists(r.email, r.id), requests' = requests, NEW t \in RefreshIds, refresh[t].state = "new",
             refresh' = [refresh EXCEPT ![t] =
                 [state |-> "live", email |-> r.email, id |-> r.id]],
             request' = [request EXCEPT ![h].step = "granted", ![h].token = t]
      PROVE  IInv'
    <2>1. PICK q \in Request : q = Granted(r, t) /\ q.step = "granted" /\ q.token = t
                                /\ q.email = r.email /\ q.browser = r.browser
        BY LaterRequests
    <2>2. request' = [request EXCEPT ![h] = q]
        BY <1>4, <2>1 DEF IInv, SessionsTypeOK, Granted
    <2>3. Sound(q)
        BY <1>1, <2>1 DEF Sound, Holding
    <2>4. /\ request' \in [Handlers -> Request] /\ RequestsSound'
          /\ request'[h] = q /\ \A g \in Handlers : g # h => request'[g] = request[g]
        BY <2>2, <2>3, OneRequest DEF IInv
    <2>5. PICK row \in RefreshToken :
              /\ row = [state |-> "live", email |-> r.email, id |-> r.id]
              /\ row.state = "live" /\ row.email = r.email /\ row.id = r.id
        BY <1>1, NewRefreshToken, Zenon
    <2>6. refresh' \in [RefreshIds -> RefreshToken] /\ refresh'[t] = row
          /\ \A s \in RefreshIds : s # t => refresh'[s] = refresh[s]
        BY <1>4, <2>5 DEF IInv, SessionsTypeOK
    <2>7. SessionsTypeOK'
        BY <1>2, <1>4, <2>4, <2>6 DEF IInv, SessionsTypeOK
    <2>8. TokensInv'
        BY <1>1, <1>2, <1>4, <2>5, <2>6 DEF IInv, TokensInv, UserExists, SessionsTypeOK, Account
    <2>9. ResetInv'
        <3>1. \A g \in Handlers : request'[g].step = "commit" => request'[g] = request[g]
            BY <2>1, <2>4
        <3> QED
            BY <1>2, <3>1 DEF IInv, ResetInv
    <2>10. /\ t # None
           /\ \A b \in Browsers : cookie[b] # t
           /\ \A g \in Handlers : request[g].step \in Holding => request[g].token # t
        BY <1>4, SessionsSetsAssumption DEF IInv, CookiesInv
    <2>11. ASSUME NEW b \in Browsers, cookie[b] # None
           PROVE  /\ refresh'[cookie[b]].state # "new"
                  /\ \A c \in Browsers : cookie[c] = cookie[b] => c = b
        BY <2>6, <2>10, <2>11 DEF IInv, CookiesInv, SessionsTypeOK
    <2>12. ASSUME NEW g \in Handlers, request'[g].step \in Holding, request'[g].token # None
           PROVE  /\ refresh'[request'[g].token].state # "new"
                  /\ request'[g].step = "forgotten" => refresh'[request'[g].token].state = "gone"
                  /\ \A b \in Browsers : cookie[b] = request'[g].token =>
                         request'[g].step # "granted" /\ request'[g].browser = b
                  /\ request'[g].step = "granted" =>
                         \A f \in Handlers :
                             request'[f].step \in Holding /\ request'[f].token = request'[g].token => f = g
        <3>1. CASE g = h
            <4>1. request'[h].step = "granted" /\ request'[h].token = t
                BY <2>1, <2>4
            <4>2. \A f \in Handlers : f # h /\ request'[f].step \in Holding => request'[f].token # t
                BY <2>4, <2>10
            <4> QED
                BY <2>5, <2>6, <2>10, <3>1, <4>1, <4>2
        <3>2. CASE g # h
            <4>1. request'[g] = request[g] /\ request[g].token \in RefreshIds /\ request[g].token # t
                BY <2>4, <2>10, <2>12, <3>2 DEF IInv, RequestsSound, Sound, Holding
            <4>2. refresh'[request[g].token] = refresh[request[g].token]
                BY <2>6, <4>1
            <4>3. \A f \in Handlers : request'[f].token = request[g].token => request'[f] = request[f]
                BY <2>1, <2>4, <4>1
            <4> QED
                BY <2>12, <4>1, <4>2, <4>3 DEF IInv, CookiesInv
        <3> QED
            BY <3>1, <3>2
    <2>13. CookiesInv'
        BY <1>2, <2>11, <2>12 DEF CookiesInv
    <2> QED
        BY <2>4, <2>7, <2>8, <2>9, <2>13 DEF IInv
<1> QED
    BY <1>3, <1>4 DEF CreateRefreshToken

\* The browser now holds the token, and the handler no more.
LEMMA SignedInStep ==
    ASSUME IInv, NEW h \in Handlers, SignedIn(h)
    PROVE  IInv'
<1> PICK r \in Request : r = request[h] /\ Sound(r)
    BY DEF IInv, SessionsTypeOK, RequestsSound
<1>1. r.step = "granted" /\ r.browser \in Browsers /\ r.token \in RefreshIds
    BY DEF SignedIn, Sound, Holding
<1>2. UNCHANGED <<account, refresh, reset, spent>> /\ cookie' = [cookie EXCEPT ![r.browser] = r.token]
    BY DEF SignedIn
<1>4. NextRequest(h, "idle") /\ requests' = requests
    BY EndStep DEF SignedIn, IInv
<1>5. cookie' \in [Browsers -> RefreshIds \cup {None}] /\ cookie'[r.browser] = r.token
      /\ \A b \in Browsers : b # r.browser => cookie'[b] = cookie[b]
    BY <1>1, <1>2 DEF IInv, SessionsTypeOK
<1>6. SessionsTypeOK' /\ RequestsSound'
    BY <1>2, <1>4, <1>5 DEF IInv, SessionsTypeOK, NextRequest
<1>7. RequestsKept
    BY <1>1, <1>4 DEF NextRequest, RequestsKept, Holding
<1>8. ResetInv' /\ TokensInv'
    BY <1>2, <1>7, ResetKept, TokensKept DEF IInv, AccountsKept
<1>9. /\ r.token # None /\ refresh[r.token].state # "new"
      /\ \A b \in Browsers : cookie[b] # r.token
      /\ \A g \in Handlers : g # h /\ request[g].step \in Holding => request[g].token # r.token
    BY <1>1, SessionsSetsAssumption DEF IInv, CookiesInv, Holding
<1>10. \A g \in Handlers : request'[g].step \in Holding => g # h /\ request'[g] = request[g]
    BY <1>4 DEF NextRequest, Holding
<1>11. ASSUME NEW b \in Browsers, cookie'[b] # None
       PROVE  /\ refresh[cookie'[b]].state # "new"
              /\ \A c \in Browsers : cookie'[c] = cookie'[b] => c = b
    BY <1>5, <1>9, <1>11 DEF IInv, CookiesInv
<1>12. ASSUME NEW g \in Handlers, request'[g].step \in Holding, request'[g].token # None
       PROVE  \A b \in Browsers : cookie'[b] = request'[g].token =>
                  request'[g].step # "granted" /\ request'[g].browser = b
    BY <1>5, <1>9, <1>10, <1>12 DEF IInv, CookiesInv
<1>13. CookiesInv'
    BY <1>2, <1>10, <1>11, <1>12 DEF IInv, CookiesInv
<1> QED
    BY <1>6, <1>8, <1>13 DEF IInv
-----------------------------------------------------------------------------
(* Logout. *)

\* The row goes, and the handler remembers which.
LEMMA DeleteRefreshTokenStep ==
    ASSUME IInv, NEW h \in Handlers, DeleteRefreshToken(h)
    PROVE  IInv'
<1> PICK r \in Request : r = request[h] /\ Sound(r)
    BY DEF IInv, SessionsTypeOK, RequestsSound
<1> PICK t \in RefreshIds : t = r.token
    BY DEF DeleteRefreshToken, Sound, Holding
<1>1. r.step = "forget" /\ UNCHANGED <<account, reset, cookie, spent>>
    BY DEF DeleteRefreshToken
<1>2. CASE End(h) /\ refresh' = refresh
    <2>1. NextRequest(h, "idle") /\ requests' = requests
        BY <1>2, EndStep DEF IInv
    <2>2. SessionsTypeOK' /\ RequestsSound'
        BY <1>1, <1>2, <2>1 DEF IInv, SessionsTypeOK, NextRequest
    <2>3. RequestsKept
        BY <1>1, <2>1 DEF NextRequest, RequestsKept, Holding
    <2>4. RowsKept /\ JarsKept /\ AccountsKept
        BY <1>1, <1>2 DEF RowsKept, JarsKept, AccountsKept
    <2> QED
        BY <1>1, <1>2, <2>2, <2>3, <2>4, ResetKept, TokensKept, CookiesKept DEF IInv
<1>3. ASSUME refresh[t].state = "live", refresh' = [refresh EXCEPT ![t].state = "gone"], Continue(h, "forgotten")
      PROVE  IInv'
    <2>1. PICK q \in Request : q = Forgotten(r) /\ q.step = "forgotten" /\ q.token = t /\ q.browser = r.browser
        BY LaterRequests
    <2>2. request' = [request EXCEPT ![h] = q] /\ requests' = requests
        BY <1>3, <2>1 DEF IInv, SessionsTypeOK, Forgotten, Continue
    <2>3. Sound(q)
        BY <1>1, <2>1 DEF Sound, Holding
    <2>4. /\ request' \in [Handlers -> Request] /\ RequestsSound'
          /\ request'[h] = q /\ \A g \in Handlers : g # h => request'[g] = request[g]
        BY <2>2, <2>3, OneRequest DEF IInv
    <2>5. /\ refresh' \in [RefreshIds -> RefreshToken]
          /\ refresh'[t].state = "gone" /\ refresh'[t].email = refresh[t].email /\ refresh'[t].id = refresh[t].id
          /\ \A s \in RefreshIds : s # t => refresh'[s] = refresh[s]
        BY <1>3 DEF IInv, SessionsTypeOK, RefreshToken
    <2>6. SessionsTypeOK'
        BY <1>1, <2>2, <2>4, <2>5 DEF IInv, SessionsTypeOK
    <2>7. TokensInv'
        BY <1>1, <1>3, <2>5 DEF IInv, TokensInv, UserExists
    <2>8. ResetInv'
        <3>1. \A g \in Handlers : request'[g].step = "commit" => request'[g] = request[g]
            BY <2>1, <2>4
        <3> QED
            BY <1>1, <3>1 DEF IInv, ResetInv
    <2>9. RowsKept /\ \A g \in Handlers : request'[g].step \in Holding =>
              /\ request[g].step \in Holding /\ request'[g].token = request[g].token
              /\ request'[g].browser = request[g].browser
              /\ request'[g].step = "granted" <=> request[g].step = "granted"
              /\ request'[g].step = "forgotten" => request[g].step = "forgotten" \/ request[g].token = t
        BY <1>1, <1>3, <2>1, <2>4, <2>5 DEF Holding, RowsKept
    <2>10. ASSUME NEW b \in Browsers, cookie[b] # None
           PROVE  refresh'[cookie[b]].state # "new"
        BY <2>9, <2>10 DEF IInv, CookiesInv, RowsKept, SessionsTypeOK
    <2>11. ASSUME NEW g \in Handlers, request'[g].step \in Holding, request'[g].token # None
           PROVE  /\ refresh'[request'[g].token].state # "new"
                  /\ request'[g].step = "forgotten" => refresh'[request'[g].token].state = "gone"
                  /\ \A b \in Browsers : cookie[b] = request'[g].token =>
                         request'[g].step # "granted" /\ request'[g].browser = b
                  /\ request'[g].step = "granted" =>
                         \A f \in Handlers :
                             request'[f].step \in Holding /\ request'[f].token = request'[g].token => f = g
        <3>1. request[g].step \in Holding /\ request'[g].token = request[g].token /\ request[g].token \in RefreshIds
            BY <2>9, <2>11 DEF IInv, RequestsSound, Sound, Holding
        <3> QED
            BY <2>5, <2>9, <2>11, <3>1 DEF IInv, CookiesInv, RowsKept
    <2>12. CookiesInv'
        BY <1>1, <2>10, <2>11 DEF IInv, CookiesInv
    <2> QED
        BY <2>4, <2>6, <2>7, <2>8, <2>12 DEF IInv
<1> QED
    BY <1>2, <1>3 DEF DeleteRefreshToken

LEMMA SignedOutStep ==
    ASSUME IInv, NEW h \in Handlers, SignedOut(h)
    PROVE  IInv'
<1> PICK r \in Request : r = request[h] /\ Sound(r)
    BY DEF IInv, SessionsTypeOK, RequestsSound
<1>1. UNCHANGED <<account, refresh, reset, spent>> /\ cookie' = [cookie EXCEPT ![r.browser] = None]
    BY DEF SignedOut
<1>2. NextRequest(h, "idle") /\ requests' = requests
    BY EndStep DEF SignedOut, IInv
<1>3. cookie' \in [Browsers -> RefreshIds \cup {None}] /\ JarsKept
    BY <1>1 DEF IInv, SessionsTypeOK, JarsKept
<1>4. SessionsTypeOK' /\ RequestsSound'
    BY <1>1, <1>2, <1>3 DEF IInv, SessionsTypeOK, NextRequest
<1>5. RequestsKept
    BY <1>2 DEF NextRequest, RequestsKept, Holding
<1>6. RowsKept /\ AccountsKept
    BY <1>1 DEF RowsKept, AccountsKept
<1> QED
    BY <1>1, <1>3, <1>4, <1>5, <1>6, ResetKept, TokensKept, CookiesKept DEF IInv

-----------------------------------------------------------------------------
(* Password reset. *)

LEMMA IssueResetTokenStep ==
    ASSUME IInv, NEW h \in Handlers, IssueResetToken(h)
    PROVE  IInv'
<1>1. request[h].step = "issue" /\ UNCHANGED <<account, refresh, cookie, spent>>
    BY DEF IssueResetToken
<1>2. PICK e \in Emails : e = request[h].email
    BY <1>1 DEF IInv, RequestsSound, Sound
<1>3. PICK t \in ResetIds :
          /\ reset[t].state = "new"
          /\ reset' = [reset EXCEPT ![t] = [state |-> "live", expired |-> FALSE, used |-> FALSE, email |-> e]]
    BY <1>2 DEF IssueResetToken
<1>4. NextRequest(h, "idle") /\ requests' = requests
    BY EndStep DEF IssueResetToken, IInv
<1>5. [state |-> "live", expired |-> FALSE, used |-> FALSE, email |-> e] \in ResetToken
    BY DEF ResetToken
<1>6. /\ reset' \in [ResetIds -> ResetToken]
      /\ reset'[t].state = "live" /\ ~reset'[t].used /\ reset'[t].email = e
      /\ \A x \in ResetIds : x # t => reset'[x] = reset[x]
    BY <1>3, <1>5 DEF IInv, SessionsTypeOK
<1>7. SessionsTypeOK' /\ RequestsSound'
    BY <1>1, <1>4, <1>6 DEF IInv, SessionsTypeOK, NextRequest
<1>9. ResetInv'
    <2>1. ASSUME NEW x \in ResetIds
          PROVE  /\ reset'[x].used <=> spent[x] > 0
                 /\ reset'[x].state = "new" => ~reset'[x].used
                 /\ reset'[x].state = "live" => reset'[x].email \in Emails
        BY <1>3, <1>6 DEF IInv, ResetInv
    <2>2. ASSUME NEW g \in Handlers, request'[g].step = "commit"
          PROVE  reset'[request'[g].token].state = "live"
        BY <1>4, <1>6, <2>2 DEF IInv, ResetInv, NextRequest, RequestsSound, Sound
    <2> QED
        BY <1>1, <2>1, <2>2 DEF IInv, ResetInv
<1>10. RequestsKept
    BY <1>1, <1>4 DEF NextRequest, RequestsKept, Holding
<1>11. RowsKept /\ JarsKept /\ AccountsKept
    BY <1>1 DEF RowsKept, JarsKept, AccountsKept
<1> QED
    BY <1>1, <1>7, <1>9, <1>10, <1>11, TokensKept, CookiesKept DEF IInv

LEMMA CommitResetStep ==
    ASSUME IInv, NEW h \in Handlers, CommitReset(h)
    PROVE  IInv'
<1> PICK r \in Request : r = request[h] /\ Sound(r)
    BY DEF IInv, SessionsTypeOK, RequestsSound
<1>1. r.step = "commit" /\ r.email \in Emails /\ r.password \in Passwords
      /\ UNCHANGED <<refresh, cookie>>
    BY DEF CommitReset, Sound
<1> PICK t \in ResetIds : t = r.token
    BY <1>1 DEF Sound
<1>2. NextRequest(h, "idle") /\ requests' = requests
    BY EndStep DEF CommitReset, IInv
<1>3. RequestsKept
    BY <1>1, <1>2 DEF NextRequest, RequestsKept, Holding
<1>4. CASE account' = account /\ reset' = reset /\ spent' = spent
    <2>1. SessionsTypeOK' /\ RequestsSound'
        BY <1>1, <1>2, <1>4 DEF IInv, SessionsTypeOK, NextRequest
    <2>2. RowsKept /\ JarsKept /\ AccountsKept
        BY <1>1, <1>4 DEF RowsKept, JarsKept, AccountsKept
    <2> QED
        BY <1>1, <1>3, <1>4, <2>1, <2>2, ResetKept, TokensKept, CookiesKept DEF IInv
<1>5. ASSUME account' = [account EXCEPT ![r.email].password = r.password],
             reset' = [reset EXCEPT ![t].used = TRUE], spent' = [spent EXCEPT ![t] = @ + 1]
      PROVE  IInv'
    <2>1. account' \in [Emails -> Account] /\ AccountsKept
        BY <1>1, <1>5 DEF IInv, SessionsTypeOK, Account, AccountsKept
    <2>2. /\ reset' \in [ResetIds -> ResetToken]
          /\ reset'[t].used /\ reset'[t].state = reset[t].state /\ reset'[t].email = reset[t].email
          /\ \A x \in ResetIds : x # t => reset'[x] = reset[x]
        <3>1. PICK row \in ResetToken : row = reset[t]
            BY DEF IInv, SessionsTypeOK
        <3>2. PICK new : new = [row EXCEPT !.used = TRUE]
            OBVIOUS
        <3>3. new \in ResetToken /\ new.used /\ new.state = row.state /\ new.email = row.email
            BY <3>2 DEF ResetToken
        <3>4. reset' = [reset EXCEPT ![t] = new]
            BY <1>5, <3>1, <3>2
        <3> QED
            BY <3>1, <3>3, <3>4 DEF IInv, SessionsTypeOK
    <2>3. /\ spent' \in [ResetIds -> Nat] /\ spent[t] \in Nat /\ spent'[t] = spent[t] + 1
          /\ \A x \in ResetIds : x # t => spent'[x] = spent[x]
        BY <1>5 DEF IInv, SessionsTypeOK
    <2>4. SessionsTypeOK' /\ RequestsSound'
        BY <1>1, <1>2, <2>1, <2>2, <2>3 DEF IInv, SessionsTypeOK, NextRequest
    <2>5. reset[t].state = "live"
        BY <1>1 DEF IInv, ResetInv
    <2>10. \A g \in Handlers : request'[g].step = "commit" => request'[g] = request[g]
        BY <1>2 DEF NextRequest
    <2>11. ResetInv'
        <3>1. ASSUME NEW x \in ResetIds
              PROVE  /\ reset'[x].used <=> spent'[x] > 0
                     /\ reset'[x].state = "new" => ~reset'[x].used
                     /\ reset'[x].state = "live" => reset'[x].email \in Emails
            <4>1. CASE x = t
                BY <2>2, <2>3, <2>5, <4>1 DEF IInv, ResetInv
            <4>2. CASE x # t
                BY <2>2, <2>3, <4>2 DEF IInv, ResetInv
            <4> QED
                BY <4>1, <4>2
        <3>3. ASSUME NEW g \in Handlers, request'[g].step = "commit"
              PROVE  reset'[request'[g].token].state = "live"
            BY <2>2, <2>10, <3>3 DEF IInv, ResetInv, RequestsSound, Sound
        <3> QED
            BY <3>1, <3>3 DEF ResetInv
    <2>12. TokensInv'
        BY <1>1, <2>1, TokensKept DEF IInv
    <2>13. RowsKept /\ JarsKept
        BY <1>1 DEF RowsKept, JarsKept
    <2> QED
        BY <1>1, <1>3, <2>4, <2>11, <2>12, <2>13, CookiesKept DEF IInv
<1> QED
    BY <1>4, <1>5 DEF CommitReset

-----------------------------------------------------------------------------
(* The administrator, and time. *)

\* Steps of no request that leave cookies and reset tokens in use as they are.
LEMMA NoRequestStep ==
    ASSUME IInv, request' = request, requests' = requests, cookie' = cookie, spent' = spent, reset' = reset,
           RowsKept, TokensInv', account' \in [Emails -> Account], refresh' \in [RefreshIds -> RefreshToken]
    PROVE  IInv'
<1>1. SessionsTypeOK' /\ RequestsSound'
    BY DEF IInv, SessionsTypeOK, RequestsSound
<1>2. RequestsKept /\ JarsKept
    BY DEF RequestsKept, JarsKept
<1> QED
    BY <1>1, <1>2, ResetKept, CookiesKept DEF IInv

LEMMA UpdateAccountStep ==
    ASSUME IInv, NEW e \in Emails, UpdateAccount(e)
    PROVE  IInv'
<1>1. account' \in [Emails -> Account] /\ AccountsKept
    BY DEF UpdateAccount, IInv, SessionsTypeOK, Account, AccountsKept
<1>2. UNCHANGED <<refresh, reset, cookie, request, spent, requests>>
    BY DEF UpdateAccount
<1>4. RowsKept
    BY <1>2 DEF RowsKept
<1>5. TokensInv'
    BY <1>1, <1>2, TokensKept DEF IInv
<1> QED
    BY <1>1, <1>2, <1>4, <1>5, NoRequestStep DEF IInv, SessionsTypeOK

\* The rows of the user go with it, and only they.
LEMMA DeleteAccountStep ==
    ASSUME IInv, NEW h \in Handlers, DeleteAccount(h)
    PROVE  IInv'
<1> PICK r \in Request : r = request[h] /\ Sound(r)
    BY DEF IInv, SessionsTypeOK, RequestsSound
<1>1. r.step = "delete" /\ r.email \in Emails /\ UNCHANGED <<reset, cookie, spent>>
    BY DEF DeleteAccount, Sound
<1> PICK e \in Emails : e = r.email
    BY <1>1
<1>2. NextRequest(h, "idle") /\ requests' = requests
    BY EndStep DEF DeleteAccount, IInv
<1>3. RequestsKept
    BY <1>1, <1>2 DEF NextRequest, RequestsKept, Holding
<1>4. CASE account' = account /\ refresh' = refresh
    <2>1. SessionsTypeOK' /\ RequestsSound'
        BY <1>1, <1>2, <1>4 DEF IInv, SessionsTypeOK, NextRequest
    <2>2. RowsKept /\ JarsKept /\ AccountsKept
        BY <1>1, <1>4 DEF RowsKept, JarsKept, AccountsKept
    <2> QED
        BY <1>1, <1>3, <1>4, <2>1, <2>2, ResetKept, TokensKept, CookiesKept DEF IInv
<1>5. ASSUME account' = [account EXCEPT ![e].there = FALSE], refresh' = CascadeTokens(e)
      PROVE  IInv'
    <2>1. /\ account' \in [Emails -> Account] /\ ~account'[e].there /\ account'[e].id = account[e].id
          /\ \A d \in Emails : d # e => account'[d] = account[d]
        <3>1. PICK row \in Account : row = account[e]
            BY DEF IInv, SessionsTypeOK
        <3>2. PICK new : new = [row EXCEPT !.there = FALSE]
            OBVIOUS
        <3>3. new \in Account /\ ~new.there /\ new.id = row.id
            BY <3>2 DEF Account
        <3>4. account' = [account EXCEPT ![e] = new]
            BY <1>5, <3>1, <3>2
        <3> QED
            BY <3>1, <3>3, <3>4 DEF IInv, SessionsTypeOK
    <2>2. ASSUME NEW t \in RefreshIds
          PROVE  /\ refresh'[t] \in RefreshToken
                 /\ refresh'[t].state = "new" <=> refresh[t].state = "new"
                 /\ refresh'[t].email = refresh[t].email /\ refresh'[t].id = refresh[t].id
                 /\ refresh'[t].state = "live" => refresh[t].state = "live" /\ refresh[t].email # e
                 /\ refresh[t].email # e \/ refresh[t].state = "gone" => refresh'[t] = refresh[t]
        BY <1>5 DEF CascadeTokens, IInv, SessionsTypeOK, RefreshToken
    <2>3. refresh' \in [RefreshIds -> RefreshToken]
        BY <1>5, <2>2 DEF CascadeTokens
    <2>4. SessionsTypeOK' /\ RequestsSound'
        BY <1>1, <1>2, <2>1, <2>3 DEF IInv, SessionsTypeOK, NextRequest
    <2>5. TokensInv'
        BY <2>1, <2>2 DEF IInv, TokensInv, UserExists
    <2>6. RowsKept /\ JarsKept
        BY <1>1, <2>2 DEF RowsKept, JarsKept, RefreshToken, IInv, SessionsTypeOK
    <2> QED
        BY <1>1, <1>3, <2>4, <2>5, <2>6, ResetKept, CookiesKept DEF IInv
<1> QED
    BY <1>4, <1>5 DEF DeleteAccount

LEMMA ExpireResetTokenStep ==
    ASSUME IInv, NEW t \in ResetIds, ExpireResetToken(t)
    PROVE  IInv'
<1>1. UNCHANGED <<account, refresh, cookie, request, spent, requests>>
    BY DEF ExpireResetToken
<1>2. ASSUME NEW x \in ResetIds
      PROVE  /\ reset'[x] \in ResetToken /\ reset'[x].state = reset[x].state
             /\ reset'[x].used = reset[x].used /\ reset'[x].email = reset[x].email
    BY DEF ExpireResetToken, IInv, SessionsTypeOK, ResetToken
<1>3. reset' \in [ResetIds -> ResetToken]
    BY <1>2 DEF ExpireResetToken, IInv, SessionsTypeOK
<1>4. SessionsTypeOK' /\ RequestsSound' /\ TokensInv'
    BY <1>1, <1>3, TokensKept DEF IInv, SessionsTypeOK, RequestsSound, AccountsKept
<1>5. ResetInv'
    <2>1. \A h \in Handlers : request[h].step = "commit" => request[h].token \in ResetIds
        BY DEF IInv, RequestsSound, Sound
    <2> QED
        BY <1>1, <1>2, <2>1 DEF IInv, ResetInv
<1>6. RowsKept /\ JarsKept /\ RequestsKept
    BY <1>1 DEF RowsKept, JarsKept, RequestsKept
<1> QED
    BY <1>1, <1>4, <1>5, <1>6, CookiesKept DEF IInv

-----------------------------------------------------------------------------
(* The invariant, and what follows from it. *)

LEMMA InitInv == SessionsInit => IInv
<1> SUFFICES ASSUME SessionsInit PROVE IInv
    OBVIOUS
<1>1. 0 \in 0..MaxAccounts /\ 0 \in 0..MaxRequests
    BY SessionsBoundsAssumption
<1>2. SessionsTypeOK
    BY <1>1, IdleType DEF SessionsInit, SessionsTypeOK, Account, RefreshToken, ResetToken
<1>3. RequestsSound
    BY IdleType DEF SessionsInit, RequestsSound
<1>4. ResetInv
    BY IdleType DEF SessionsInit, ResetInv
<1>5. TokensInv
    BY DEF SessionsInit, TokensInv
<1>6. CookiesInv
    BY IdleType DEF SessionsInit, CookiesInv, Holding
<1> QED
    BY <1>2, <1>3, <1>4, <1>5, <1>6 DEF IInv

LEMMA ClientStep ==
    ASSUME IInv, NEW h \in Handlers, Client(h)
    PROVE  IInv'
BY StartRegisterStep, StartLoginStep, StartLogoutStep, StartForgotStep,
   StartDeleteAccountStep, StartResetStep DEF Client

LEMMA ServeStep ==
    ASSUME IInv, NEW h \in Handlers, Serve(h)
    PROVE  IInv'
BY InsertAccountStep, CreateRefreshTokenStep, SignedInStep, DeleteRefreshTokenStep,
   SignedOutStep, IssueResetTokenStep, CommitResetStep, DeleteAccountStep DEF Serve

LEMMA NextInv == IInv /\ [SessionsNext]_sessionVars => IInv'
<1> SUFFICES ASSUME IInv, [SessionsNext]_sessionVars PROVE IInv'
    OBVIOUS
<1>1. CASE SessionsNext
    BY <1>1, ClientStep, ServeStep, FailStep, UpdateAccountStep, ExpireResetTokenStep DEF SessionsNext
<1>2. CASE UNCHANGED sessionVars
    <2>1. RowsKept /\ TokensInv'
        BY <1>2, TokensKept DEF sessionVars, RowsKept, AccountsKept, IInv
    <2> QED
        BY <1>2, <2>1, NoRequestStep DEF sessionVars, IInv, SessionsTypeOK
<1> QED
    BY <1>1, <1>2

-----------------------------------------------------------------------------
(* What a step does to a reset token that is spent, and to a session. *)

\* A step of a handler that does not end in the transaction of resetPassword.
LEMMA NotAReader ==
    ASSUME NEW h \in Handlers, \A g \in Handlers : g # h => request'[g] = request[g],
           request'[h].step # "commit", NEW t \in ResetIds, spent' = spent, spent[t] \in Nat
    PROVE  ReuseWasUnderWay(t)
BY DEF Readers, ReuseWasUnderWay

LEMMA Others ==
    ASSUME SessionsTypeOK, NEW h \in Handlers
    PROVE  /\ \A r : Begin(h, r) => request'[h] = r /\ \A g \in Handlers : g # h => request'[g] = request[g]
           /\ End(h) => request'[h].step = "idle" /\ \A g \in Handlers : g # h => request'[g] = request[g]
           /\ \A step : Continue(h, step) =>
                  request'[h].step = step /\ \A g \in Handlers : g # h => request'[g] = request[g]
<1>1. request \in [Handlers -> Request]
    BY DEF SessionsTypeOK
<1>2. ASSUME NEW step, Continue(h, step)
      PROVE  request'[h].step = step /\ \A g \in Handlers : g # h => request'[g] = request[g]
    BY <1>1, <1>2 DEF Continue, Request
<1> QED
    BY <1>1, <1>2, IdleType DEF Begin, End

LEMMA ReuseClient ==
    ASSUME IInv, NEW h \in Handlers, Client(h), NEW t \in ResetIds, spent[t] > 0
    PROVE  ReuseWasUnderWay(t)
<1>1. SessionsTypeOK /\ spent[t] \in Nat /\ reset[t].used
    BY DEF IInv, SessionsTypeOK, ResetInv
<1>2. ASSUME NEW b \in Browsers, NEW e \in Emails, NEW p \in Passwords,
             StartRegister(h, b, e, p) \/ StartLogin(h, b, e, p)
      PROVE  ReuseWasUnderWay(t)
    <2>1. PICK r : Begin(h, r) /\ r.step # "commit" /\ spent' = spent
        BY <1>2 DEF StartRegister, StartLogin, Idle
    <2> QED
        BY <1>1, <2>1, Others, NotAReader
<1>3. ASSUME NEW b \in Browsers, StartLogout(h, b)
      PROVE  ReuseWasUnderWay(t)
    <2>1. PICK r : Begin(h, r) /\ r.step # "commit" /\ spent' = spent
        BY <1>3 DEF StartLogout, Idle
    <2> QED
        BY <1>1, <2>1, Others, NotAReader
<1>4. ASSUME NEW e \in Emails, StartForgot(h, e) \/ StartDeleteAccount(h, e)
      PROVE  ReuseWasUnderWay(t)
    <2>1. PICK r : Begin(h, r) /\ r.step # "commit" /\ spent' = spent
        BY <1>4 DEF StartForgot, StartDeleteAccount, Idle
    <2> QED
        BY <1>1, <2>1, Others, NotAReader
<1>5. ASSUME NEW x \in ResetIds, NEW p \in Passwords, StartReset(h, x, p)
      PROVE  ReuseWasUnderWay(t)
    <2>1. x # t /\ spent' = spent
        BY <1>1, <1>5 DEF StartReset, ValidReset
    <2>2. PICK r : r = [Idle EXCEPT !.step = "commit", !.email = reset[x].email, !.password = p, !.token = x]
        OBVIOUS
    <2>3. r.token = x /\ Begin(h, r)
        BY <1>5, <2>2 DEF StartReset, Idle
    <2>4. request'[h].token # t /\ \A g \in Handlers : g # h => request'[g] = request[g]
        BY <1>1, <2>1, <2>3, Others
    <2> QED
        BY <1>1, <2>1, <2>4 DEF Readers, ReuseWasUnderWay
<1> QED
    BY <1>2, <1>3, <1>4, <1>5 DEF Client

LEMMA ReuseServe ==
    ASSUME IInv, NEW h \in Handlers, Serve(h) \/ Fail(h), NEW t \in ResetIds, spent[t] > 0
    PROVE  ReuseWasUnderWay(t)
<1>1. SessionsTypeOK /\ spent[t] \in Nat /\ request \in [Handlers -> Request]
    BY DEF IInv, SessionsTypeOK
<1>2. CASE InsertAccount(h)
    <2>1. request'[h].step # "commit" /\ \A g \in Handlers : g # h => request'[g] = request[g]
        BY <1>1, <1>2, Others DEF InsertAccount, Request
    <2> QED
        BY <1>1, <1>2, <2>1, NotAReader DEF InsertAccount
<1>3. CASE CreateRefreshToken(h)
    <2>1. request'[h].step # "commit" /\ \A g \in Handlers : g # h => request'[g] = request[g]
        BY <1>1, <1>3, Others DEF CreateRefreshToken, Request
    <2> QED
        BY <1>1, <1>3, <2>1, NotAReader DEF CreateRefreshToken
<1>4. CASE DeleteRefreshToken(h)
    BY <1>1, <1>4, Others, NotAReader DEF DeleteRefreshToken
<1>5. CASE SignedIn(h) \/ SignedOut(h) \/ IssueResetToken(h) \/ DeleteAccount(h) \/ Fail(h)
    BY <1>1, <1>5, Others, NotAReader DEF SignedIn, SignedOut, IssueResetToken, DeleteAccount, Fail
<1>6. CASE CommitReset(h)
    <2>1. request[h].step = "commit" /\ request'[h].step = "idle"
          /\ \A g \in Handlers : g # h => request'[g] = request[g]
        BY <1>1, <1>6, Others DEF CommitReset
    <2>2. spent'[t] > spent[t] => request[h].token = t
        BY <1>1, <1>6 DEF CommitReset, IInv, SessionsTypeOK
    <2> QED
        BY <2>1, <2>2 DEF Readers, ReuseWasUnderWay
<1> QED
    BY <1>2, <1>3, <1>4, <1>5, <1>6 DEF Serve

LEMMA ReuseStep ==
    ASSUME IInv, [SessionsNext]_sessionVars
    PROVE  [\A t \in ResetIds : spent[t] > 0 => ReuseWasUnderWay(t)]_sessionVars
<1>1. ASSUME NEW t \in ResetIds, spent[t] > 0, SessionsNext
      PROVE  ReuseWasUnderWay(t)
    <2>1. CASE \E e \in Emails : UpdateAccount(e)
        BY <2>1 DEF UpdateAccount, Readers, ReuseWasUnderWay, IInv, SessionsTypeOK
    <2>2. CASE \E x \in ResetIds : ExpireResetToken(x)
        BY <2>2 DEF ExpireResetToken, Readers, ReuseWasUnderWay, IInv, SessionsTypeOK
    <2> QED
        BY <1>1, <2>1, <2>2, ReuseClient, ReuseServe DEF SessionsNext
<1> QED
    BY <1>1

LEMMA SessionServe ==
    ASSUME IInv, NEW h \in Handlers, Serve(h), NEW b \in Browsers, NEW t \in RefreshIds,
           cookie[b] = t, refresh[t].state = "live"
    PROVE  KeepsSession(b, t)
<1>1. t # None /\ cookie \in [Browsers -> RefreshIds \cup {None}] /\ refresh \in [RefreshIds -> RefreshToken]
    BY SessionsSetsAssumption DEF IInv, SessionsTypeOK
<1>2. CASE InsertAccount(h) \/ IssueResetToken(h) \/ CommitReset(h)
    BY <1>1, <1>2 DEF InsertAccount, IssueResetToken, CommitReset, KeepsSession
<1>3. CASE CreateRefreshToken(h)
    BY <1>1, <1>3 DEF CreateRefreshToken, KeepsSession
<1>4. CASE SignedIn(h)
    <2>1. request[h].token # None
        BY <1>4, SessionsSetsAssumption DEF SignedIn, IInv, RequestsSound, Sound
    <2>2. cookie'[b] # None
        BY <1>1, <1>4, <2>1 DEF SignedIn
    <2> QED
        BY <1>4, <2>2 DEF SignedIn, KeepsSession
<1>5. CASE DeleteRefreshToken(h)
    <2>1. cookie'[b] # None /\ request[h].step = "forget"
        BY <1>1, <1>5 DEF DeleteRefreshToken
    <2>2. refresh'[t].state # "live" => request[h].token = t
        BY <1>1, <1>5 DEF DeleteRefreshToken
    <2>3. request[h].token = t => request[h].browser = b
        BY <1>1, <2>1 DEF IInv, CookiesInv, Holding
    <2> QED
        BY <2>1, <2>2, <2>3 DEF KeepsSession
<1>6. CASE SignedOut(h)
    <2>1. request[h].token # t
        BY <1>1, <1>6 DEF SignedOut, IInv, CookiesInv, Holding
    <2>2. cookie'[b] = None => request[h].browser = b
        BY <1>1, <1>6 DEF SignedOut
    <2> QED
        BY <1>6, <2>1, <2>2 DEF SignedOut, KeepsSession
<1>7. CASE DeleteAccount(h)
    <2>1. cookie'[b] # None
        BY <1>1, <1>7 DEF DeleteAccount
    <2>2. ASSUME refresh'[t].state # "live"
          PROVE  ~UserExists(refresh[t].email, refresh[t].id)'
        <3>1. request[h].email = refresh[t].email /\ request[h].email \in Emails
            BY <1>1, <1>7, <2>2 DEF DeleteAccount, CascadeTokens, IInv, RequestsSound, Sound
        <3>2. account' = [account EXCEPT ![request[h].email].there = FALSE]
            BY <1>7, <2>2 DEF DeleteAccount
        <3>3. ~account'[request[h].email].there
            BY <3>1, <3>2 DEF IInv, SessionsTypeOK, Account
        <3>4. refresh'[t].email = refresh[t].email
            BY <1>1, <1>7 DEF DeleteAccount, CascadeTokens, RefreshToken
        <3> QED
            BY <3>1, <3>3, <3>4 DEF UserExists
    <2> QED
        BY <2>1, <2>2 DEF KeepsSession
<1> QED
    BY <1>2, <1>3, <1>4, <1>5, <1>6, <1>7 DEF Serve

LEMMA SessionStep ==
    ASSUME IInv, [SessionsNext]_sessionVars
    PROVE  [\A b \in Browsers : cookie[b] # None /\ refresh[cookie[b]].state = "live"
                                => KeepsSession(b, cookie[b])]_sessionVars
<1>1. ASSUME NEW b \in Browsers, cookie[b] # None, refresh[cookie[b]].state = "live", SessionsNext
      PROVE  KeepsSession(b, cookie[b])
    <2>1. PICK t \in RefreshIds : t = cookie[b]
        BY <1>1 DEF IInv, SessionsTypeOK
    <2>2. CASE refresh' = refresh /\ cookie' = cookie
        BY <1>1, <2>2 DEF KeepsSession
    <2>3. ASSUME NEW h \in Handlers, Client(h) \/ Fail(h)
          PROVE  refresh' = refresh /\ cookie' = cookie
        BY <2>3 DEF Client, StartRegister, StartLogin, StartLogout, StartForgot, StartDeleteAccount, StartReset, Fail
    <2>4. ASSUME NEW h \in Handlers, Serve(h)
          PROVE  KeepsSession(b, cookie[b])
        BY <1>1, <2>1, <2>4, SessionServe
    <2>5. CASE (\E e \in Emails : UpdateAccount(e)) \/ \E x \in ResetIds : ExpireResetToken(x)
        BY <2>2, <2>5 DEF UpdateAccount, ExpireResetToken
    <2> QED
        BY <1>1, <2>2, <2>3, <2>4, <2>5 DEF SessionsNext
<1> QED
    BY <1>1

-----------------------------------------------------------------------------
(* The theorems. *)

LEMMA Inductive == SessionsSpec => []IInv
BY InitInv, NextInv, PTL DEF SessionsSpec

\* The tables, cookies, tokens and requests keep the shape auth.service.ts gives them,
\* whatever the handlers, users and browsers.
THEOREM SessionsTypeCorrect == SessionsSpec => []SessionsTypeOK
<1>1. IInv => SessionsTypeOK
    BY DEF IInv
<1> QED
    BY <1>1, Inductive, PTL

\* A reset token that has changed a password lets in no request any more, and changes one
\* again only at the cost of a request that had found it unused before.
THEOREM ResetReuses == SessionsSpec => ResetReusesWereUnderWay
<1>1. IInv /\ [SessionsNext]_sessionVars => [\A t \in ResetIds : spent[t] > 0 => ReuseWasUnderWay(t)]_sessionVars
    BY ReuseStep
<1> QED
    BY <1>1, Inductive, PTL DEF SessionsSpec, ResetReusesWereUnderWay

\* resetPassword marks a token used in every transaction that changes a password, and in
\* no other, whatever happens to the account meanwhile.
THEOREM ResetAtomic == SessionsSpec => []ResetIsAtomic
<1>1. IInv => ResetIsAtomic
    BY DEF IInv, ResetInv, ResetIsAtomic
<1> QED
    BY <1>1, Inductive, PTL

\* login and register never leave a session behind for a user that deleteUser removed between
\* their statements, nor for the next account of the same address.
THEOREM SessionsBelong == SessionsSpec => []SessionsBelongToUsers
<1>1. IInv => SessionsBelongToUsers
    BY DEF IInv, TokensInv, SessionsBelongToUsers
<1> QED
    BY <1>1, Inductive, PTL

\* A session ends by the logout of its own browser or with its user, and a cookie is cleared
\* before its session has ended only by a logout that was sent without it, wherever requests
\* die and whichever responses are lost.
THEOREM OwnLogout == SessionsSpec => SessionsEndByOwnLogout
<1>1. IInv /\ [SessionsNext]_sessionVars =>
          [\A b \in Browsers : cookie[b] # None /\ refresh[cookie[b]].state = "live"
                               => KeepsSession(b, cookie[b])]_sessionVars
    BY SessionStep
<1> QED
    BY <1>1, Inductive, PTL DEF SessionsSpec, SessionsEndByOwnLogout
=============================================================================
