--------------------------- MODULE ClientSessions ---------------------------
(***************************************************************************)
(* A browser's session with the FastAPI service: the axios client of        *)
(* services/api.ts, the auth store, the login page and the layout of the    *)
(* dashboard, against login, refresh, logout and get_current_user of the    *)
(* service.                                                                 *)
(*                                                                         *)
(* All tabs share localStorage and the cookie; each has a store of its own. *)
(* A session is what a login begins: a row of refresh_tokens, known to the  *)
(* browser by its cookie, under which access tokens are issued.  Answers    *)
(* arrive in any order, and a request may fail on its way.  The browser     *)
(* takes Set-Cookie from the headers of an answer, before and apart from    *)
(* the page, which writes localStorage when it has the body.                *)
(***************************************************************************)
EXTENDS Naturals

CONSTANTS
    Nothing,
    Tabs,
    Calls,              \* slots for requests in flight, taken in order
    Sessions,           \* rows ever inserted into refresh_tokens
    AccessTokens,
    MaxVisits           \* bound: what the users do

ASSUME ClientAssumption ==
    /\ Calls \subseteq Nat /\ Sessions \subseteq Nat /\ AccessTokens \subseteq Nat
    /\ Nothing \notin Tabs \cup Nat
    /\ MaxVisits \in Nat

VARIABLES
    session,    \* table refresh_tokens
    token,      \* the access tokens issued, and the blacklist
    storage,    \* localStorage.accessToken
    cookie,     \* the refreshToken cookie: a session
    tab,        \* per tab: what its auth store lets it show
    call,       \* the requests in flight
    visits      \* history: how often a page was loaded or a button pressed

clientVars == <<session, token, storage, cookie, tab, call, visits>>

-----------------------------------------------------------------------------

\* A session has ended when its row has expired or been revoked, or its user is inactive; an
\* access token when it has expired or is on the blacklist, or its user is inactive.
SessionRow == {"new", "live", "ended"}
AccessToken == [session : Sessions, state : {"valid", "ended"}]

\* `torn` records that the token and the cookie are not of one answer: the request that
\* stored the token was overtaken by the headers of another sign-in or sign-out, or one of
\* these brought its headers and not its body.
Stored == [token : AccessTokens, torn : BOOLEAN]

\* "checking" is a store that is not hydrated; "out" shows no dashboard.
Pages == {"loading", "checking", "out", "in"}

\* `bearer` and `cookie` are what the request was sent with, `got` is the token that its
\* answer, or the answer to its refresh, brings.  "arrived" is an answer to login or logout of
\* which the browser has the headers.  `overtaken` is history: the headers of another sign-in
\* or sign-out came since its own, or since its refresh was sent.
Call == [kind : {"none", "call", "me", "login", "logout"},
         phase : {"sent", "ok", "arrived", "unauthorized", "failed", "refreshing", "refreshed", "refused"},
         tab : Tabs \cup {Nothing}, bearer : AccessTokens \cup {Nothing},
         cookie : Sessions \cup {Nothing}, got : AccessTokens \cup {Nothing}, retried : BOOLEAN, overtaken : BOOLEAN]
NoCall == [kind |-> "none", phase |-> "sent", tab |-> Nothing, bearer |-> Nothing, cookie |-> Nothing,
           got |-> Nothing, retried |-> FALSE, overtaken |-> FALSE]

ClientTypeOK ==
    /\ session \in [Sessions -> SessionRow]
    /\ token \in [AccessTokens -> AccessToken \cup {Nothing}]
    /\ storage \in Stored \cup {Nothing}
    /\ cookie \in Sessions \cup {Nothing}
    /\ tab \in [Tabs -> Pages]
    /\ call \in [Calls -> Call]
    /\ visits \in 0..MaxVisits

ClientInit ==
    /\ session = [s \in Sessions |-> "new"]
    /\ token = [n \in AccessTokens |-> Nothing]
    /\ storage = Nothing
    /\ cookie = Nothing
    /\ tab = [t \in Tabs |-> "out"]
    /\ call = [c \in Calls |-> NoCall]
    /\ visits = 0

Bearer == IF storage = Nothing THEN Nothing ELSE storage.token

\* The request interceptor.  Only logout, besides refresh, looks at the cookie it is sent, and
\* login not at the token.
Sent(kind, t) ==
    [NoCall EXCEPT !.kind = kind, !.tab = t,
                   !.bearer = IF kind = "login" THEN Nothing ELSE Bearer,
                   !.cookie = IF kind = "logout" THEN cookie ELSE Nothing]

Free(c) == call[c] = NoCall /\ \A d \in Calls : d < c => call[d] # NoCall
Settle(c) == call' = [call EXCEPT ![c] = NoCall]
Advance(c, r) == call' = [call EXCEPT ![c] = r]

\* A page has yet to act on the headers that the browser has.
Pending(c) == call[c].phase = "arrived" /\ call[c].tab # Nothing
Tear == storage' = IF storage = Nothing THEN Nothing ELSE [storage EXCEPT !.torn = TRUE]

-----------------------------------------------------------------------------
(* The pages. *)

\* What a tab waited for is dropped when it is loaded anew.
Dropped(t) == [c \in Calls |-> IF call[c].tab = t THEN [call[c] EXCEPT !.tab = Nothing] ELSE call[c]]

Load(t) ==
    /\ tab' = [tab EXCEPT ![t] = "loading"]
    /\ call' = Dropped(t)
    /\ IF \E c \in Calls : Pending(c) /\ call[c].tab = t THEN Tear ELSE UNCHANGED storage
    /\ UNCHANGED <<session, cookie>>

\* hydrateAuth, when the providers are mounted.
HydrateAuth(t, c) ==
    /\ tab[t] = "loading"
    /\ Free(c)
    /\ IF storage = Nothing
       THEN tab' = [tab EXCEPT ![t] = "out"] /\ UNCHANGED call
       ELSE tab' = [tab EXCEPT ![t] = "checking"] /\ Advance(c, Sent("me", t))
    /\ UNCHANGED <<session, storage, cookie>>

Busy(t, kind) == \E c \in Calls : call[c].kind = kind /\ call[c].tab = t

\* The pages of the dashboard call when they are shown, and again every few seconds; the
\* buttons for login and logout are disabled while they are at work.
Send(t, c, kind) ==
    /\ \/ kind = "call" /\ tab[t] = "in"
       \/ kind = "logout" /\ tab[t] = "in" /\ ~Busy(t, kind)
       \/ kind = "login" /\ tab[t] \in {"checking", "out", "in"} /\ ~Busy(t, kind)
    /\ Free(c)
    /\ Advance(c, Sent(kind, t))
    /\ UNCHANGED <<session, storage, cookie, tab>>

-----------------------------------------------------------------------------
(* The service. *)

Held(n) == n = Bearer \/ \E c \in Calls : n \in {call[c].bearer, call[c].got}

\* The model forgets, and reuses, an access token that nobody has any more.
Forgetting(f) == token' = [n \in AccessTokens |-> IF Held(n)' THEN f[n] ELSE Nothing]
Fresh(n) == ~Held(n) /\ \A m \in AccessTokens : m < n => Held(m)

LiveSessions == {s \in Sessions : session[s] = "live"}

\* get_current_user.
Accepts(n) == n # Nothing /\ token[n].state = "valid"

NewToken(s) == [session |-> s, state |-> "valid"]

\* login; its second half, _persist_refresh_token, is not visible before the answer.
ServeLogin(c, s, n) ==
    /\ call[c].kind = "login" /\ call[c].phase = "sent"
    /\ session[s] = "new" /\ \A r \in Sessions : r < s => session[r] # "new"
    /\ Fresh(n)
    /\ session' = [session EXCEPT ![s] = "live"]
    /\ Advance(c, [call[c] EXCEPT !.phase = "ok", !.got = n])
    /\ UNCHANGED <<storage, cookie, tab>>
    /\ Forgetting([token EXCEPT ![n] = NewToken(s)])

\* An unknown address, a wrong password or an inactive user.
RefuseLogin(c) ==
    /\ call[c].kind = "login" /\ call[c].phase = "sent"
    /\ Advance(c, [call[c] EXCEPT !.phase = "unauthorized"])
    /\ UNCHANGED <<session, storage, cookie, tab>>

ServeCall(c) ==
    /\ call[c].kind \in {"call", "me"} /\ call[c].phase = "sent"
    /\ Advance(c, [call[c] EXCEPT !.phase = IF Accepts(call[c].bearer) THEN "ok" ELSE "unauthorized",
                              !.bearer = Nothing])
    /\ UNCHANGED <<session, storage, cookie, tab>>

\* One commit; logout asks for no authentication and works with whatever it is sent.
ServeLogout(c) ==
    /\ call[c].kind = "logout" /\ call[c].phase = "sent"
    /\ session' = [s \in Sessions |-> IF s = call[c].cookie /\ session[s] = "live" THEN "ended" ELSE session[s]]
    /\ Advance(c, [call[c] EXCEPT !.phase = "ok", !.bearer = Nothing, !.cookie = Nothing])
    /\ UNCHANGED <<storage, cookie, tab>>
    /\ LET n == call[c].bearer IN
       Forgetting(IF n = Nothing THEN token ELSE [token EXCEPT ![n].state = "ended"])

\* Refresh does not replace the row.
ServeRefresh(c, n) ==
    LET s == call[c].cookie IN
    /\ call[c].phase = "refreshing"
    /\ Fresh(n)
    /\ \/ /\ s \in LiveSessions
          /\ Advance(c, [call[c] EXCEPT !.phase = "refreshed", !.got = n])
          /\ UNCHANGED <<session, storage, cookie, tab>>
          /\ Forgetting([token EXCEPT ![n] = NewToken(s)])
       \/ /\ s \notin LiveSessions
          /\ Advance(c, [call[c] EXCEPT !.phase = "refused", !.cookie = Nothing])
          /\ UNCHANGED <<session, storage, cookie, tab, token>>

\* The network, a 500 or the rate limit, before or after the service has done its work; or
\* the body of an answer is lost, whose headers have done theirs.
Fail(c) ==
    /\ call[c].kind # "none"
    /\ call[c].phase \in {"sent", "ok", "arrived", "refreshing", "refreshed"}
    /\ Advance(c, [call[c] EXCEPT !.phase = IF @ \in {"refreshing", "refreshed"} THEN "refused" ELSE "failed",
                              !.bearer = Nothing, !.cookie = Nothing, !.got = Nothing])
    /\ IF Pending(c) THEN Tear ELSE UNCHANGED storage
    /\ UNCHANGED <<session, cookie, tab>>

\* Expiry, or the deactivation of the user.
EndToken(n) ==
    /\ Held(n) /\ token[n].state = "valid"
    /\ token' = [token EXCEPT ![n].state = "ended"]
    /\ UNCHANGED <<session, storage, cookie, tab, call>>

\* Expiry, change_password, or the deactivation of the user.
EndSession(s) ==
    /\ s \in LiveSessions
    /\ session' = [session EXCEPT ![s] = "ended"]
    /\ UNCHANGED <<token, storage, cookie, tab, call>>

-----------------------------------------------------------------------------
(* The headers of an answer. *)

Outrun(d) ==
    IF call[d].phase \in {"arrived", "refreshing", "refreshed"} THEN [call[d] EXCEPT !.overtaken = TRUE] ELSE call[d]

\* Set-Cookie of login and logout, also for a page that is there no more.
Headers(c) ==
    /\ call[c].kind \in {"login", "logout"} /\ call[c].phase = "ok"
    /\ cookie' = IF call[c].kind = "login" THEN token[call[c].got].session ELSE Nothing
    /\ call' = [d \in Calls |-> IF d = c THEN [call[c] EXCEPT !.phase = "arrived"] ELSE Outrun(d)]
    /\ IF call[c].tab = Nothing THEN Tear ELSE UNCHANGED storage
    /\ UNCHANGED <<session, tab>>

-----------------------------------------------------------------------------
(* The response interceptor. *)

\* Mutant: _retry is not set.
StartRefreshAgain(c) ==
    /\ call[c].phase = "unauthorized"
    /\ call[c].tab # Nothing
    /\ ~call[c].retried
    /\ Advance(c, [call[c] EXCEPT !.phase = "refreshing", !.cookie = cookie, !.overtaken = FALSE])
    /\ UNCHANGED <<session, storage, cookie, tab>>

StartRefresh(c) ==
    /\ call[c].phase = "unauthorized"
    /\ call[c].tab # Nothing
    /\ ~call[c].retried
    /\ Advance(c, [call[c] EXCEPT !.phase = "refreshing", !.retried = TRUE, !.cookie = cookie,
                              !.overtaken = FALSE])
    /\ UNCHANGED <<session, storage, cookie, tab>>

\* Mutant: response.data.accessToken, without the envelope that the service wraps it in.
RetryUndefined(c) ==
    LET r == call[c] IN
    /\ r.phase = "refreshed"
    /\ r.tab # Nothing
    /\ storage' = [token |-> Nothing, torn |-> r.overtaken]
    /\ Advance(c, [r EXCEPT !.phase = "sent", !.bearer = Nothing, !.got = Nothing, !.cookie = Nothing,
                       !.overtaken = FALSE])
    /\ UNCHANGED <<session, cookie, tab>>

\* The new token is stored whatever has happened since the refresh was sent, and the
\* request goes out again.
Retry(c) ==
    LET r == call[c] IN
    /\ r.phase = "refreshed"
    /\ r.tab # Nothing
    /\ storage' = [token |-> r.got, torn |-> r.overtaken]
    /\ Advance(c, [r EXCEPT !.phase = "sent", !.bearer = r.got, !.got = Nothing, !.cookie = Nothing,
                       !.overtaken = FALSE])
    /\ UNCHANGED <<session, cookie, tab>>

\* window.location.href = '/login'
GiveUp(c) ==
    LET t == call[c].tab IN
    /\ call[c].phase = "refused"
    /\ t # Nothing
    /\ storage' = Nothing
    /\ tab' = [tab EXCEPT ![t] = "loading"]
    /\ call' = [Dropped(t) EXCEPT ![c] = NoCall]
    /\ UNCHANGED <<session, cookie>>

Forget(c) ==
    /\ call[c].kind # "none"
    /\ call[c].tab = Nothing
    /\ Settle(c)
    /\ UNCHANGED <<session, storage, cookie, tab>>

-----------------------------------------------------------------------------
(* What the pages do with an answer. *)

Rejected(c) == call[c].phase = "failed" \/ (call[c].phase = "unauthorized" /\ call[c].retried)
Answered(c, kind) == call[c].kind = kind /\ call[c].tab # Nothing

CallEnds(c) ==
    /\ Answered(c, "call")
    /\ call[c].phase = "ok" \/ Rejected(c)
    /\ Settle(c)
    /\ UNCHANGED <<session, storage, cookie, tab>>

\* The store takes the user from the answer, and leaves localStorage alone.
Hydrated(c) ==
    /\ Answered(c, "me") /\ call[c].phase = "ok"
    /\ tab' = [tab EXCEPT ![call[c].tab] = "in"]
    /\ Settle(c)
    /\ UNCHANGED <<session, storage, cookie>>

HydrationFails(c) ==
    /\ Answered(c, "me") /\ Rejected(c)
    /\ storage' = Nothing
    /\ tab' = [tab EXCEPT ![call[c].tab] = "out"]
    /\ Settle(c)
    /\ UNCHANGED <<session, cookie>>

\* Mutant: setAuth only writes the store.
SetAuthInStore(c) ==
    /\ Answered(c, "login") /\ call[c].phase = "arrived"
    /\ tab' = [tab EXCEPT ![call[c].tab] = "in"]
    /\ Settle(c)
    /\ UNCHANGED <<session, storage, cookie>>

\* The page stores the token whatever cookie the browser has by now.
SetAuth(c) ==
    /\ Answered(c, "login") /\ call[c].phase = "arrived"
    /\ storage' = [token |-> call[c].got, torn |-> call[c].overtaken]
    /\ tab' = [tab EXCEPT ![call[c].tab] = "in"]
    /\ Settle(c)
    /\ UNCHANGED <<session, cookie>>

LoginFails(c) ==
    /\ Answered(c, "login") /\ Rejected(c)
    /\ Settle(c)
    /\ UNCHANGED <<session, storage, cookie, tab>>

\* handleLogout clears the store either way.
ClearAuth(c) ==
    /\ Answered(c, "logout")
    /\ call[c].phase = "arrived" \/ Rejected(c)
    /\ storage' = Nothing
    /\ tab' = [tab EXCEPT ![call[c].tab] = "out"]
    /\ Settle(c)
    /\ UNCHANGED <<session, cookie>>

-----------------------------------------------------------------------------

Serve(c) ==
    /\ \/ \E s \in Sessions, n \in AccessTokens : ServeLogin(c, s, n)
       \/ (RefuseLogin(c) \/ ServeCall(c)) /\ Forgetting(token)
       \/ ServeLogout(c)
       \/ \E n \in AccessTokens : ServeRefresh(c, n)
    /\ UNCHANGED visits

Receive(c) ==
    /\ \/ Headers(c)
       \/ StartRefresh(c) \/ Retry(c) \/ GiveUp(c) \/ Forget(c)
       \/ CallEnds(c) \/ Hydrated(c) \/ HydrationFails(c) \/ SetAuth(c) \/ LoginFails(c) \/ ClearAuth(c)
    /\ Forgetting(token)
    /\ UNCHANGED visits

Browse ==
    /\ visits < MaxVisits
    /\ visits' = visits + 1
    /\ \/ \E t \in Tabs : Load(t)
       \/ \E t \in Tabs, c \in Calls, kind \in {"call", "login", "logout"} : Send(t, c, kind)
    /\ UNCHANGED token

ClientNext ==
    \/ Browse
    \/ \E c \in Calls : Serve(c) \/ Receive(c)
    \/ /\ \/ \E t \in Tabs, c \in Calls : HydrateAuth(t, c) /\ UNCHANGED token
          \/ \E c \in Calls : Fail(c) /\ Forgetting(token)
          \/ \E n \in AccessTokens : EndToken(n)
          \/ \E s \in Sessions : EndSession(s)
       /\ UNCHANGED visits

\* While there are requests in flight, the browser gets an answer or an error to one of them,
\* and its event loop handles it; users and clocks do as they please.
ClientFairness == WF_clientVars(\E c \in Calls : Serve(c) \/ Receive(c))

ClientSpec == ClientInit /\ [][ClientNext]_clientVars /\ ClientFairness

-----------------------------------------------------------------------------
(* Properties. *)

\* The access token that the pages send was issued under the session of the cookie, in every
\* tab, except between the headers of a sign-in or sign-out and what its page makes of them,
\* and afterwards when they have been torn apart: the headers of another sign-in or sign-out
\* came in between, or a body never did, or a refresh was on its way when the headers came.
\* Then the pages send the token of a session that has been logged out, or of a user other
\* than the one shown, until the next token is stored.
StorageFollowsCookie ==
    storage # Nothing =>
        \/ token[storage.token].session = cookie
        \/ storage.torn
        \/ \E c \in Calls : Pending(c) /\ ~call[c].overtaken

\* Nothing hangs: when the users have done what they do, every request ends, because one that
\* is refused is refreshed and repeated at most once, and so does the spinner that waits for
\* hydrateAuth.
ClientSettles == <>[]((\A c \in Calls : call[c] = NoCall) /\ (\A t \in Tabs : tab[t] # "checking"))
=============================================================================
