------------------------- MODULE ClientSessionsProofs -------------------------
(***************************************************************************)
(* Proofs about ClientSessions: types, and that the stored access token     *)
(* belongs to the session of the cookie, for any number of tabs, requests   *)
(* in flight, sessions and access tokens.                                   *)
(***************************************************************************)
EXTENDS ClientSessions, TLAPS

-----------------------------------------------------------------------------
(* The inductive invariant. *)

AccessTable == [AccessTokens -> AccessToken \cup {Nothing}]

\* What a request carries, and what is stored, is in the table f of access tokens.  The token
\* that a refresh brought was issued under the session whose cookie the refresh was sent,
\* which is still the cookie k unless other headers came since; and so is the session of a
\* login whose headers came last.
CallSound(r, f, k) ==
    /\ r.bearer # Nothing => f[r.bearer] \in AccessToken
    /\ r.got # Nothing => f[r.got] \in AccessToken
    /\ r.phase = "refreshed" => r.got # Nothing /\ f[r.got].session = r.cookie
    /\ r.phase \in {"refreshing", "refreshed"} => r.overtaken \/ r.cookie = k
    /\ r.kind = "login" /\ r.phase \in {"ok", "arrived"} => r.got # Nothing
    /\ r.phase \in {"sent", "ok", "unauthorized"} => ~r.overtaken
    /\ r.kind = "login" /\ r.phase = "arrived" => r.overtaken \/ f[r.got].session = k

\* The page of the sign-in or sign-out whose headers came last has yet to act on them.
LatestPending == \E c \in Calls : Pending(c) /\ ~call[c].overtaken
StorageSound(s, k, f, p) ==
    s # Nothing => f[s.token] \in AccessToken /\ (s.torn \/ f[s.token].session = k \/ p)

IInv ==
    /\ ClientTypeOK
    /\ \A c \in Calls : CallSound(call[c], token, cookie)
    /\ StorageSound(storage, cookie, token, LatestPending)

-----------------------------------------------------------------------------
(* Changes of the table of access tokens. *)

\* f keeps what somebody holds, and under the session it was issued for.
Keeps(f) == \A n \in AccessTokens :
    Held(n) /\ token[n] \in AccessToken => f[n] \in AccessToken /\ f[n].session = token[n].session

LEMMA KeptSound ==
    ASSUME IInv, NEW f, Keeps(f)
    PROVE  /\ \A c \in Calls : CallSound(call[c], f, cookie)
           /\ StorageSound(storage, cookie, f, LatestPending)
<1>1. ASSUME NEW c \in Calls PROVE CallSound(call[c], f, cookie)
    <2>1. /\ call[c].bearer # Nothing => call[c].bearer \in AccessTokens /\ Held(call[c].bearer)
          /\ call[c].got # Nothing => call[c].got \in AccessTokens /\ Held(call[c].got)
        BY DEF IInv, ClientTypeOK, Call, Held
    <2> QED
        BY <2>1 DEF IInv, CallSound, Keeps
<1>2. StorageSound(storage, cookie, f, LatestPending)
    <2>1. storage # Nothing => storage.token \in AccessTokens /\ Held(storage.token)
        BY DEF IInv, ClientTypeOK, Stored, Held, Bearer
    <2> QED
        BY <2>1 DEF IInv, StorageSound, Keeps
<1> QED
    BY <1>1, <1>2

LEMMA SameTable ==
    ASSUME IInv
    PROVE  token \in AccessTable /\ Keeps(token)
BY DEF IInv, ClientTypeOK, AccessTable, Keeps

\* A token that nobody held is issued.
LEMMA IssuedTable ==
    ASSUME IInv, NEW n \in AccessTokens, ~Held(n), NEW s \in Sessions
    PROVE  LET f == [token EXCEPT ![n] = NewToken(s)] IN
           f \in AccessTable /\ Keeps(f) /\ f[n] \in AccessToken /\ f[n].session = s
<1>1. NewToken(s) \in AccessToken /\ NewToken(s).session = s
    BY DEF NewToken, AccessToken
<1> QED
    BY <1>1 DEF IInv, ClientTypeOK, AccessTable, Keeps

LEMMA EndedTable ==
    ASSUME IInv, NEW n \in AccessTokens, token[n] \in AccessToken
    PROVE  LET f == [token EXCEPT ![n].state = "ended"] IN f \in AccessTable /\ Keeps(f)
<1>1. PICK r \in AccessToken : r = token[n]
    OBVIOUS
<1>2. [r EXCEPT !.state = "ended"] \in AccessToken /\ [r EXCEPT !.state = "ended"].session = r.session
    BY DEF AccessToken
<1> QED
    BY <1>1, <1>2 DEF IInv, ClientTypeOK, AccessTable, Keeps

\* What nobody holds any more may be forgotten.
LEMMA Forgotten ==
    ASSUME NEW f \in AccessTable, Forgetting(f) \/ token' = f,
           call' \in [Calls -> Call], storage' \in Stored \cup {Nothing},
           \A c \in Calls : CallSound(call'[c], f, cookie'), StorageSound(storage', cookie', f, LatestPending')
    PROVE  /\ token' \in AccessTable
           /\ \A c \in Calls : CallSound(call'[c], token', cookie')
           /\ StorageSound(storage', cookie', token', LatestPending')
<1>1. token' \in AccessTable
    BY DEF Forgetting, AccessTable
<1>2. \A n \in AccessTokens : Held(n)' => token'[n] = f[n]
    BY DEF Forgetting
<1>3. ASSUME NEW c \in Calls PROVE CallSound(call'[c], token', cookie')
    <2>1. \A n \in AccessTokens : n \in {call'[c].bearer, call'[c].got} => token'[n] = f[n]
        BY <1>2 DEF Held
    <2>2. call'[c].bearer \in AccessTokens \cup {Nothing} /\ call'[c].got \in AccessTokens \cup {Nothing}
        BY DEF Call
    <2> QED
        BY <2>1, <2>2 DEF CallSound
<1>4. StorageSound(storage', cookie', token', LatestPending')
    <2>1. storage' # Nothing => \A n \in AccessTokens : n = storage'.token => token'[n] = f[n]
        BY <1>2 DEF Held, Bearer
    <2>2. storage' # Nothing => storage'.token \in AccessTokens
        BY DEF Stored
    <2> QED
        BY <2>1, <2>2 DEF StorageSound
<1> QED
    BY <1>1, <1>3, <1>4
-----------------------------------------------------------------------------
(* What a step has to show. *)

LEMMA Step ==
    ASSUME IInv, NEW f \in AccessTable, Forgetting(f) \/ token' = f,
           session' \in [Sessions -> SessionRow], cookie' \in Sessions \cup {Nothing},
           tab' \in [Tabs -> Pages], visits' \in 0..MaxVisits,
           call' \in [Calls -> Call], storage' \in Stored \cup {Nothing},
           \A c \in Calls : CallSound(call'[c], f, cookie'), StorageSound(storage', cookie', f, LatestPending')
    PROVE  IInv'
<1>1. /\ token' \in AccessTable
      /\ \A c \in Calls : CallSound(call'[c], token', cookie')
      /\ StorageSound(storage', cookie', token', LatestPending')
    BY Forgotten
<1>2. ClientTypeOK'
    BY <1>1 DEF ClientTypeOK, AccessTable
<1> QED
    BY <1>1, <1>2 DEF IInv

\* One request moves on, under the same cookie.
LEMMA CallStep ==
    ASSUME IInv, NEW f \in AccessTable, Keeps(f), Forgetting(f) \/ token' = f,
           NEW c \in Calls, NEW q \in Call, CallSound(q, f, cookie), Advance(c, q), cookie' = cookie,
           session' \in [Sessions -> SessionRow], tab' \in [Tabs -> Pages], visits' \in 0..MaxVisits,
           storage' \in Stored \cup {Nothing}, StorageSound(storage', cookie', f, LatestPending')
    PROVE  IInv'
<1>1. call' \in [Calls -> Call] /\ \A d \in Calls : call'[d] = IF d = c THEN q ELSE call[d]
    BY DEF Advance, IInv, ClientTypeOK
<1>2. \A d \in Calls : CallSound(call'[d], f, cookie')
    BY <1>1, KeptSound
<1>3. cookie' \in Sessions \cup {Nothing}
    BY DEF IInv, ClientTypeOK
<1> QED
    BY <1>1, <1>2, <1>3, Step

\* The storage stays as it is, and the request was none that a page had to act on.
LEMMA StillPending ==
    ASSUME IInv, NEW f, Keeps(f), NEW c \in Calls, ~Pending(c), NEW q, Advance(c, q),
           UNCHANGED <<storage, cookie>>
    PROVE  StorageSound(storage', cookie', f, LatestPending')
<1>1. LatestPending => LatestPending'
    BY DEF LatestPending, Pending, Advance, IInv, ClientTypeOK
<1>2. StorageSound(storage, cookie, f, LatestPending)
    BY KeptSound
<1> QED
    BY <1>1, <1>2 DEF StorageSound

\* One request moves on, and nothing else changes.
LEMMA QuietStep ==
    ASSUME IInv, Forgetting(token) \/ token' = token, NEW c \in Calls, ~Pending(c), NEW q \in Call,
           CallSound(q, token, cookie), Advance(c, q), UNCHANGED <<session, storage, cookie, tab>>,
           visits' \in 0..MaxVisits
    PROVE  IInv'
<1>1. token \in AccessTable /\ Keeps(token)
    BY SameTable
<1>2. StorageSound(storage', cookie', token, LatestPending')
    BY <1>1, StillPending
<1> QED
    BY <1>1, <1>2, CallStep DEF IInv, ClientTypeOK

\* Storage that is torn is sound whatever the cookie and the pages.
LEMMA TornSound ==
    ASSUME IInv, Tear, NEW k, NEW p
    PROVE  storage' \in Stored \cup {Nothing} /\ StorageSound(storage', k, token, p)
<1>1. CASE storage = Nothing
    BY <1>1 DEF Tear, StorageSound
<1>2. CASE storage # Nothing
    <2>1. PICK s \in Stored : s = storage
        BY <1>2 DEF IInv, ClientTypeOK
    <2>2. PICK x : x = [s EXCEPT !.torn = TRUE]
        OBVIOUS
    <2>3. x \in Stored /\ x.token = s.token /\ x.torn
        BY <2>2 DEF Stored
    <2>4. storage' = x
        BY <1>2, <2>1, <2>2 DEF Tear
    <2> QED
        BY <1>2, <2>1, <2>3, <2>4 DEF IInv, StorageSound
<1> QED
    BY <1>1, <1>2

LEMMA NoCallSound == NoCall \in Call /\ (\A f, k : CallSound(NoCall, f, k)) /\ NoCall.phase # "arrived"
BY DEF NoCall, Call, CallSound

LEMMA DroppedCalls ==
    ASSUME IInv, NEW t \in Tabs
    PROVE  Dropped(t) \in [Calls -> Call] /\ \A c \in Calls : CallSound(Dropped(t)[c], token, cookie)
<1>1. ASSUME NEW c \in Calls
      PROVE  Dropped(t)[c] \in Call /\ CallSound(Dropped(t)[c], token, cookie)
    <2>1. PICK r \in Call : r = call[c] /\ CallSound(r, token, cookie)
        BY DEF IInv, ClientTypeOK
    <2>2. [r EXCEPT !.tab = Nothing] \in Call /\ CallSound([r EXCEPT !.tab = Nothing], token, cookie)
        BY <2>1 DEF Call, CallSound
    <2>3. Dropped(t)[c] = IF r.tab = t THEN [r EXCEPT !.tab = Nothing] ELSE r
        BY <2>1 DEF Dropped
    <2> QED
        BY <2>1, <2>2, <2>3
<1> QED
    BY <1>1 DEF Dropped

LEMMA SentCall ==
    ASSUME IInv, NEW t \in Tabs, NEW kind \in {"call", "me", "login", "logout"}
    PROVE  Sent(kind, t) \in Call /\ CallSound(Sent(kind, t), token, cookie)
<1>1. Bearer \in AccessTokens \cup {Nothing} /\ (Bearer # Nothing => token[Bearer] \in AccessToken)
    BY DEF IInv, ClientTypeOK, Stored, Bearer, StorageSound
<1>2. cookie \in Sessions \cup {Nothing}
    BY DEF IInv, ClientTypeOK
<1>3. PICK b \in AccessTokens \cup {Nothing}, k \in Sessions \cup {Nothing} :
        /\ Sent(kind, t) = [NoCall EXCEPT !.kind = kind, !.tab = t, !.bearer = b, !.cookie = k]
        /\ b \in {Nothing, Bearer}
    <2>1. (IF kind = "login" THEN Nothing ELSE Bearer) \in (AccessTokens \cup {Nothing}) \cap {Nothing, Bearer}
        BY <1>1
    <2>2. (IF kind = "logout" THEN cookie ELSE Nothing) \in Sessions \cup {Nothing}
        BY <1>2
    <2> QED
        BY <2>1, <2>2 DEF Sent
<1>4. PICK q \in Call : /\ q = Sent(kind, t)
                       /\ q.phase = "sent" /\ q.got = Nothing /\ ~q.overtaken /\ q.bearer \in {Nothing, Bearer}
    <2>1. [NoCall EXCEPT !.kind = kind, !.tab = t, !.bearer = b, !.cookie = k] \in Call
        BY DEF NoCall, Call
    <2> QED
        BY <1>3, <2>1 DEF NoCall
<1>5. CallSound(q, token, cookie)
    BY <1>1, <1>4 DEF CallSound
<1> QED
    BY <1>4, <1>5

LEMMA FreeCall == \A c \in Calls : Free(c) => ~Pending(c)
BY NoCallSound DEF Free, Pending

-----------------------------------------------------------------------------
(* The pages. *)

LEMMA LoadStep ==
    ASSUME IInv, NEW t \in Tabs, Load(t), token' = token, visits' \in 0..MaxVisits
    PROVE  IInv'
<1>1. token \in AccessTable
    BY SameTable
<1>2. tab' \in [Tabs -> Pages]
    BY DEF Load, IInv, ClientTypeOK, Pages
<1>3. storage' \in Stored \cup {Nothing} /\ StorageSound(storage', cookie', token, LatestPending')
    <2>1. CASE Tear
        BY <2>1, TornSound
    <2>2. CASE UNCHANGED storage /\ \A c \in Calls : Pending(c) => call[c].tab # t
        <3>1. call' = Dropped(t) /\ cookie' = cookie
            BY DEF Load
        <3>2. LatestPending => LatestPending'
            BY <2>2, <3>1 DEF LatestPending, Pending, Dropped
        <3> QED
            BY <2>2, <3>1, <3>2 DEF IInv, StorageSound, ClientTypeOK
    <2> QED
        BY <2>1, <2>2 DEF Load
<1> QED
    BY <1>1, <1>2, <1>3, DroppedCalls, Step DEF Load, IInv, ClientTypeOK

LEMMA HydrateAuthStep ==
    ASSUME IInv, NEW t \in Tabs, NEW c \in Calls, HydrateAuth(t, c), token' = token, visits' \in 0..MaxVisits
    PROVE  IInv'
<1>1. token \in AccessTable /\ Keeps(token)
    BY SameTable
<1>2. tab' \in [Tabs -> Pages]
    BY DEF HydrateAuth, IInv, ClientTypeOK, Pages
<1>3. CASE call' = call
    <2>1. StorageSound(storage', cookie', token, LatestPending')
        BY <1>3 DEF HydrateAuth, IInv, LatestPending, Pending
    <2> QED
        BY <1>1, <1>2, <1>3, <2>1, Step DEF HydrateAuth, IInv, ClientTypeOK
<1>4. CASE Advance(c, Sent("me", t))
    <2>1. StorageSound(storage', cookie', token, LatestPending')
        BY <1>1, <1>4, FreeCall, StillPending DEF HydrateAuth
    <2> QED
        BY <1>1, <1>2, <1>4, <2>1, SentCall, CallStep DEF HydrateAuth, IInv, ClientTypeOK
<1> QED
    BY <1>3, <1>4 DEF HydrateAuth

LEMMA SendStep ==
    ASSUME IInv, NEW t \in Tabs, NEW c \in Calls, NEW kind \in {"call", "login", "logout"}, Send(t, c, kind),
           token' = token, visits' \in 0..MaxVisits
    PROVE  IInv'
<1>1. Sent(kind, t) \in Call /\ CallSound(Sent(kind, t), token, cookie)
    BY SentCall
<1> QED
    BY <1>1, FreeCall, QuietStep DEF Send

-----------------------------------------------------------------------------
(* The service. *)

LEMMA ServeLoginStep ==
    ASSUME IInv, NEW c \in Calls, NEW s \in Sessions, NEW n \in AccessTokens, ServeLogin(c, s, n), visits' = visits
    PROVE  IInv'
<1>1. PICK f : f = [token EXCEPT ![n] = NewToken(s)]
    OBVIOUS
<1>2. f \in AccessTable /\ Keeps(f) /\ f[n] \in AccessToken
    BY <1>1, IssuedTable DEF ServeLogin, Fresh
<1>3. PICK r \in Call : r = call[c] /\ CallSound(r, f, cookie)
    BY <1>2, KeptSound DEF IInv, ClientTypeOK
<1>4. PICK q : q = [r EXCEPT !.phase = "ok", !.got = n]
    OBVIOUS
<1>5. q \in Call /\ CallSound(q, f, cookie)
    <2>1. n # Nothing
        BY ClientAssumption
    <2>2. q \in Call
        BY <1>3, <1>4 DEF Call
    <2>3. q.phase = "ok" /\ q.got = n /\ q.bearer = r.bearer /\ q.overtaken = r.overtaken /\ r.phase = "sent"
        BY <1>3, <1>4 DEF ServeLogin, Call
    <2> QED
        BY <1>2, <1>3, <2>1, <2>2, <2>3 DEF CallSound
<1>6. session' \in [Sessions -> SessionRow]
    BY DEF ServeLogin, IInv, ClientTypeOK, SessionRow
<1>7. Advance(c, q) /\ Forgetting(f) /\ UNCHANGED <<storage, cookie, tab>>
    BY <1>1, <1>3, <1>4 DEF ServeLogin
<1>8. StorageSound(storage', cookie', f, LatestPending')
    BY <1>2, <1>7, StillPending DEF ServeLogin, Pending
<1> QED
    BY <1>2, <1>5, <1>6, <1>7, <1>8, CallStep DEF IInv, ClientTypeOK

LEMMA RefuseLoginStep ==
    ASSUME IInv, NEW c \in Calls, RefuseLogin(c), Forgetting(token), visits' = visits
    PROVE  IInv'
<1>1. PICK r \in Call : r = call[c] /\ CallSound(r, token, cookie)
    BY DEF IInv, ClientTypeOK
<1>2. PICK q : q = [r EXCEPT !.phase = "unauthorized"]
    OBVIOUS
<1>3. q \in Call /\ CallSound(q, token, cookie)
    BY <1>1, <1>2 DEF RefuseLogin, Call, CallSound
<1> QED
    BY <1>1, <1>2, <1>3, QuietStep DEF Pending, RefuseLogin, IInv, ClientTypeOK

LEMMA ServeCallStep ==
    ASSUME IInv, NEW c \in Calls, ServeCall(c), Forgetting(token), visits' = visits
    PROVE  IInv'
<1>1. PICK r \in Call : r = call[c] /\ CallSound(r, token, cookie)
    BY DEF IInv, ClientTypeOK
<1>2. PICK q : q = [r EXCEPT !.phase = IF Accepts(r.bearer) THEN "ok" ELSE "unauthorized", !.bearer = Nothing]
    OBVIOUS
<1>3. q \in Call /\ CallSound(q, token, cookie)
    BY <1>1, <1>2 DEF ServeCall, Call, CallSound
<1> QED
    BY <1>1, <1>2, <1>3, QuietStep DEF Pending, ServeCall, IInv, ClientTypeOK

LEMMA ServeLogoutStep ==
    ASSUME IInv, NEW c \in Calls, ServeLogout(c), visits' = visits
    PROVE  IInv'
<1>1. PICK r \in Call : r = call[c] /\ CallSound(r, token, cookie)
    BY DEF IInv, ClientTypeOK
<1>2. PICK f : f = IF r.bearer = Nothing THEN token ELSE [token EXCEPT ![r.bearer].state = "ended"]
    OBVIOUS
<1>3. f \in AccessTable /\ Keeps(f)
    <2>1. r.bearer # Nothing => r.bearer \in AccessTokens /\ token[r.bearer] \in AccessToken
        BY <1>1 DEF Call, CallSound
    <2> QED
        BY <1>2, <2>1, SameTable, EndedTable
<1>4. CallSound(r, f, cookie)
    BY <1>1, <1>3, KeptSound
<1>5. PICK q : q = [r EXCEPT !.phase = "ok", !.bearer = Nothing, !.cookie = Nothing]
    OBVIOUS
<1>6. q \in Call /\ CallSound(q, f, cookie)
    BY <1>1, <1>4, <1>5 DEF ServeLogout, Call, CallSound
<1>7. session' \in [Sessions -> SessionRow]
    BY DEF ServeLogout, IInv, ClientTypeOK, SessionRow
<1>8. Advance(c, q) /\ Forgetting(f) /\ UNCHANGED <<storage, cookie, tab>>
    BY <1>1, <1>2, <1>5 DEF ServeLogout
<1>9. StorageSound(storage', cookie', f, LatestPending')
    BY <1>3, <1>8, StillPending DEF ServeLogout, Pending
<1> QED
    BY <1>3, <1>6, <1>7, <1>8, <1>9, CallStep DEF IInv, ClientTypeOK

LEMMA ServeRefreshStep ==
    ASSUME IInv, NEW c \in Calls, NEW n \in AccessTokens, ServeRefresh(c, n), visits' = visits
    PROVE  IInv'
<1>1. PICK r \in Call : r = call[c] /\ CallSound(r, token, cookie)
    BY DEF IInv, ClientTypeOK
<1>2. ASSUME r.cookie \in LiveSessions, Advance(c, [r EXCEPT !.phase = "refreshed", !.got = n]),
             UNCHANGED <<session, storage, cookie, tab>>, Forgetting([token EXCEPT ![n] = NewToken(r.cookie)])
      PROVE  IInv'
    <2>1. PICK s \in Sessions : s = r.cookie
        BY <1>2 DEF LiveSessions
    <2>2. PICK f : f = [token EXCEPT ![n] = NewToken(s)]
        OBVIOUS
    <2>3. f \in AccessTable /\ Keeps(f) /\ f[n] \in AccessToken /\ f[n].session = s
        BY <2>2, IssuedTable DEF ServeRefresh, Fresh
    <2>4. CallSound(r, f, cookie)
        BY <1>1, <2>3, KeptSound
    <2>5. PICK q : q = [r EXCEPT !.phase = "refreshed", !.got = n]
        OBVIOUS
    <2>6. q \in Call /\ CallSound(q, f, cookie)
        <3>1. n # Nothing
            BY ClientAssumption
        <3> QED
            BY <1>1, <2>1, <2>3, <2>4, <2>5, <3>1 DEF ServeRefresh, Call, CallSound
    <2>7. StorageSound(storage', cookie', f, LatestPending')
        BY <1>2, <2>3, StillPending DEF ServeRefresh, Pending
    <2> QED
        BY <1>2, <2>1, <2>2, <2>3, <2>5, <2>6, <2>7, CallStep DEF IInv, ClientTypeOK
<1>3. ASSUME Advance(c, [r EXCEPT !.phase = "refused", !.cookie = Nothing]),
             UNCHANGED <<session, storage, cookie, tab, token>>
      PROVE  IInv'
    <2>1. PICK q : q = [r EXCEPT !.phase = "refused", !.cookie = Nothing]
        OBVIOUS
    <2>2. q \in Call /\ CallSound(q, token, cookie)
        BY <1>1, <2>1 DEF Call, CallSound
    <2> QED
        BY <1>3, <2>1, <2>2, QuietStep DEF ServeRefresh, Pending, IInv, ClientTypeOK
<1> QED
    BY <1>1, <1>2, <1>3 DEF ServeRefresh

LEMMA FailStep ==
    ASSUME IInv, NEW c \in Calls, Fail(c), Forgetting(token), visits' = visits
    PROVE  IInv'
<1>1. PICK r \in Call : r = call[c] /\ CallSound(r, token, cookie)
    BY DEF IInv, ClientTypeOK
<1>2. PICK phase \in {"failed", "refused"} :
          phase = IF r.phase \in {"refreshing", "refreshed"} THEN "refused" ELSE "failed"
    OBVIOUS
<1>3. PICK q : q = [r EXCEPT !.phase = phase, !.bearer = Nothing, !.cookie = Nothing, !.got = Nothing]
    OBVIOUS
<1>4. q \in Call /\ CallSound(q, token, cookie)
    <2>1. q \in Call /\ q.phase = phase /\ q.bearer = Nothing /\ q.got = Nothing
        BY <1>2, <1>3 DEF Call
    <2> QED
        BY <1>2, <2>1 DEF CallSound
<1>5. Advance(c, q) /\ UNCHANGED <<session, cookie, tab>>
    BY <1>1, <1>2, <1>3 DEF Fail
<1>6. token \in AccessTable /\ Keeps(token)
    BY SameTable
<1>7. storage' \in Stored \cup {Nothing} /\ StorageSound(storage', cookie', token, LatestPending')
    <2>1. CASE Pending(c)
        BY <2>1, TornSound DEF Fail
    <2>2. CASE ~Pending(c)
        BY <1>5, <1>6, <2>2, StillPending DEF Fail, IInv, ClientTypeOK
    <2> QED
        BY <2>1, <2>2
<1> QED
    BY <1>4, <1>5, <1>6, <1>7, CallStep DEF IInv, ClientTypeOK

LEMMA EndTokenStep ==
    ASSUME IInv, NEW n \in AccessTokens, EndToken(n), visits' = visits
    PROVE  IInv'
<1>1. token[n] \in AccessToken
    <2>1. \A c \in Calls : n \in {call[c].bearer, call[c].got} => token[n] \in AccessToken
        BY ClientAssumption DEF IInv, CallSound
    <2>2. n = Bearer => token[n] \in AccessToken
        BY ClientAssumption DEF IInv, StorageSound, Bearer
    <2> QED
        BY <2>1, <2>2 DEF EndToken, Held
<1>2. PICK f : f = [token EXCEPT ![n].state = "ended"]
    OBVIOUS
<1>3. f \in AccessTable /\ Keeps(f)
    BY <1>1, <1>2, EndedTable
<1>4. (\A c \in Calls : CallSound(call[c], f, cookie)) /\ StorageSound(storage, cookie, f, LatestPending)
    BY <1>3, KeptSound
<1>5. token' = f /\ UNCHANGED <<session, storage, cookie, tab, call>>
    BY <1>2 DEF EndToken
<1>6. LatestPending' <=> LatestPending
    BY <1>5 DEF LatestPending, Pending
<1> QED
    BY <1>3, <1>4, <1>5, <1>6, Step DEF IInv, ClientTypeOK

LEMMA EndSessionStep ==
    ASSUME IInv, NEW s \in Sessions, EndSession(s), visits' = visits
    PROVE  IInv'
<1>1. session' \in [Sessions -> SessionRow]
    BY DEF EndSession, IInv, ClientTypeOK, SessionRow
<1>2. token \in AccessTable
    BY SameTable
<1>3. LatestPending' <=> LatestPending
    BY DEF EndSession, LatestPending, Pending
<1> QED
    BY <1>1, <1>2, <1>3, Step DEF EndSession, IInv, ClientTypeOK

-----------------------------------------------------------------------------
(* The headers of an answer. *)

\* The cookie changes under every other request that has to do with it; and the page of this
\* one, if there is one, has yet to act.
LEMMA HeadersStep ==
    ASSUME IInv, NEW c \in Calls, Headers(c), Forgetting(token), visits' = visits
    PROVE  IInv'
<1>1. PICK r \in Call : r = call[c] /\ CallSound(r, token, cookie)
    BY DEF IInv, ClientTypeOK
<1>2. r.phase = "ok" /\ r.kind \in {"login", "logout"} /\ UNCHANGED <<session, tab>>
    BY <1>1 DEF Headers
<1>3. PICK q : q = [r EXCEPT !.phase = "arrived"]
    OBVIOUS
<1>4. q \in Call /\ q.phase = "arrived" /\ q.kind = r.kind /\ q.got = r.got /\ q.bearer = r.bearer
      /\ q.tab = r.tab /\ q.overtaken = r.overtaken
    BY <1>1, <1>3 DEF Call
<1>5. r.kind = "login" => r.got \in AccessTokens /\ token[r.got] \in AccessToken
                          /\ cookie' = token[r.got].session
    BY <1>1, <1>2 DEF Headers, Call, CallSound
<1>6. cookie' \in Sessions \cup {Nothing}
    BY <1>1, <1>2, <1>5 DEF Headers, AccessToken
<1>7. CallSound(q, token, cookie')
    BY <1>1, <1>2, <1>4, <1>5 DEF CallSound
<1>8. ASSUME NEW d \in Calls
      PROVE  /\ call'[d] = IF d = c THEN q ELSE Outrun(d)
             /\ Outrun(d) \in Call /\ CallSound(Outrun(d), token, cookie')
    <2>1. PICK x \in Call : x = call[d] /\ CallSound(x, token, cookie)
        BY DEF IInv, ClientTypeOK
    <2>2. PICK y : y = [x EXCEPT !.overtaken = TRUE]
        OBVIOUS
    <2>3. y \in Call /\ y.overtaken /\ y.phase = x.phase /\ y.kind = x.kind /\ y.got = x.got
          /\ y.bearer = x.bearer /\ y.cookie = x.cookie
        BY <2>1, <2>2 DEF Call
    <2>4. Outrun(d) = IF x.phase \in {"arrived", "refreshing", "refreshed"} THEN y ELSE x
        BY <2>1, <2>2 DEF Outrun
    <2>5. x.phase \in {"arrived", "refreshing", "refreshed"} => CallSound(y, token, cookie')
        BY <2>1, <2>3 DEF CallSound
    <2>6. x.phase \notin {"arrived", "refreshing", "refreshed"} => CallSound(x, token, cookie')
        BY <2>1 DEF CallSound
    <2> QED
        BY <1>1, <1>3, <2>1, <2>3, <2>4, <2>5, <2>6 DEF Headers
<1>9. call' \in [Calls -> Call] /\ \A d \in Calls : CallSound(call'[d], token, cookie')
    <2>1. \A d \in Calls : call'[d] \in Call
        BY <1>4, <1>8
    <2> QED
        BY <1>7, <1>8, <2>1 DEF Headers
<1>10. storage' \in Stored \cup {Nothing} /\ StorageSound(storage', cookie', token, LatestPending')
    <2>1. CASE r.tab = Nothing
        BY <1>1, <2>1, TornSound DEF Headers
    <2>2. CASE r.tab # Nothing
        <3>1. storage' = storage
            BY <1>1, <2>2 DEF Headers
        <3>2. call'[c] = q /\ ~q.overtaken
            BY <1>1, <1>2, <1>4, <1>8 DEF CallSound
        <3>3. LatestPending'
            BY <1>4, <2>2, <3>2 DEF LatestPending, Pending
        <3> QED
            BY <3>1, <3>3 DEF IInv, ClientTypeOK, StorageSound
    <2> QED
        BY <2>1, <2>2
<1>11. token \in AccessTable
    BY SameTable
<1> QED
    BY <1>2, <1>6, <1>9, <1>10, <1>11, Step DEF IInv, ClientTypeOK

-----------------------------------------------------------------------------
(* The response interceptor. *)

LEMMA StartRefreshStep ==
    ASSUME IInv, NEW c \in Calls, StartRefresh(c), Forgetting(token), visits' = visits
    PROVE  IInv'
<1>1. PICK r \in Call : r = call[c] /\ CallSound(r, token, cookie)
    BY DEF IInv, ClientTypeOK
<1>2. PICK q : q = [r EXCEPT !.phase = "refreshing", !.retried = TRUE, !.cookie = cookie, !.overtaken = FALSE]
    OBVIOUS
<1>3. q \in Call /\ CallSound(q, token, cookie)
    BY <1>1, <1>2 DEF IInv, ClientTypeOK, Call, CallSound
<1> QED
    BY <1>1, <1>2, <1>3, QuietStep DEF StartRefresh, Pending, IInv, ClientTypeOK

\* The token is stored under another session's cookie only when headers have come since the
\* refresh was sent.
LEMMA RetryStep ==
    ASSUME IInv, NEW c \in Calls, Retry(c), Forgetting(token), visits' = visits
    PROVE  IInv'
<1>1. PICK r \in Call : r = call[c] /\ CallSound(r, token, cookie)
    BY DEF IInv, ClientTypeOK
<1>2. r.phase = "refreshed" /\ UNCHANGED <<session, cookie, tab>>
    BY <1>1 DEF Retry
<1>3. r.got \in AccessTokens /\ token[r.got] \in AccessToken /\ token[r.got].session = r.cookie
    BY <1>1, <1>2 DEF Call, CallSound
<1>4. PICK s : s = [token |-> r.got, torn |-> r.overtaken]
    OBVIOUS
<1>5. s \in Stored /\ s.token = r.got /\ (s.torn \/ r.cookie = cookie)
    BY <1>1, <1>2, <1>3, <1>4 DEF Stored, Call, CallSound
<1>6. StorageSound(s, cookie, token, LatestPending')
    BY <1>3, <1>5 DEF StorageSound
<1>7. PICK q : q = [r EXCEPT !.phase = "sent", !.bearer = r.got, !.got = Nothing, !.cookie = Nothing,
                             !.overtaken = FALSE]
    OBVIOUS
<1>8. q \in Call /\ CallSound(q, token, cookie)
    BY <1>1, <1>3, <1>7 DEF Call, CallSound
<1>9. Advance(c, q) /\ storage' = s
    BY <1>1, <1>4, <1>7 DEF Retry
<1>10. token \in AccessTable /\ Keeps(token)
    BY SameTable
<1> QED
    BY <1>2, <1>5, <1>6, <1>8, <1>9, <1>10, CallStep DEF IInv, ClientTypeOK

LEMMA GiveUpStep ==
    ASSUME IInv, NEW c \in Calls, GiveUp(c), Forgetting(token), visits' = visits
    PROVE  IInv'
<1>1. PICK t \in Tabs : t = call[c].tab
    BY DEF GiveUp, IInv, ClientTypeOK, Call
<1>2. call' = [Dropped(t) EXCEPT ![c] = NoCall] /\ storage' = Nothing /\ UNCHANGED <<session, cookie>>
    BY <1>1 DEF GiveUp
<1>3. call' \in [Calls -> Call] /\ \A d \in Calls : CallSound(call'[d], token, cookie')
    BY <1>2, DroppedCalls, NoCallSound
<1>4. tab' \in [Tabs -> Pages]
    BY DEF GiveUp, IInv, ClientTypeOK, Pages
<1>5. token \in AccessTable /\ StorageSound(storage', cookie', token, LatestPending')
    BY <1>2, SameTable DEF StorageSound
<1> QED
    BY <1>2, <1>3, <1>4, <1>5, Step DEF IInv, ClientTypeOK

-----------------------------------------------------------------------------
(* What the pages do with an answer. *)

\* The answer is done with, and at most a tab changes.
LEMMA SettleStep ==
    ASSUME IInv, NEW c \in Calls, Settle(c), Forgetting(token), visits' = visits,
           tab' \in [Tabs -> Pages], UNCHANGED <<session, cookie>>,
           storage' = Nothing \/ (~Pending(c) /\ storage' = storage)
    PROVE  IInv'
<1>1. Advance(c, NoCall)
    BY DEF Settle, Advance
<1>2. token \in AccessTable /\ Keeps(token)
    BY SameTable
<1>3. StorageSound(storage', cookie', token, LatestPending')
    <2>1. CASE storage' = Nothing
        BY <2>1 DEF StorageSound
    <2>2. CASE ~Pending(c) /\ storage' = storage
        BY <1>1, <1>2, <2>2, StillPending
    <2> QED
        BY <2>1, <2>2
<1> QED
    BY <1>1, <1>2, <1>3, NoCallSound, CallStep DEF IInv, ClientTypeOK

LEMMA SetAuthStep ==
    ASSUME IInv, NEW c \in Calls, SetAuth(c), Forgetting(token), visits' = visits
    PROVE  IInv'
<1>1. PICK r \in Call : r = call[c] /\ CallSound(r, token, cookie)
    BY DEF IInv, ClientTypeOK
<1>2. r.got \in AccessTokens /\ token[r.got] \in AccessToken /\ (r.overtaken \/ token[r.got].session = cookie)
    BY <1>1 DEF SetAuth, Answered, Call, CallSound
<1>3. PICK s : s = [token |-> r.got, torn |-> r.overtaken]
    OBVIOUS
<1>4. s \in Stored /\ s.token = r.got /\ s.torn = r.overtaken
    BY <1>1, <1>2, <1>3 DEF Stored, Call
<1>5. storage' = s /\ UNCHANGED <<session, cookie>> /\ Advance(c, NoCall)
    BY <1>1, <1>3 DEF SetAuth, Settle, Advance
<1>6. StorageSound(storage', cookie', token, LatestPending')
    BY <1>2, <1>4, <1>5 DEF StorageSound
<1>7. tab' \in [Tabs -> Pages]
    BY DEF SetAuth, IInv, ClientTypeOK, Pages
<1>8. token \in AccessTable /\ Keeps(token)
    BY SameTable
<1> QED
    BY <1>4, <1>5, <1>6, <1>7, <1>8, NoCallSound, CallStep DEF IInv, ClientTypeOK

LEMMA AnswerStep ==
    ASSUME IInv, NEW c \in Calls, Forgetting(token), visits' = visits,
           Forget(c) \/ CallEnds(c) \/ Hydrated(c) \/ HydrationFails(c) \/ LoginFails(c) \/ ClearAuth(c)
    PROVE  IInv'
<1>1. Settle(c) /\ UNCHANGED <<session, cookie>>
    BY DEF Forget, CallEnds, Hydrated, HydrationFails, LoginFails, ClearAuth
<1>2. tab' \in [Tabs -> Pages]
    BY DEF Forget, CallEnds, Hydrated, HydrationFails, LoginFails, ClearAuth, IInv, ClientTypeOK, Pages
<1>3. storage' = Nothing \/ (~Pending(c) /\ storage' = storage)
    BY DEF Forget, CallEnds, Hydrated, HydrationFails, LoginFails, ClearAuth, Rejected, Pending
<1> QED
    BY <1>1, <1>2, <1>3, SettleStep

-----------------------------------------------------------------------------
(* The invariant, and what follows from it. *)

LEMMA InitInv == ClientInit => IInv
<1> SUFFICES ASSUME ClientInit PROVE IInv
    OBVIOUS
<1>1. ClientTypeOK
    BY NoCallSound, ClientAssumption DEF ClientInit, ClientTypeOK, SessionRow, Pages
<1> QED
    BY <1>1, NoCallSound DEF ClientInit, IInv, StorageSound, CallSound, NoCall

LEMMA NextInv == IInv /\ [ClientNext]_clientVars => IInv'
<1> SUFFICES ASSUME IInv, [ClientNext]_clientVars PROVE IInv'
    OBVIOUS
<1>1. visits \in 0..MaxVisits /\ MaxVisits \in Nat
    BY ClientAssumption DEF IInv, ClientTypeOK
<1>2. CASE Browse
    <2>1. visits' \in 0..MaxVisits /\ token' = token
        BY <1>1, <1>2 DEF Browse
    <2> QED
        BY <1>2, <2>1, LoadStep, SendStep DEF Browse
<1>3. ASSUME NEW c \in Calls, Serve(c) PROVE IInv'
    BY <1>3, ServeLoginStep, RefuseLoginStep, ServeCallStep, ServeLogoutStep, ServeRefreshStep DEF Serve
<1>4. ASSUME NEW c \in Calls, Receive(c) PROVE IInv'
    BY <1>4, HeadersStep, StartRefreshStep, RetryStep, GiveUpStep, SetAuthStep, AnswerStep DEF Receive
<1>5. ASSUME NEW t \in Tabs, NEW c \in Calls, HydrateAuth(t, c), UNCHANGED <<token, visits>> PROVE IInv'
    BY <1>1, <1>5, HydrateAuthStep
<1>6. CASE UNCHANGED clientVars
    <2>1. token \in AccessTable /\ (LatestPending' <=> LatestPending)
        BY <1>6, SameTable DEF clientVars, LatestPending, Pending
    <2>2. UNCHANGED <<session, token, storage, cookie, tab, call, visits>>
        BY <1>6 DEF clientVars
    <2>3. \A c \in Calls : CallSound(call'[c], token', cookie')
        BY <2>2 DEF IInv
    <2>4. StorageSound(storage', cookie', token', LatestPending')
        <3>1. StorageSound(storage, cookie, token, LatestPending)
            BY DEF IInv
        <3> QED
            BY <2>1, <2>2, <3>1 DEF StorageSound
    <2>5. ClientTypeOK'
        BY <2>2 DEF IInv, ClientTypeOK
    <2> QED
        BY <2>1, <2>2, <2>3, <2>4, <2>5 DEF IInv
<1> QED
    BY <1>2, <1>3, <1>4, <1>5, <1>6, FailStep, EndTokenStep, EndSessionStep DEF ClientNext

LEMMA Inductive == ClientSpec => []IInv
BY InitInv, NextInv, PTL DEF ClientSpec

\* What the browser and the service keep is well shaped, however many tabs and requests there
\* are: the interceptor never stores or sends an undefined token.
THEOREM ClientTypeCorrect == ClientSpec => []ClientTypeOK
<1>1. IInv => ClientTypeOK
    BY DEF IInv
<1> QED
    BY <1>1, Inductive, PTL

\* The interceptor, the store and the pages put together the token of one session and the
\* cookie of another only while a page has yet to act on the headers of its answer, or where
\* answers overtook each other or lost their body.
THEOREM TokenFollowsCookie == ClientSpec => []StorageFollowsCookie
<1>1. IInv => StorageFollowsCookie
    BY DEF IInv, StorageSound, LatestPending, StorageFollowsCookie
<1> QED
    BY <1>1, Inductive, PTL
=============================================================================
