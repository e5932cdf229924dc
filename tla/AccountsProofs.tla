--------------------------- MODULE AccountsProofs ---------------------------
(***************************************************************************)
(* Proofs about Accounts: types, tenants, administrators, sessions and keys *)
(* for any number of processes, threads, users and rows.  One inductive     *)
(* invariant, IInv, carries all; one lemma shows that an action keeps it.   *)
(***************************************************************************)
EXTENDS Accounts, TLAPS

-----------------------------------------------------------------------------
(* The inductive invariant. *)

\* What a request has found stays true: its user exists, and one that has read ADMIN acts
\* for a user of the platform's tenant.
Sound(r) ==
    /\ r.op # "idle" => r.actor \in Emails
    /\ r.op \notin {"idle", "register"} => Exists(r.actor)
    /\ r.op = "register" => r.slug \in Slugs
    /\ r.role = "ADMIN" => r.op \notin {"idle", "register"} /\ user[r.actor].tenant = Platform
RequestsSound == \A h \in Requests : Sound(request[h])

TenantsInv == TenantsAreWhole /\ \A e \in Emails : Exists(e) => user[e].tenant \in tenants

\* A live session that no change has overtaken has the current password, and a change under
\* way has it on its list.
Changing(r) == r.op = "change password"
Current(t) ==
    /\ tokens[t].password = user[tokens[t].user].password
    /\ \A h \in Requests : Changing(request[h]) /\ request[h].actor = tokens[t].user => t \in request[h].seen
SessionsInv ==
    /\ \A t \in TokenIds : tokens[t] # Nobody =>
          /\ Exists(tokens[t].user)
          /\ ~tokens[t].revoked /\ ~tokens[t].overtaken => Current(t)
    /\ \A h \in Requests : Changing(request[h]) => \A t \in request[h].seen : tokens[t] # Nobody

\* Between its two commits regenerate_key holds a key that is dead already.
Dead(k) == keys[k] # Nobody /\ ~keys[k].is_active
KeysInv ==
    /\ \A h \in Requests :
          /\ request[h].op = "replace key" => request[h].key \in KeyIds /\ Dead(request[h].key)
          /\ request[h].op # "replace key" => request[h].key = Nobody
    /\ \A k \in KeyIds : keys[k] # Nobody /\ keys[k].replaces # Nobody => Dead(keys[k].replaces)

IInv ==
    /\ AccountsTypeOK
    /\ RequestsSound
    /\ AdminsBelongToThePlatform
    /\ TenantsInv
    /\ SessionsInv
    /\ KeysInv

-----------------------------------------------------------------------------
(* What a change of the table of users keeps. *)

Users == [Emails -> User \cup {Nobody}]

Kept(f) == \A x \in Emails : Exists(x) => f[x] # Nobody /\ f[x].tenant = user[x].tenant
NoneNew(f) == \A x \in Emails : f[x] # Nobody => Exists(x)
RolesKept(f) == \A x \in Emails : Exists(x) => f[x].role = user[x].role
PasswordsKept(f) == \A x \in Emails : Exists(x) => f[x].password = user[x].password

LEMMA UserIsARow == \A u \in User : u # Nobody
BY NobodyAssumption

LEMMA Rows ==
    ASSUME user \in Users
    PROVE  /\ Kept(user) /\ NoneNew(user) /\ RolesKept(user) /\ PasswordsKept(user)
           /\ \A e \in Emails : Exists(e) => user[e] \in User
BY DEF Kept, NoneNew, RolesKept, PasswordsKept, Exists, Users

LEMMA RowUpdate ==
    ASSUME user \in Users, NEW e \in Emails, NEW u \in User
    PROVE  /\ [user EXCEPT ![e] = u] \in Users
           /\ ~Exists(e) => LET f == [user EXCEPT ![e] = u] IN Kept(f) /\ RolesKept(f) /\ PasswordsKept(f)
           /\ Exists(e) /\ u.tenant = user[e].tenant =>
                  LET f == [user EXCEPT ![e] = u] IN
                  /\ Kept(f) /\ NoneNew(f)
                  /\ u.role = user[e].role => RolesKept(f)
                  /\ u.password = user[e].password => PasswordsKept(f)
<1>1. [user EXCEPT ![e] = u] \in Users
    BY DEF Users
<1>2. \A x \in Emails : [user EXCEPT ![e] = u][x] = IF x = e THEN u ELSE user[x]
    BY DEF Users
<1>3. u # Nobody
    BY UserIsARow
<1> QED
    BY <1>1, <1>2, <1>3 DEF Kept, NoneNew, RolesKept, PasswordsKept, Exists

LEMMA UserFields ==
    ASSUME NEW u \in User
    PROVE  /\ \A active \in BOOLEAN :
                  LET v == [u EXCEPT !.is_active = active] IN
                  v \in User /\ v.tenant = u.tenant /\ v.role = u.role /\ v.password = u.password
           /\ \A role \in {"USER", "ADMIN"} :
                  LET v == [u EXCEPT !.role = role] IN
                  v \in User /\ v.tenant = u.tenant /\ v.role = role /\ v.password = u.password
           /\ u.password < MaxPassword =>
                  LET v == [u EXCEPT !.password = u.password + 1] IN
                  v \in User /\ v.tenant = u.tenant /\ v.role = u.role
BY AccountsAssumption DEF User

LEMMA SetActiveRow ==
    ASSUME user \in Users, NEW e \in Emails, Exists(e), NEW active \in BOOLEAN
    PROVE  LET f == [user EXCEPT ![e].is_active = active] IN
           f \in Users /\ Kept(f) /\ NoneNew(f) /\ RolesKept(f) /\ PasswordsKept(f)
<1>1. user[e] \in User
    BY Rows
<1> QED
    BY <1>1, RowUpdate, UserFields

LEMMA SetRoleRow ==
    ASSUME user \in Users, NEW e \in Emails, Exists(e), NEW role \in {"USER", "ADMIN"}
    PROVE  LET f == [user EXCEPT ![e].role = role] IN
           f \in Users /\ Kept(f) /\ NoneNew(f) /\ PasswordsKept(f)
<1>1. user[e] \in User
    BY Rows
<1> QED
    BY <1>1, RowUpdate, UserFields

LEMMA SetPasswordRow ==
    ASSUME user \in Users, NEW e \in Emails, Exists(e), user[e].password < MaxPassword
    PROVE  LET f == [user EXCEPT ![e].password = @ + 1] IN
           f \in Users /\ Kept(f) /\ NoneNew(f) /\ RolesKept(f)
<1>1. user[e] \in User
    BY Rows
<1> QED
    BY <1>1, RowUpdate, UserFields

LEMMA AdminsKept ==
    ASSUME AdminsBelongToThePlatform, Kept(user'), NoneNew(user'), RolesKept(user')
    PROVE  AdminsBelongToThePlatform'
BY DEF AdminsBelongToThePlatform, Kept, NoneNew, RolesKept, Exists

LEMMA TenantsKept ==
    ASSUME TenantsInv, Kept(user'), NoneNew(user'), tenants' = tenants, summaries' = summaries
    PROVE  TenantsInv'
BY DEF TenantsInv, TenantsAreWhole, Kept, NoneNew, Exists

\* A new user brings his tenant, and its usage row, or joins a tenant that has users.
LEMMA TenantsGrow ==
    ASSUME TenantsInv, Kept(user'), user \in Users, NEW e \in Emails, NEW u \in User,
           user' = [user EXCEPT ![e] = u], ~Exists(e), u.tenant \in Slugs,
           tenants' = tenants \cup {u.tenant}, summaries' = summaries \cup {u.tenant}
    PROVE  TenantsInv'
<1>1. \A x \in Emails : user'[x] = IF x = e THEN u ELSE user[x]
    BY DEF Users
<1>2. u # Nobody
    BY UserIsARow
<1>3. \A x \in Emails : Exists(x)' => user'[x].tenant \in tenants'
    BY <1>1, <1>2 DEF TenantsInv, Exists
<1>4. ASSUME NEW s \in Slugs
      PROVE  (\E x \in Emails : Exists(x)' /\ user'[x].tenant = s)
                 <=> s = u.tenant \/ \E x \in Emails : Exists(x) /\ user[x].tenant = s
    BY <1>1, <1>2 DEF Exists
<1>5. TenantsAreWhole'
    <2> SUFFICES ASSUME NEW s \in Slugs
                 PROVE  s \in summaries' <=> s \in tenants' /\ \E x \in Emails : Exists(x)' /\ user'[x].tenant = s
        BY DEF TenantsAreWhole, Exists
    <2>1. s \in summaries <=> s \in tenants /\ \E x \in Emails : Exists(x) /\ user[x].tenant = s
        BY DEF TenantsInv, TenantsAreWhole
    <2>2. (\E x \in Emails : Exists(x) /\ user[x].tenant = s) => s \in tenants
        BY DEF TenantsInv
    <2> HIDE DEF Exists
    <2> QED
        BY <1>4, <2>1, <2>2
<1> QED
    BY <1>3, <1>5 DEF TenantsInv

-----------------------------------------------------------------------------
(* Requests. *)

LEMMA PlatformIsASlug == Platform \in Slugs
<1>1. PlatformName \in Names /\ 1 \in 1..MaxSuffix
    BY AccountsAssumption
<1> QED
    BY <1>1, Zenon DEF Platform, Slugs

LEMMA IdleType == Idle \in Request /\ Idle.op = "idle"
<1>1. "idle" \in AccountOps
    BY DEF AccountOps
<1> QED
    BY <1>1, AccountsAssumption DEF Idle, Request

LEMMA NewRequests ==
    ASSUME NEW e \in Emails
    PROVE  /\ \A s \in Slugs : [Idle EXCEPT !.op = "register", !.actor = e, !.slug = s] \in Request
           /\ [Idle EXCEPT !.op = "login", !.actor = e] \in Request
           /\ \A n \in 0..MaxPassword : [Idle EXCEPT !.op = "login", !.actor = e, !.password = n] \in Request
           /\ \A op \in AccountOps, role \in {"USER", "ADMIN"} :
                  [Idle EXCEPT !.op = op, !.actor = e, !.role = role] \in Request
<1>1. {"register", "login"} \subseteq AccountOps
    BY DEF AccountOps
<1> QED
    BY <1>1, IdleType DEF Request

LEMMA LaterRequests ==
    ASSUME NEW r \in Request
    PROVE  /\ \A seen \in SUBSET TokenIds : [r EXCEPT !.op = "change password", !.seen = seen] \in Request
           /\ \A k \in KeyIds : [r EXCEPT !.op = "replace key", !.key = k] \in Request
<1>1. {"change password", "replace key"} \subseteq AccountOps
    BY DEF AccountOps
<1> QED
    BY <1>1 DEF Request

LEMMA NewUser ==
    ASSUME NEW s \in Slugs, NEW role \in {"USER", "ADMIN"}
    PROVE  [tenant |-> s, password |-> 0, role |-> role, is_active |-> TRUE] \in User
BY AccountsAssumption DEF User

LEMMA StillSound ==
    ASSUME Kept(user'), NEW r, Sound(r)
    PROVE  Sound(r)'
BY DEF Kept, Sound, Exists

LEMMA SoundUpdate ==
    ASSUME request \in [Requests -> Request], RequestsSound, Kept(user'),
           NEW h \in Requests, NEW r \in Request, Sound(r)', request' = [request EXCEPT ![h] = r]
    PROVE  RequestsSound' /\ request' \in [Requests -> Request]
BY StillSound DEF RequestsSound

LEMMA SoundIdle == Sound(Idle)'
BY DEF Sound, Idle

-----------------------------------------------------------------------------
(* Sessions and keys, where a step does not touch them. *)

NoneChanging == \A h \in Requests : Changing(request'[h]) => request'[h] = request[h]
NoneReplacing ==
    \A h \in Requests :
        \/ request'[h] = request[h]
        \/ /\ request'[h].op # "replace key"
           /\ request'[h].key = Nobody \/ (request[h].op # "replace key" /\ request'[h].key = request[h].key)

LEMMA RevokedToken ==
    ASSUME NEW x \in RefreshToken
    PROVE  LET y == [x EXCEPT !.revoked = TRUE] IN y \in RefreshToken /\ y.revoked /\ y.user = x.user
BY DEF RefreshToken

LEMMA SessionsKept ==
    ASSUME AccountsTypeOK, SessionsInv, Kept(user'), PasswordsKept(user'), tokens' = tokens, NoneChanging
    PROVE  SessionsInv'
BY DEF SessionsInv, Current, Kept, PasswordsKept, Exists, NoneChanging, Changing, AccountsTypeOK, RefreshToken

LEMMA KeysKept ==
    ASSUME KeysInv, keys' = keys, NoneReplacing
    PROVE  KeysInv'
BY DEF KeysInv, Dead, NoneReplacing

-----------------------------------------------------------------------------
(* Lifespan. *)

LEMMA LifespanStep ==
    ASSUME IInv, NEW p \in Processes, Lifespan(p)
    PROVE  IInv'
<1> USE DEF IInv
<1>1. user' \in Users /\ Kept(user') /\ NoneNew(user') /\ RolesKept(user') /\ PasswordsKept(user')
    BY Rows DEF AccountsTypeOK, Users, tables, Lifespan
<1>2. RequestsSound' /\ request' \in [Requests -> Request]
    BY <1>1, StillSound DEF RequestsSound, AccountsTypeOK, tables, Lifespan
<1>3. AccountsTypeOK'
    BY <1>1, <1>2, PlatformIsASlug DEF AccountsTypeOK, Users, tables, Lifespan
<1>4. AdminsBelongToThePlatform'
    BY <1>1, AdminsKept
<1>5. TenantsInv'
    BY <1>1, TenantsKept DEF tables, Lifespan
<1>6. SessionsInv'
    <2>1. NoneChanging /\ tokens' = tokens
        BY DEF NoneChanging, Changing, Idle, AccountsTypeOK, tables, Lifespan
    <2> QED
        BY <1>1, <2>1, SessionsKept
<1>7. KeysInv'
    <2>1. NoneReplacing /\ keys' = keys
        BY DEF NoneReplacing, Idle, AccountsTypeOK, tables, Lifespan
    <2> QED
        BY <2>1, KeysKept
<1> QED
    BY <1>2, <1>3, <1>4, <1>5, <1>6, <1>7

-----------------------------------------------------------------------------
(* IssueAdminBootstrap. *)

LEMMA IssueAdminBootstrapStep ==
    ASSUME IInv, NEW p \in Processes, IssueAdminBootstrap(p)
    PROVE  IInv'
<1> USE DEF IInv
<1>1. user' \in Users /\ Kept(user') /\ RolesKept(user') /\ PasswordsKept(user')
    <2>1. CASE Exists(SeedEmail) \/ Platform \in tenants
        BY <2>1, Rows DEF AccountsTypeOK, Users, RolesKept, IssueAdminBootstrap
    <2>2. CASE ~(Exists(SeedEmail) \/ Platform \in tenants)
        <3>1. PICK u \in User : u = [tenant |-> Platform, password |-> 0, role |-> "ADMIN", is_active |-> TRUE]
            BY NewUser, PlatformIsASlug
        <3>2. user' = [user EXCEPT ![SeedEmail] = u] /\ ~Exists(SeedEmail) /\ SeedEmail \in Emails
            BY <2>2, <3>1, AccountsAssumption DEF IssueAdminBootstrap
        <3> QED
            BY <3>1, <3>2, RowUpdate DEF AccountsTypeOK, Users
    <2> QED
        BY <2>1, <2>2
<1>2. RequestsSound' /\ request' \in [Requests -> Request]
    BY <1>1, StillSound DEF RequestsSound, AccountsTypeOK, tables, IssueAdminBootstrap
<1>3. AccountsTypeOK'
    BY <1>1, <1>2, PlatformIsASlug DEF AccountsTypeOK, Users, tables, IssueAdminBootstrap
<1>4. AdminsBelongToThePlatform'
    BY <1>1 DEF AdminsBelongToThePlatform, RequestsSound, Sound, Exists, Users, Kept, RolesKept, NoneNew, AccountsTypeOK, IssueAdminBootstrap
<1>5. TenantsInv'
    <2>1. CASE Exists(SeedEmail) \/ Platform \in tenants
        <3>1. user' = user /\ tenants' = tenants /\ summaries' = summaries
            BY <2>1 DEF IssueAdminBootstrap
        <3>2. NoneNew(user')
            BY <3>1, Rows DEF AccountsTypeOK, Users
        <3> QED
            BY <1>1, <3>1, <3>2, TenantsKept
    <2>2. CASE ~(Exists(SeedEmail) \/ Platform \in tenants)
        <3> DEFINE u == [tenant |-> Platform, password |-> 0, role |-> "ADMIN", is_active |-> TRUE]
        <3>1. u \in User /\ u.tenant = Platform
            BY NewUser, PlatformIsASlug
        <3>2. /\ user' = [user EXCEPT ![SeedEmail] = u]
              /\ tenants' = tenants \cup {Platform} /\ summaries' = summaries \cup {Platform}
            BY <2>2 DEF IssueAdminBootstrap
        <3> HIDE DEF u
        <3> QED
            BY <1>1, <2>2, <3>1, <3>2, TenantsGrow, PlatformIsASlug, AccountsAssumption DEF AccountsTypeOK, Users
    <2> QED
        BY <2>1, <2>2
<1>6. SessionsInv'
    <2>1. NoneChanging /\ tokens' = tokens
        BY DEF NoneChanging, Changing, Idle, AccountsTypeOK, tables, IssueAdminBootstrap
    <2> QED
        BY <1>1, <2>1, SessionsKept
<1>7. KeysInv'
    <2>1. NoneReplacing /\ keys' = keys
        BY DEF NoneReplacing, Idle, AccountsTypeOK, tables, IssueAdminBootstrap
    <2> QED
        BY <2>1, KeysKept
<1> QED
    BY <1>2, <1>3, <1>4, <1>5, <1>6, <1>7

-----------------------------------------------------------------------------
(* Stop. *)

LEMMA StopStep ==
    ASSUME IInv, NEW p \in Processes, Stop(p)
    PROVE  IInv'
<1> USE DEF IInv
<1>1. user' \in Users /\ Kept(user') /\ NoneNew(user') /\ RolesKept(user') /\ PasswordsKept(user')
    BY Rows DEF AccountsTypeOK, Users, tables, Stop
<1>2. RequestsSound' /\ request' \in [Requests -> Request]
    BY <1>1, StillSound DEF RequestsSound, AccountsTypeOK, tables, Stop
<1>3. AccountsTypeOK'
    BY <1>1, <1>2, PlatformIsASlug DEF AccountsTypeOK, Users, tables, Stop
<1>4. AdminsBelongToThePlatform'
    BY <1>1, AdminsKept
<1>5. TenantsInv'
    BY <1>1, TenantsKept DEF tables, Stop
<1>6. SessionsInv'
    <2>1. NoneChanging /\ tokens' = tokens
        BY DEF NoneChanging, Changing, Idle, AccountsTypeOK, tables, Stop
    <2> QED
        BY <1>1, <2>1, SessionsKept
<1>7. KeysInv'
    <2>1. NoneReplacing /\ keys' = keys
        BY DEF NoneReplacing, Idle, AccountsTypeOK, tables, Stop
    <2> QED
        BY <2>1, KeysKept
<1> QED
    BY <1>2, <1>3, <1>4, <1>5, <1>6, <1>7

-----------------------------------------------------------------------------
(* StartRegister. *)

LEMMA StartRegisterStep ==
    ASSUME IInv, NEW h \in Requests, NEW e \in Emails, NEW s \in Slugs, StartRegister(h, e, s)
    PROVE  IInv'
<1> USE DEF IInv
<1>1. user' \in Users /\ Kept(user') /\ NoneNew(user') /\ RolesKept(user') /\ PasswordsKept(user')
    BY Rows DEF AccountsTypeOK, Users, tables, StartRegister, Start
<1>2. RequestsSound' /\ request' \in [Requests -> Request]
    <2>1. PICK r \in Request : r = [Idle EXCEPT !.op = "register", !.actor = e, !.slug = s]
        BY NewRequests
    <2>2. Sound(r)'
        BY <2>1 DEF Sound, Idle
    <2>3. request' = [request EXCEPT ![h] = r]
        BY <2>1 DEF StartRegister, Start
    <2> QED
        BY <1>1, <2>2, <2>3, SoundUpdate DEF AccountsTypeOK
<1>3. AccountsTypeOK'
    BY <1>1, <1>2, PlatformIsASlug DEF AccountsTypeOK, Users, tables, StartRegister, Start
<1>4. AdminsBelongToThePlatform'
    BY <1>1, AdminsKept
<1>5. TenantsInv'
    BY <1>1, TenantsKept DEF tables, StartRegister, Start
<1>6. SessionsInv'
    <2>1. NoneChanging /\ tokens' = tokens
        BY DEF NoneChanging, Changing, Idle, AccountsTypeOK, tables, StartRegister, Start
    <2> QED
        BY <1>1, <2>1, SessionsKept
<1>7. KeysInv'
    <2>1. NoneReplacing /\ keys' = keys
        BY DEF NoneReplacing, Idle, AccountsTypeOK, tables, StartRegister, Start
    <2> QED
        BY <2>1, KeysKept
<1> QED
    BY <1>2, <1>3, <1>4, <1>5, <1>6, <1>7

-----------------------------------------------------------------------------
(* CommitRegister. *)

LEMMA CommitRegisterStep ==
    ASSUME IInv, NEW h \in Requests, CommitRegister(h)
    PROVE  IInv'
<1> USE DEF IInv
<1>1. user' \in Users /\ Kept(user') /\ RolesKept(user') /\ PasswordsKept(user')
    BY RowUpdate, NewUser, PlatformIsASlug, Rows DEF AccountsTypeOK, Users, RequestsSound, Sound, tables, CommitRegister, Proceed
<1>2. RequestsSound' /\ request' \in [Requests -> Request]
    <2>1. PICK r \in Request : r = [Idle EXCEPT !.op = "login", !.actor = request[h].actor]
        BY NewRequests DEF RequestsSound, Sound, CommitRegister
    <2>2. Sound(r)'
        <3>1. request[h].actor \in Emails /\ request[h].slug \in Slugs
            BY DEF RequestsSound, Sound, CommitRegister
        <3>2. user'[request[h].actor] \in User
            BY <3>1, NewUser DEF CommitRegister, AccountsTypeOK
        <3>3. r.actor = request[h].actor /\ r.op = "login" /\ r.role = "USER"
            BY <2>1 DEF Idle
        <3> QED
            BY <3>1, <3>2, <3>3, UserIsARow DEF Sound, Exists
    <2>3. request' = [request EXCEPT ![h] = r]
        BY <2>1 DEF CommitRegister, Proceed
    <2> QED
        BY <1>1, <2>2, <2>3, SoundUpdate DEF AccountsTypeOK
<1>3. AccountsTypeOK'
    BY <1>1, <1>2 DEF AccountsTypeOK, Users, RequestsSound, Sound, CommitRegister, Proceed
<1>4. AdminsBelongToThePlatform'
    BY <1>1 DEF AdminsBelongToThePlatform, RequestsSound, Sound, Exists, Users, Kept, RolesKept, NoneNew, AccountsTypeOK, CommitRegister, Proceed
<1>5. TenantsInv'
    <2> DEFINE e == request[h].actor
               u == [tenant |-> request[h].slug, password |-> 0, role |-> "USER", is_active |-> TRUE]
    <2>1. e \in Emails /\ request[h].slug \in Slugs
        BY DEF RequestsSound, Sound, CommitRegister
    <2>2. u \in User /\ u.tenant = request[h].slug
        BY <2>1, NewUser
    <2>3. /\ ~Exists(e) /\ user' = [user EXCEPT ![e] = u]
          /\ tenants' = tenants \cup {u.tenant} /\ summaries' = summaries \cup {u.tenant}
        BY <2>2 DEF CommitRegister
    <2> HIDE DEF u, e
    <2> QED
        BY <1>1, <2>1, <2>2, <2>3, TenantsGrow DEF AccountsTypeOK, Users
<1>6. SessionsInv'
    <2>1. NoneChanging /\ tokens' = tokens
        BY DEF NoneChanging, Changing, Idle, AccountsTypeOK, tables, CommitRegister, Proceed
    <2> QED
        BY <1>1, <2>1, SessionsKept
<1>7. KeysInv'
    <2>1. NoneReplacing /\ keys' = keys
        BY DEF NoneReplacing, Idle, AccountsTypeOK, tables, CommitRegister, Proceed
    <2> QED
        BY <2>1, KeysKept
<1> QED
    BY <1>2, <1>3, <1>4, <1>5, <1>6, <1>7

-----------------------------------------------------------------------------
(* StartLogin. *)

LEMMA StartLoginStep ==
    ASSUME IInv, NEW h \in Requests, NEW e \in Emails, StartLogin(h, e)
    PROVE  IInv'
<1> USE DEF IInv
<1>1. user' \in Users /\ Kept(user') /\ NoneNew(user') /\ RolesKept(user') /\ PasswordsKept(user')
    BY Rows DEF AccountsTypeOK, Users, tables, StartLogin, Start
<1>2. RequestsSound' /\ request' \in [Requests -> Request]
    <2>1. PICK r \in Request : r = [Idle EXCEPT !.op = "login", !.actor = e, !.password = user[e].password]
        BY NewRequests, Rows DEF StartLogin, User, Users, AccountsTypeOK
    <2>2. Sound(r)'
        BY <1>1, <2>1 DEF Sound, Idle, Kept, Exists, StartLogin
    <2>3. request' = [request EXCEPT ![h] = r]
        BY <2>1 DEF StartLogin, Start
    <2> QED
        BY <1>1, <2>2, <2>3, SoundUpdate DEF AccountsTypeOK
<1>3. AccountsTypeOK'
    BY <1>1, <1>2, PlatformIsASlug DEF AccountsTypeOK, Users, tables, StartLogin, Start
<1>4. AdminsBelongToThePlatform'
    BY <1>1, AdminsKept
<1>5. TenantsInv'
    BY <1>1, TenantsKept DEF tables, StartLogin, Start
<1>6. SessionsInv'
    <2>1. NoneChanging /\ tokens' = tokens
        BY DEF NoneChanging, Changing, Idle, AccountsTypeOK, tables, StartLogin, Start
    <2> QED
        BY <1>1, <2>1, SessionsKept
<1>7. KeysInv'
    <2>1. NoneReplacing /\ keys' = keys
        BY DEF NoneReplacing, Idle, AccountsTypeOK, tables, StartLogin, Start
    <2> QED
        BY <2>1, KeysKept
<1> QED
    BY <1>2, <1>3, <1>4, <1>5, <1>6, <1>7

-----------------------------------------------------------------------------
(* PersistRefreshToken. *)

LEMMA PersistRefreshTokenStep ==
    ASSUME IInv, NEW h \in Requests, NEW t \in TokenIds, PersistRefreshToken(h, t)
    PROVE  IInv'
<1> USE DEF IInv
<1>1. user' \in Users /\ Kept(user') /\ NoneNew(user') /\ RolesKept(user') /\ PasswordsKept(user')
    BY Rows DEF AccountsTypeOK, Users, tables, PersistRefreshToken, Finish, Proceed
<1>2. RequestsSound' /\ request' \in [Requests -> Request]
    BY <1>1, SoundUpdate, SoundIdle, IdleType DEF AccountsTypeOK, PersistRefreshToken, Finish, Proceed
<1>3. AccountsTypeOK'
    <2>1. [user |-> request[h].actor, password |-> request[h].password, revoked |-> FALSE,
           overtaken |-> Overtaken(request[h].actor, request[h].password)] \in RefreshToken
        BY DEF RequestsSound, Sound, PersistRefreshToken, AccountsTypeOK, Request, RefreshToken, Overtaken
    <2>2. tokens' \in [TokenIds -> RefreshToken \cup {Nobody}]
        BY <2>1 DEF PersistRefreshToken, AccountsTypeOK
    <2> QED
        BY <1>1, <1>2, <2>2 DEF AccountsTypeOK, Users, PersistRefreshToken, Finish, Proceed
<1>4. AdminsBelongToThePlatform'
    BY <1>1, AdminsKept
<1>5. TenantsInv'
    BY <1>1, TenantsKept DEF tables, PersistRefreshToken, Finish, Proceed
<1>6. SessionsInv'
    <2> DEFINE r == request[h]
    <2>1. r.actor \in Emails /\ Exists(r.actor) /\ user' = user /\ r.op = "login"
        BY DEF PersistRefreshToken, RequestsSound, Sound
    <2>2. NoneChanging
        BY DEF NoneChanging, Changing, Idle, AccountsTypeOK, PersistRefreshToken, Finish, Proceed
    <2>3. \A x \in TokenIds : x # t => tokens'[x] = tokens[x]
        BY DEF PersistRefreshToken, AccountsTypeOK
    <2>4. tokens[t] = Nobody /\ tokens'[t] = [user |-> r.actor, password |-> r.password, revoked |-> FALSE,
                                              overtaken |-> Overtaken(r.actor, r.password)]
        BY DEF PersistRefreshToken, AccountsTypeOK
    <2>5. \A x \in TokenIds : tokens[x] # Nobody => tokens'[x] # Nobody
        BY <2>3, <2>4
    <2>6. ASSUME ~tokens'[t].overtaken PROVE Current(t)'
        <3>1. ~Overtaken(r.actor, r.password) /\ tokens'[t].user = r.actor /\ tokens'[t].password = r.password
            BY <2>4, <2>6
        <3>2. r.password = user[r.actor].password /\ \A g \in Requests : ~(Changing(request[g]) /\ request[g].actor = r.actor)
            BY <3>1 DEF Overtaken, Changing
        <3> HIDE DEF r
        <3> QED
            BY <2>1, <2>2, <3>1, <3>2 DEF Current, NoneChanging, Changing
    <2>7. ASSUME NEW x \in TokenIds, x # t, Current(x) PROVE Current(x)'
        BY <2>1, <2>2, <2>3, <2>7 DEF Current, NoneChanging
    <2>8. \A g \in Requests : Changing(request[g])' => \A x \in request'[g].seen : tokens'[x] # Nobody
        <3>1. \A g \in Requests : request[g].seen \subseteq TokenIds
            BY DEF AccountsTypeOK, Request
        <3> QED
            BY <2>2, <2>5, <3>1 DEF NoneChanging, SessionsInv, Changing
    <2> HIDE DEF r
    <2> QED
        BY <2>1, <2>3, <2>4, <2>6, <2>7, <2>8 DEF SessionsInv, Exists
<1>7. KeysInv'
    <2>1. NoneReplacing /\ keys' = keys
        BY DEF NoneReplacing, Idle, AccountsTypeOK, tables, PersistRefreshToken, Finish, Proceed
    <2> QED
        BY <2>1, KeysKept
<1> QED
    BY <1>2, <1>3, <1>4, <1>5, <1>6, <1>7

-----------------------------------------------------------------------------
(* GetCurrentUser. *)

LEMMA GetCurrentUserStep ==
    ASSUME IInv, NEW h \in Requests, NEW e \in Emails, NEW op \in AccountOps, GetCurrentUser(h, e, op)
    PROVE  IInv'
<1> USE DEF IInv
<1>1. user' \in Users /\ Kept(user') /\ NoneNew(user') /\ RolesKept(user') /\ PasswordsKept(user')
    BY Rows DEF AccountsTypeOK, Users, tables, GetCurrentUser, Start
<1>2. RequestsSound' /\ request' \in [Requests -> Request]
    <2>1. PICK r \in Request : r = [Idle EXCEPT !.op = op, !.actor = e, !.role = user[e].role]
        BY NewRequests, Rows DEF GetCurrentUser, User, Users, AccountsTypeOK
    <2>2. Sound(r)'
        <3>1. user[e].role = "ADMIN" => user[e].tenant = Platform
            BY DEF AdminsBelongToThePlatform, GetCurrentUser
        <3>2. r.op = op /\ r.actor = e /\ r.role = user[e].role
            BY <2>1 DEF Idle
        <3>3. op \notin {"idle", "register"}
            BY <2>1, <3>2, AccountsAssumption DEF GetCurrentUser, Start, Idle, AccountsTypeOK
        <3>4. Exists(e)
            BY DEF GetCurrentUser
        <3> QED
            BY <1>1, <3>1, <3>2, <3>3, <3>4 DEF Sound, Kept, Exists
    <2>3. request' = [request EXCEPT ![h] = r]
        BY <2>1 DEF GetCurrentUser, Start
    <2> QED
        BY <1>1, <2>2, <2>3, SoundUpdate DEF AccountsTypeOK
<1>3. AccountsTypeOK'
    BY <1>1, <1>2, PlatformIsASlug DEF AccountsTypeOK, Users, tables, GetCurrentUser, Start
<1>4. AdminsBelongToThePlatform'
    BY <1>1, AdminsKept
<1>5. TenantsInv'
    BY <1>1, TenantsKept DEF tables, GetCurrentUser, Start
<1>6. SessionsInv'
    <2>1. NoneChanging /\ tokens' = tokens
        BY DEF NoneChanging, Changing, Idle, AccountsTypeOK, tables, GetCurrentUser, Start
    <2> QED
        BY <1>1, <2>1, SessionsKept
<1>7. KeysInv'
    <2>1. NoneReplacing /\ keys' = keys
        BY DEF NoneReplacing, Idle, AccountsTypeOK, tables, GetCurrentUser, Start
    <2> QED
        BY <2>1, KeysKept
<1> QED
    BY <1>2, <1>3, <1>4, <1>5, <1>6, <1>7

-----------------------------------------------------------------------------
(* ReadTokens. *)

LEMMA ReadTokensStep ==
    ASSUME IInv, NEW h \in Requests, ReadTokens(h)
    PROVE  IInv'
<1> USE DEF IInv
<1>1. user' \in Users /\ Kept(user') /\ NoneNew(user') /\ RolesKept(user') /\ PasswordsKept(user')
    BY Rows DEF AccountsTypeOK, Users, tables, ReadTokens, Proceed
<1>2. RequestsSound' /\ request' \in [Requests -> Request]
    <2>1. PICK r \in Request : r = [request[h] EXCEPT !.op = "change password", !.seen = LiveTokens(request[h].actor)]
        BY LaterRequests DEF AccountsTypeOK, LiveTokens
    <2>2. Sound(r)'
        <3>1. request[h] \in Request /\ request[h].op = "read tokens" /\ Sound(request[h])
            BY DEF RequestsSound, AccountsTypeOK, ReadTokens
        <3>2. r.op = "change password" /\ r.actor = request[h].actor /\ r.role = request[h].role
            BY <2>1, <3>1 DEF Request
        <3> QED
            BY <1>1, <3>1, <3>2 DEF Sound, Kept, Exists
    <2>3. request' = [request EXCEPT ![h] = r]
        BY <2>1 DEF ReadTokens, Proceed
    <2> QED
        BY <1>1, <2>2, <2>3, SoundUpdate DEF AccountsTypeOK
<1>3. AccountsTypeOK'
    BY <1>1, <1>2, PlatformIsASlug DEF AccountsTypeOK, Users, tables, ReadTokens, Proceed
<1>4. AdminsBelongToThePlatform'
    BY <1>1, AdminsKept
<1>5. TenantsInv'
    BY <1>1, TenantsKept DEF tables, ReadTokens, Proceed
<1>6. SessionsInv'
    <2> DEFINE r == request[h]
    <2>1. tokens' = tokens /\ user' = user
        BY DEF ReadTokens, tables
    <2>2. request'[h].seen = LiveTokens(r.actor) /\ request'[h].actor = r.actor
        BY DEF ReadTokens, Proceed, AccountsTypeOK, Request
    <2>3. \A g \in Requests : g # h => request'[g] = request[g]
        BY DEF ReadTokens, Proceed, AccountsTypeOK
    <2>4. ASSUME NEW t \in TokenIds, tokens[t] # Nobody, ~tokens[t].revoked, Current(t)
          PROVE  Current(t)'
        <3>1. \A g \in Requests : Changing(request'[g]) /\ request'[g].actor = tokens[t].user => t \in request'[g].seen
            <4> SUFFICES ASSUME NEW g \in Requests, Changing(request'[g]), request'[g].actor = tokens[t].user
                         PROVE  t \in request'[g].seen
                OBVIOUS
            <4>1. CASE g = h
                BY <2>2, <2>4, <4>1 DEF LiveTokens
            <4>2. CASE g # h
                BY <2>3, <2>4, <4>2 DEF Current
            <4> QED
                BY <4>1, <4>2
        <3> QED
            BY <2>1, <2>4, <3>1 DEF Current, Changing
    <2>5. \A g \in Requests : Changing(request[g])' => \A t \in request'[g].seen : tokens'[t] # Nobody
        BY <2>1, <2>2, <2>3 DEF SessionsInv, Changing, LiveTokens
    <2> HIDE DEF r
    <2> QED
        BY <2>1, <2>4, <2>5 DEF SessionsInv, Exists
<1>7. KeysInv'
    <2>1. NoneReplacing /\ keys' = keys
        BY DEF NoneReplacing, Idle, AccountsTypeOK, Request, tables, ReadTokens, Proceed
    <2> QED
        BY <2>1, KeysKept
<1> QED
    BY <1>2, <1>3, <1>4, <1>5, <1>6, <1>7

-----------------------------------------------------------------------------
(* ChangePassword. *)

LEMMA ChangePasswordStep ==
    ASSUME IInv, NEW h \in Requests, ChangePassword(h)
    PROVE  IInv'
<1> USE DEF IInv
<1>1. user' \in Users /\ Kept(user') /\ NoneNew(user') /\ RolesKept(user')
    BY SetPasswordRow DEF AccountsTypeOK, Users, RequestsSound, Sound, tables, ChangePassword, Finish, Proceed
<1>2. RequestsSound' /\ request' \in [Requests -> Request]
    BY <1>1, SoundUpdate, SoundIdle, IdleType DEF AccountsTypeOK, ChangePassword, Finish, Proceed
<1>3. AccountsTypeOK'
    <2>1. \A t \in request[h].seen : tokens[t] # Nobody => [tokens[t] EXCEPT !.revoked = TRUE] \in RefreshToken
        BY RevokedToken DEF AccountsTypeOK, Request
    <2>2. \A t \in request[h].seen : tokens[t] # Nobody
        BY DEF SessionsInv, Changing, ChangePassword
    <2>0. request[h].seen \subseteq TokenIds
        BY DEF AccountsTypeOK, Request
    <2>3. tokens' \in [TokenIds -> RefreshToken \cup {Nobody}]
        BY <2>0, <2>1, <2>2 DEF ChangePassword, AccountsTypeOK
    <2> QED
        BY <1>1, <1>2, <2>3 DEF AccountsTypeOK, Users, ChangePassword, Finish, Proceed
<1>4. AdminsBelongToThePlatform'
    BY <1>1, AdminsKept
<1>5. TenantsInv'
    BY <1>1, TenantsKept DEF tables, ChangePassword, Finish, Proceed
<1>6. SessionsInv'
    <2> DEFINE r == request[h]
    <2>1. r.actor \in Emails /\ Exists(r.actor) /\ Changing(r) /\ r.seen \subseteq TokenIds
        BY DEF ChangePassword, RequestsSound, Sound, AccountsTypeOK, Request, Changing
    <2>2. NoneChanging
        BY DEF NoneChanging, Changing, Idle, AccountsTypeOK, ChangePassword, Finish, Proceed
    <2>3. \A e \in Emails : e # r.actor => user'[e] = user[e]
        BY DEF ChangePassword, AccountsTypeOK
    <2>4. /\ \A t \in TokenIds : t \notin r.seen => tokens'[t] = tokens[t]
          /\ \A t \in TokenIds : t \in r.seen => tokens'[t] = [tokens[t] EXCEPT !.revoked = TRUE]
        BY DEF ChangePassword
    <2>5. \A t \in r.seen : tokens[t] # Nobody /\ tokens[t] \in RefreshToken
        BY <2>1 DEF SessionsInv, AccountsTypeOK
    <2>6. \A t \in r.seen : tokens'[t].revoked /\ tokens'[t].user = tokens[t].user /\ tokens'[t] \in RefreshToken
        BY <2>1, <2>4, <2>5, RevokedToken
    <2>7. \A t \in TokenIds : tokens[t] # Nobody => tokens'[t] # Nobody /\ tokens'[t].user = tokens[t].user
        BY <2>4, <2>6, NobodyAssumption
    <2>8. ASSUME NEW t \in TokenIds, tokens[t] # Nobody, ~tokens'[t].revoked, ~tokens'[t].overtaken
          PROVE  Current(t)'
        <3>1. t \notin r.seen /\ tokens'[t] = tokens[t]
            BY <2>4, <2>6, <2>8
        <3>2. Current(t) /\ tokens[t].user \in Emails
            BY <2>8, <3>1 DEF SessionsInv, AccountsTypeOK, RefreshToken
        <3>3. tokens[t].user # r.actor
            BY <2>1, <3>1, <3>2 DEF Current
        <3> QED
            BY <2>2, <2>3, <3>1, <3>2, <3>3 DEF Current, NoneChanging
    <2>9. \A t \in TokenIds : tokens'[t] # Nobody => tokens[t] # Nobody
        BY <2>4, <2>5
    <2>10. \A g \in Requests : Changing(request[g])' => \A t \in request'[g].seen : tokens'[t] # Nobody
        <3>1. \A g \in Requests : request[g].seen \subseteq TokenIds
            BY DEF AccountsTypeOK, Request
        <3> QED
            BY <2>2, <2>7, <3>1 DEF NoneChanging, SessionsInv, Changing
    <2>11. \A t \in TokenIds : tokens'[t] # Nobody => user'[tokens[t].user] # Nobody
        BY <1>1, <2>9 DEF SessionsInv, Kept, Exists, AccountsTypeOK, RefreshToken
    <2> HIDE DEF r
    <2> QED
        BY <2>7, <2>8, <2>9, <2>10, <2>11 DEF SessionsInv, Exists
<1>7. KeysInv'
    <2>1. NoneReplacing /\ keys' = keys
        BY DEF NoneReplacing, Idle, AccountsTypeOK, tables, ChangePassword, Finish, Proceed
    <2> QED
        BY <2>1, KeysKept
<1> QED
    BY <1>2, <1>3, <1>4, <1>5, <1>6, <1>7

-----------------------------------------------------------------------------
(* DeleteAccount. *)

LEMMA DeleteAccountStep ==
    ASSUME IInv, NEW h \in Requests, DeleteAccount(h)
    PROVE  IInv'
<1> USE DEF IInv
<1>1. user' \in Users /\ Kept(user') /\ NoneNew(user') /\ RolesKept(user') /\ PasswordsKept(user')
    BY SetActiveRow DEF AccountsTypeOK, Users, RequestsSound, Sound, tables, DeleteAccount, SetActive, Finish, Proceed
<1>2. RequestsSound' /\ request' \in [Requests -> Request]
    BY <1>1, SoundUpdate, SoundIdle, IdleType DEF AccountsTypeOK, DeleteAccount, SetActive, Finish, Proceed
<1>3. AccountsTypeOK'
    BY <1>1, <1>2, PlatformIsASlug DEF AccountsTypeOK, Users, tables, DeleteAccount, SetActive, Finish, Proceed
<1>4. AdminsBelongToThePlatform'
    BY <1>1, AdminsKept
<1>5. TenantsInv'
    BY <1>1, TenantsKept DEF tables, DeleteAccount, SetActive, Finish, Proceed
<1>6. SessionsInv'
    <2>1. NoneChanging /\ tokens' = tokens
        BY DEF NoneChanging, Changing, Idle, AccountsTypeOK, tables, DeleteAccount, SetActive, Finish, Proceed
    <2> QED
        BY <1>1, <2>1, SessionsKept
<1>7. KeysInv'
    <2>1. NoneReplacing /\ keys' = keys
        BY DEF NoneReplacing, Idle, AccountsTypeOK, tables, DeleteAccount, SetActive, Finish, Proceed
    <2> QED
        BY <2>1, KeysKept
<1> QED
    BY <1>2, <1>3, <1>4, <1>5, <1>6, <1>7

-----------------------------------------------------------------------------
(* LeaveOrg. *)

LEMMA LeaveOrgStep ==
    ASSUME IInv, NEW h \in Requests, LeaveOrg(h)
    PROVE  IInv'
<1> USE DEF IInv
<1>1. user' \in Users /\ Kept(user') /\ NoneNew(user') /\ RolesKept(user') /\ PasswordsKept(user')
    BY SetActiveRow DEF AccountsTypeOK, Users, RequestsSound, Sound, tables, LeaveOrg, SetActive, Finish, Proceed
<1>2. RequestsSound' /\ request' \in [Requests -> Request]
    BY <1>1, SoundUpdate, SoundIdle, IdleType DEF AccountsTypeOK, LeaveOrg, SetActive, Finish, Proceed
<1>3. AccountsTypeOK'
    BY <1>1, <1>2, PlatformIsASlug DEF AccountsTypeOK, Users, tables, LeaveOrg, SetActive, Finish, Proceed
<1>4. AdminsBelongToThePlatform'
    BY <1>1, AdminsKept
<1>5. TenantsInv'
    BY <1>1, TenantsKept DEF tables, LeaveOrg, SetActive, Finish, Proceed
<1>6. SessionsInv'
    <2>1. NoneChanging /\ tokens' = tokens
        BY DEF NoneChanging, Changing, Idle, AccountsTypeOK, tables, LeaveOrg, SetActive, Finish, Proceed
    <2> QED
        BY <1>1, <2>1, SessionsKept
<1>7. KeysInv'
    <2>1. NoneReplacing /\ keys' = keys
        BY DEF NoneReplacing, Idle, AccountsTypeOK, tables, LeaveOrg, SetActive, Finish, Proceed
    <2> QED
        BY <2>1, KeysKept
<1> QED
    BY <1>2, <1>3, <1>4, <1>5, <1>6, <1>7

-----------------------------------------------------------------------------
(* CreateKey. *)

LEMMA CreateKeyStep ==
    ASSUME IInv, NEW h \in Requests, NEW k \in KeyIds, CreateKey(h, k)
    PROVE  IInv'
<1> USE DEF IInv
<1>1. user' \in Users /\ Kept(user') /\ NoneNew(user') /\ RolesKept(user') /\ PasswordsKept(user')
    BY Rows DEF AccountsTypeOK, Users, tables, CreateKey, Finish, Proceed
<1>2. RequestsSound' /\ request' \in [Requests -> Request]
    BY <1>1, SoundUpdate, SoundIdle, IdleType DEF AccountsTypeOK, CreateKey, Finish, Proceed
<1>3. AccountsTypeOK'
    <2>1. [user |-> request[h].actor, is_active |-> TRUE, replaces |-> request[h].key] \in ApiKey
        BY DEF RequestsSound, Sound, CreateKey, AccountsTypeOK, Request, ApiKey
    <2>2. keys' \in [KeyIds -> ApiKey \cup {Nobody}]
        BY <2>1 DEF CreateKey, AccountsTypeOK
    <2> QED
        BY <1>1, <1>2, <2>2 DEF AccountsTypeOK, Users, CreateKey, Finish, Proceed
<1>4. AdminsBelongToThePlatform'
    BY <1>1, AdminsKept
<1>5. TenantsInv'
    BY <1>1, TenantsKept DEF tables, CreateKey, Finish, Proceed
<1>6. SessionsInv'
    <2>1. NoneChanging /\ tokens' = tokens
        BY DEF NoneChanging, Changing, Idle, AccountsTypeOK, tables, CreateKey, Finish, Proceed
    <2> QED
        BY <1>1, <2>1, SessionsKept
<1>7. KeysInv'
    <2>1. keys[k] = Nobody /\ \A j \in KeyIds : j # k => keys'[j] = keys[j]
        BY DEF CreateKey, AccountsTypeOK
    <2>2. keys'[k].replaces = request[h].key /\ request[h].key \in KeyIds \cup {Nobody}
        BY DEF CreateKey, AccountsTypeOK, Request
    <2>3. \A j \in KeyIds : Dead(j) => Dead(j)'
        BY <2>1 DEF Dead
    <2>4. request[h].key # Nobody => Dead(request[h].key)
        BY DEF KeysInv
    <2>5. NoneReplacing
        BY DEF NoneReplacing, Idle, AccountsTypeOK, CreateKey, Finish, Proceed
    <2>6. \A j \in KeyIds : keys'[j] # Nobody /\ keys'[j].replaces # Nobody => Dead(keys[j].replaces)'
        <3> SUFFICES ASSUME NEW j \in KeyIds, keys'[j] # Nobody, keys'[j].replaces # Nobody
                     PROVE  Dead(keys[j].replaces)'
            OBVIOUS
        <3>1. CASE j = k
            BY <2>2, <2>3, <2>4, <3>1 DEF Dead
        <3>2. CASE j # k
            <4>1. keys[j] # Nobody /\ keys'[j].replaces = keys[j].replaces /\ keys[j].replaces \in KeyIds \cup {Nobody}
                BY <2>1, <3>2 DEF AccountsTypeOK, ApiKey
            <4>2. keys[j].replaces \in KeyIds /\ Dead(keys[j].replaces)
                BY <4>1 DEF KeysInv
            <4> QED
                BY <2>3, <4>1, <4>2 DEF Dead
        <3> QED
            BY <3>1, <3>2
    <2> QED
        BY <2>3, <2>5, <2>6 DEF KeysInv, NoneReplacing, Dead
<1> QED
    BY <1>2, <1>3, <1>4, <1>5, <1>6, <1>7

-----------------------------------------------------------------------------
(* RevokeKey. *)

LEMMA RevokeKeyStep ==
    ASSUME IInv, NEW h \in Requests, NEW k \in KeyIds, RevokeKey(h, k)
    PROVE  IInv'
<1> USE DEF IInv
<1>1. user' \in Users /\ Kept(user') /\ NoneNew(user') /\ RolesKept(user') /\ PasswordsKept(user')
    BY Rows DEF AccountsTypeOK, Users, tables, RevokeKey, FindKey, Finish, Proceed
<1>2. RequestsSound' /\ request' \in [Requests -> Request]
    BY <1>1, SoundUpdate, SoundIdle, IdleType DEF AccountsTypeOK, RevokeKey, FindKey, Finish, Proceed
<1>3. AccountsTypeOK'
    <2>1. [keys[k] EXCEPT !.is_active = FALSE] \in ApiKey
        BY DEF RevokeKey, FindKey, AccountsTypeOK, ApiKey
    <2>2. keys' \in [KeyIds -> ApiKey \cup {Nobody}]
        BY <2>1 DEF RevokeKey, AccountsTypeOK
    <2> QED
        BY <1>1, <1>2, <2>2 DEF AccountsTypeOK, Users, RevokeKey, Finish, Proceed
<1>4. AdminsBelongToThePlatform'
    BY <1>1, AdminsKept
<1>5. TenantsInv'
    BY <1>1, TenantsKept DEF tables, RevokeKey, FindKey, Finish, Proceed
<1>6. SessionsInv'
    <2>1. NoneChanging /\ tokens' = tokens
        BY DEF NoneChanging, Changing, Idle, AccountsTypeOK, tables, RevokeKey, FindKey, Finish, Proceed
    <2> QED
        BY <1>1, <2>1, SessionsKept
<1>7. KeysInv'
    <2>1. keys[k] \in ApiKey
        BY DEF RevokeKey, FindKey, AccountsTypeOK
    <2>2. keys' = [keys EXCEPT ![k] = [keys[k] EXCEPT !.is_active = FALSE]]
        BY DEF RevokeKey
    <2>3. [keys[k] EXCEPT !.is_active = FALSE] \in ApiKey /\ [keys[k] EXCEPT !.is_active = FALSE].replaces = keys[k].replaces
        BY <2>1 DEF ApiKey
    <2>4. keys'[k] # Nobody /\ ~keys'[k].is_active /\ keys'[k].replaces = keys[k].replaces
        BY <2>1, <2>2, <2>3, NobodyAssumption DEF AccountsTypeOK, ApiKey
    <2>5. \A j \in KeyIds : j # k => keys'[j] = keys[j]
        BY <2>2 DEF AccountsTypeOK
    <2>6. \A j \in KeyIds : Dead(j) => Dead(j)'
        BY <2>4, <2>5 DEF Dead
    <2>7. \A j \in KeyIds : keys'[j] # Nobody /\ keys'[j].replaces # Nobody => Dead(keys[j].replaces)'
        BY <2>1, <2>4, <2>5, <2>6, NobodyAssumption DEF KeysInv, AccountsTypeOK, ApiKey
    <2>8. NoneReplacing
        BY DEF NoneReplacing, Idle, AccountsTypeOK, RevokeKey, Finish, Proceed
    <2> QED
        BY <2>6, <2>7, <2>8 DEF KeysInv, NoneReplacing, Dead
<1> QED
    BY <1>2, <1>3, <1>4, <1>5, <1>6, <1>7

-----------------------------------------------------------------------------
(* RegenerateKey. *)

LEMMA RegenerateKeyStep ==
    ASSUME IInv, NEW h \in Requests, NEW k \in KeyIds, RegenerateKey(h, k)
    PROVE  IInv'
<1> USE DEF IInv
<1>1. user' \in Users /\ Kept(user') /\ NoneNew(user') /\ RolesKept(user') /\ PasswordsKept(user')
    BY Rows DEF AccountsTypeOK, Users, tables, RegenerateKey, FindKey, Proceed
<1>2. RequestsSound' /\ request' \in [Requests -> Request]
    <2>1. PICK r \in Request : r = [request[h] EXCEPT !.op = "replace key", !.key = k]
        BY LaterRequests DEF AccountsTypeOK
    <2>2. Sound(r)'
        <3>1. request[h] \in Request /\ request[h].op = "regenerate key" /\ Sound(request[h])
            BY DEF RequestsSound, AccountsTypeOK, RegenerateKey
        <3>2. r.op = "replace key" /\ r.actor = request[h].actor /\ r.role = request[h].role
            BY <2>1, <3>1 DEF Request
        <3> QED
            BY <1>1, <3>1, <3>2 DEF Sound, Kept, Exists
    <2>3. request' = [request EXCEPT ![h] = r]
        BY <2>1 DEF RegenerateKey, Proceed
    <2> QED
        BY <1>1, <2>2, <2>3, SoundUpdate DEF AccountsTypeOK
<1>3. AccountsTypeOK'
    <2>1. [keys[k] EXCEPT !.is_active = FALSE] \in ApiKey
        BY DEF RegenerateKey, FindKey, AccountsTypeOK, ApiKey
    <2>2. keys' \in [KeyIds -> ApiKey \cup {Nobody}]
        BY <2>1 DEF RegenerateKey, AccountsTypeOK
    <2> QED
        BY <1>1, <1>2, <2>2 DEF AccountsTypeOK, Users, RegenerateKey, Proceed
<1>4. AdminsBelongToThePlatform'
    BY <1>1, AdminsKept
<1>5. TenantsInv'
    BY <1>1, TenantsKept DEF tables, RegenerateKey, FindKey, Proceed
<1>6. SessionsInv'
    <2>1. NoneChanging /\ tokens' = tokens
        BY DEF NoneChanging, Changing, AccountsTypeOK, Request, RegenerateKey, Proceed
    <2> QED
        BY <1>1, <2>1, SessionsKept
<1>7. KeysInv'
    <2>1. keys[k] \in ApiKey
        BY DEF RegenerateKey, FindKey, AccountsTypeOK
    <2>2. keys' = [keys EXCEPT ![k] = [keys[k] EXCEPT !.is_active = FALSE]]
        BY DEF RegenerateKey
    <2>3. [keys[k] EXCEPT !.is_active = FALSE] \in ApiKey /\ [keys[k] EXCEPT !.is_active = FALSE].replaces = keys[k].replaces
        BY <2>1 DEF ApiKey
    <2>4. keys'[k] # Nobody /\ ~keys'[k].is_active /\ keys'[k].replaces = keys[k].replaces
        BY <2>1, <2>2, <2>3, NobodyAssumption DEF AccountsTypeOK, ApiKey
    <2>5. \A j \in KeyIds : j # k => keys'[j] = keys[j]
        BY <2>2 DEF AccountsTypeOK
    <2>6. \A j \in KeyIds : Dead(j) => Dead(j)'
        BY <2>4, <2>5 DEF Dead
    <2>7. \A j \in KeyIds : keys'[j] # Nobody /\ keys'[j].replaces # Nobody => Dead(keys[j].replaces)'
        BY <2>1, <2>4, <2>5, <2>6, NobodyAssumption DEF KeysInv, AccountsTypeOK, ApiKey
    <2>8. request'[h].key = k /\ request'[h].op = "replace key" /\ \A g \in Requests : g # h => request'[g] = request[g]
        BY DEF AccountsTypeOK, Request, RegenerateKey, Proceed
    <2> QED
        BY <2>4, <2>6, <2>7, <2>8 DEF KeysInv, Dead
<1> QED
    BY <1>2, <1>3, <1>4, <1>5, <1>6, <1>7

-----------------------------------------------------------------------------
(* Abort. *)

LEMMA AbortStep ==
    ASSUME IInv, NEW h \in Requests, Abort(h)
    PROVE  IInv'
<1> USE DEF IInv
<1>1. user' \in Users /\ Kept(user') /\ NoneNew(user') /\ RolesKept(user') /\ PasswordsKept(user')
    BY Rows DEF AccountsTypeOK, Users, tables, Abort, Finish, Proceed
<1>2. RequestsSound' /\ request' \in [Requests -> Request]
    BY <1>1, SoundUpdate, SoundIdle, IdleType DEF AccountsTypeOK, Abort, Finish, Proceed
<1>3. AccountsTypeOK'
    BY <1>1, <1>2, PlatformIsASlug DEF AccountsTypeOK, Users, tables, Abort, Finish, Proceed
<1>4. AdminsBelongToThePlatform'
    BY <1>1, AdminsKept
<1>5. TenantsInv'
    BY <1>1, TenantsKept DEF tables, Abort, Finish, Proceed
<1>6. SessionsInv'
    <2>1. NoneChanging /\ tokens' = tokens
        BY DEF NoneChanging, Changing, Idle, AccountsTypeOK, tables, Abort, Finish, Proceed
    <2> QED
        BY <1>1, <2>1, SessionsKept
<1>7. KeysInv'
    <2>1. NoneReplacing /\ keys' = keys
        BY DEF NoneReplacing, Idle, AccountsTypeOK, tables, Abort, Finish, Proceed
    <2> QED
        BY <2>1, KeysKept
<1> QED
    BY <1>2, <1>3, <1>4, <1>5, <1>6, <1>7

-----------------------------------------------------------------------------
(* InviteMember. *)

LEMMA InviteMemberStep ==
    ASSUME IInv, NEW h \in Requests, NEW m \in Emails, NEW role \in {"USER", "ADMIN"}, InviteMember(h, m, role)
    PROVE  IInv'
<1> USE DEF IInv
<1>1. user' \in Users /\ Kept(user') /\ RolesKept(user') /\ PasswordsKept(user')
    BY RowUpdate, NewUser, PlatformIsASlug, Rows DEF AccountsTypeOK, Users, RequestsSound, Sound, tables, InviteMember, RequireAdmin, Finish, Proceed
<1>2. RequestsSound' /\ request' \in [Requests -> Request]
    BY <1>1, SoundUpdate, SoundIdle, IdleType DEF AccountsTypeOK, InviteMember, RequireAdmin, Finish, Proceed
<1>3. AccountsTypeOK'
    BY <1>1, <1>2, PlatformIsASlug DEF AccountsTypeOK, Users, tables, InviteMember, RequireAdmin, Finish, Proceed
<1>4. AdminsBelongToThePlatform'
    BY <1>1 DEF AdminsBelongToThePlatform, RequestsSound, Sound, Exists, Users, Kept, RolesKept, NoneNew, AccountsTypeOK, InviteMember, RequireAdmin, Finish, Proceed
<1>5. TenantsInv'
    <2> DEFINE u == [tenant |-> user[request[h].actor].tenant, password |-> 0, role |-> role, is_active |-> TRUE]
    <2>1. Exists(request[h].actor) /\ request[h].actor \in Emails
        BY DEF RequestsSound, Sound, InviteMember, RequireAdmin
    <2>2. user[request[h].actor].tenant \in Slugs
        BY <2>1, Rows DEF AccountsTypeOK, Users, User
    <2>3. u \in User /\ u.tenant = user[request[h].actor].tenant
        BY <2>2, NewUser
    <2>4. u.tenant \in tenants /\ u.tenant \in summaries
        BY <2>1, <2>2, <2>3 DEF TenantsInv, TenantsAreWhole
    <2>5. /\ ~Exists(m) /\ user' = [user EXCEPT ![m] = u]
          /\ tenants' = tenants \cup {u.tenant} /\ summaries' = summaries \cup {u.tenant}
        BY <2>4 DEF InviteMember
    <2> HIDE DEF u
    <2> QED
        BY <1>1, <2>2, <2>3, <2>5, TenantsGrow DEF AccountsTypeOK, Users
<1>6. SessionsInv'
    <2>1. NoneChanging /\ tokens' = tokens
        BY DEF NoneChanging, Changing, Idle, AccountsTypeOK, tables, InviteMember, RequireAdmin, Finish, Proceed
    <2> QED
        BY <1>1, <2>1, SessionsKept
<1>7. KeysInv'
    <2>1. NoneReplacing /\ keys' = keys
        BY DEF NoneReplacing, Idle, AccountsTypeOK, tables, InviteMember, RequireAdmin, Finish, Proceed
    <2> QED
        BY <2>1, KeysKept
<1> QED
    BY <1>2, <1>3, <1>4, <1>5, <1>6, <1>7

-----------------------------------------------------------------------------
(* UpdateMember. *)

LEMMA UpdateMemberStep ==
    ASSUME IInv, NEW h \in Requests, NEW m \in Emails, NEW role \in {"USER", "ADMIN"}, UpdateMember(h, m, role)
    PROVE  IInv'
<1> USE DEF IInv
<1>1. user' \in Users /\ Kept(user') /\ NoneNew(user') /\ PasswordsKept(user')
    BY SetRoleRow, Rows DEF AccountsTypeOK, Users, RequestsSound, Sound, tables, UpdateMember, RequireAdmin, Member, SetRole, Finish, Proceed
<1>2. RequestsSound' /\ request' \in [Requests -> Request]
    BY <1>1, SoundUpdate, SoundIdle, IdleType DEF AccountsTypeOK, UpdateMember, RequireAdmin, Member, SetRole, Finish, Proceed
<1>3. AccountsTypeOK'
    BY <1>1, <1>2, PlatformIsASlug DEF AccountsTypeOK, Users, tables, UpdateMember, RequireAdmin, Member, SetRole, Finish, Proceed
<1>4. AdminsBelongToThePlatform'
    BY <1>1 DEF AdminsBelongToThePlatform, RequestsSound, Sound, Exists, Users, Kept, RolesKept, NoneNew, AccountsTypeOK, UpdateMember, RequireAdmin, Member, SetRole, Finish, Proceed
<1>5. TenantsInv'
    BY <1>1, TenantsKept DEF tables, UpdateMember, RequireAdmin, Member, SetRole, Finish, Proceed
<1>6. SessionsInv'
    <2>1. NoneChanging /\ tokens' = tokens
        BY DEF NoneChanging, Changing, Idle, AccountsTypeOK, tables, UpdateMember, RequireAdmin, Member, SetRole, Finish, Proceed
    <2> QED
        BY <1>1, <2>1, SessionsKept
<1>7. KeysInv'
    <2>1. NoneReplacing /\ keys' = keys
        BY DEF NoneReplacing, Idle, AccountsTypeOK, tables, UpdateMember, RequireAdmin, Member, SetRole, Finish, Proceed
    <2> QED
        BY <2>1, KeysKept
<1> QED
    BY <1>2, <1>3, <1>4, <1>5, <1>6, <1>7

-----------------------------------------------------------------------------
(* RemoveMember. *)

LEMMA RemoveMemberStep ==
    ASSUME IInv, NEW h \in Requests, NEW m \in Emails, RemoveMember(h, m)
    PROVE  IInv'
<1> USE DEF IInv
<1>1. user' \in Users /\ Kept(user') /\ NoneNew(user') /\ RolesKept(user') /\ PasswordsKept(user')
    BY SetActiveRow DEF AccountsTypeOK, Users, RequestsSound, Sound, tables, RemoveMember, RequireAdmin, Member, SetActive, Finish, Proceed
<1>2. RequestsSound' /\ request' \in [Requests -> Request]
    BY <1>1, SoundUpdate, SoundIdle, IdleType DEF AccountsTypeOK, RemoveMember, RequireAdmin, Member, SetActive, Finish, Proceed
<1>3. AccountsTypeOK'
    BY <1>1, <1>2, PlatformIsASlug DEF AccountsTypeOK, Users, tables, RemoveMember, RequireAdmin, Member, SetActive, Finish, Proceed
<1>4. AdminsBelongToThePlatform'
    BY <1>1, AdminsKept
<1>5. TenantsInv'
    BY <1>1, TenantsKept DEF tables, RemoveMember, RequireAdmin, Member, SetActive, Finish, Proceed
<1>6. SessionsInv'
    <2>1. NoneChanging /\ tokens' = tokens
        BY DEF NoneChanging, Changing, Idle, AccountsTypeOK, tables, RemoveMember, RequireAdmin, Member, SetActive, Finish, Proceed
    <2> QED
        BY <1>1, <2>1, SessionsKept
<1>7. KeysInv'
    <2>1. NoneReplacing /\ keys' = keys
        BY DEF NoneReplacing, Idle, AccountsTypeOK, tables, RemoveMember, RequireAdmin, Member, SetActive, Finish, Proceed
    <2> QED
        BY <2>1, KeysKept
<1> QED
    BY <1>2, <1>3, <1>4, <1>5, <1>6, <1>7

-----------------------------------------------------------------------------
(* DeleteUser. *)

LEMMA DeleteUserStep ==
    ASSUME IInv, NEW h \in Requests, NEW m \in Emails, DeleteUser(h, m)
    PROVE  IInv'
<1> USE DEF IInv
<1>1. user' \in Users /\ Kept(user') /\ NoneNew(user') /\ RolesKept(user') /\ PasswordsKept(user')
    BY SetActiveRow DEF AccountsTypeOK, Users, RequestsSound, Sound, tables, DeleteUser, RequireAdmin, SetActive, Finish, Proceed
<1>2. RequestsSound' /\ request' \in [Requests -> Request]
    BY <1>1, SoundUpdate, SoundIdle, IdleType DEF AccountsTypeOK, DeleteUser, RequireAdmin, SetActive, Finish, Proceed
<1>3. AccountsTypeOK'
    BY <1>1, <1>2, PlatformIsASlug DEF AccountsTypeOK, Users, tables, DeleteUser, RequireAdmin, SetActive, Finish, Proceed
<1>4. AdminsBelongToThePlatform'
    BY <1>1, AdminsKept
<1>5. TenantsInv'
    BY <1>1, TenantsKept DEF tables, DeleteUser, RequireAdmin, SetActive, Finish, Proceed
<1>6. SessionsInv'
    <2>1. NoneChanging /\ tokens' = tokens
        BY DEF NoneChanging, Changing, Idle, AccountsTypeOK, tables, DeleteUser, RequireAdmin, SetActive, Finish, Proceed
    <2> QED
        BY <1>1, <2>1, SessionsKept
<1>7. KeysInv'
    <2>1. NoneReplacing /\ keys' = keys
        BY DEF NoneReplacing, Idle, AccountsTypeOK, tables, DeleteUser, RequireAdmin, SetActive, Finish, Proceed
    <2> QED
        BY <2>1, KeysKept
<1> QED
    BY <1>2, <1>3, <1>4, <1>5, <1>6, <1>7

-----------------------------------------------------------------------------
(* SetUserActive. *)

LEMMA SetUserActiveStep ==
    ASSUME IInv, NEW h \in Requests, NEW m \in Emails, NEW active \in BOOLEAN, SetUserActive(h, m, active)
    PROVE  IInv'
<1> USE DEF IInv
<1>1. user' \in Users /\ Kept(user') /\ NoneNew(user') /\ RolesKept(user') /\ PasswordsKept(user')
    <2>1. Exists(m) /\ user \in Users
        BY DEF SetUserActive, AccountsTypeOK, Users
    <2>2. (IF m = request[h].actor /\ active THEN user[m].is_active ELSE active) \in BOOLEAN
        BY <2>1, Rows DEF User
    <2> QED
        BY <2>1, <2>2, SetActiveRow DEF SetUserActive, SetActive
<1>2. RequestsSound' /\ request' \in [Requests -> Request]
    BY <1>1, SoundUpdate, SoundIdle, IdleType DEF AccountsTypeOK, SetUserActive, RequireAdmin, SetActive, Finish, Proceed
<1>3. AccountsTypeOK'
    BY <1>1, <1>2, PlatformIsASlug DEF AccountsTypeOK, Users, tables, SetUserActive, RequireAdmin, SetActive, Finish, Proceed
<1>4. AdminsBelongToThePlatform'
    BY <1>1, AdminsKept
<1>5. TenantsInv'
    BY <1>1, TenantsKept DEF tables, SetUserActive, RequireAdmin, SetActive, Finish, Proceed
<1>6. SessionsInv'
    <2>1. NoneChanging /\ tokens' = tokens
        BY DEF NoneChanging, Changing, Idle, AccountsTypeOK, tables, SetUserActive, RequireAdmin, SetActive, Finish, Proceed
    <2> QED
        BY <1>1, <2>1, SessionsKept
<1>7. KeysInv'
    <2>1. NoneReplacing /\ keys' = keys
        BY DEF NoneReplacing, Idle, AccountsTypeOK, tables, SetUserActive, RequireAdmin, SetActive, Finish, Proceed
    <2> QED
        BY <2>1, KeysKept
<1> QED
    BY <1>2, <1>3, <1>4, <1>5, <1>6, <1>7

-----------------------------------------------------------------------------
(* CreateOrg. *)

LEMMA CreateOrgStep ==
    ASSUME IInv, NEW h \in Requests, NEW s \in Slugs, CreateOrg(h, s)
    PROVE  IInv'
<1> USE DEF IInv
<1>1. user' \in Users /\ Kept(user') /\ NoneNew(user') /\ RolesKept(user') /\ PasswordsKept(user')
    BY Rows DEF AccountsTypeOK, Users, tables, CreateOrg, RequireAdmin, FreeSlug, Finish, Proceed
<1>2. RequestsSound' /\ request' \in [Requests -> Request]
    BY <1>1, SoundUpdate, SoundIdle, IdleType DEF AccountsTypeOK, CreateOrg, RequireAdmin, FreeSlug, Finish, Proceed
<1>3. AccountsTypeOK'
    BY <1>1, <1>2, PlatformIsASlug DEF AccountsTypeOK, Users, tables, CreateOrg, RequireAdmin, FreeSlug, Finish, Proceed
<1>4. AdminsBelongToThePlatform'
    BY <1>1, AdminsKept
<1>5. TenantsInv'
    BY <1>1 DEF TenantsInv, TenantsAreWhole, RequestsSound, Sound, Exists, Users, Kept, NoneNew, AccountsTypeOK, CreateOrg, RequireAdmin, FreeSlug, Finish, Proceed
<1>6. SessionsInv'
    <2>1. NoneChanging /\ tokens' = tokens
        BY DEF NoneChanging, Changing, Idle, AccountsTypeOK, tables, CreateOrg, RequireAdmin, FreeSlug, Finish, Proceed
    <2> QED
        BY <1>1, <2>1, SessionsKept
<1>7. KeysInv'
    <2>1. NoneReplacing /\ keys' = keys
        BY DEF NoneReplacing, Idle, AccountsTypeOK, tables, CreateOrg, RequireAdmin, FreeSlug, Finish, Proceed
    <2> QED
        BY <2>1, KeysKept
<1> QED
    BY <1>2, <1>3, <1>4, <1>5, <1>6, <1>7

-----------------------------------------------------------------------------
(* The invariant, and what follows from it. *)

LEMMA Initially == AccountsInit => IInv
<1> SUFFICES ASSUME AccountsInit PROVE IInv
    OBVIOUS
<1>1. AccountsTypeOK
    BY IdleType DEF AccountsInit, AccountsTypeOK
<1>2. RequestsSound
    BY DEF AccountsInit, RequestsSound, Sound, Idle
<1>3. AdminsBelongToThePlatform /\ TenantsInv
    BY DEF AccountsInit, AdminsBelongToThePlatform, TenantsInv, TenantsAreWhole, Exists
<1>4. SessionsInv /\ KeysInv
    BY DEF AccountsInit, SessionsInv, KeysInv, Changing, Idle
<1> QED
    BY <1>1, <1>2, <1>3, <1>4 DEF IInv

LEMMA Stuttering == ASSUME IInv, UNCHANGED accountVars PROVE IInv'
<1> USE DEF accountVars, IInv
<1>1. AccountsTypeOK' /\ RequestsSound'
    BY DEF AccountsTypeOK, RequestsSound, Sound, Exists
<1>2. AdminsBelongToThePlatform' /\ TenantsInv'
    BY DEF AdminsBelongToThePlatform, TenantsInv, TenantsAreWhole, Exists
<1>3. SessionsInv' /\ KeysInv'
    BY DEF SessionsInv, Current, KeysInv, Dead, Changing, Exists
<1> QED
    BY <1>1, <1>2, <1>3

LEMMA Inductive == IInv /\ [AccountsNext]_accountVars => IInv'
<1> SUFFICES ASSUME IInv, [AccountsNext]_accountVars PROVE IInv'
    OBVIOUS
<1>1. CASE UNCHANGED accountVars
    BY <1>1, Stuttering
<1>2. ASSUME NEW p \in Processes, Lifespan(p) \/ IssueAdminBootstrap(p) \/ Stop(p)
      PROVE  IInv'
    BY <1>2, LifespanStep, IssueAdminBootstrapStep, StopStep
<1>3. ASSUME NEW h \in Requests, SelfService(h)
      PROVE  IInv'
    <2>1. CASE \/ \E e \in Emails, s \in Slugs : StartRegister(h, e, s)
               \/ \E e \in Emails : StartLogin(h, e)
               \/ \E e \in Emails, op \in AccountOps : GetCurrentUser(h, e, op)
        BY <2>1, StartRegisterStep, StartLoginStep, GetCurrentUserStep
    <2>2. CASE \/ CommitRegister(h) \/ ReadTokens(h) \/ ChangePassword(h)
               \/ DeleteAccount(h) \/ LeaveOrg(h) \/ Abort(h)
        BY <2>2, CommitRegisterStep, ReadTokensStep, ChangePasswordStep, DeleteAccountStep, LeaveOrgStep, AbortStep
    <2>3. CASE \E t \in TokenIds : PersistRefreshToken(h, t)
        BY <2>3, PersistRefreshTokenStep
    <2>4. CASE \E k \in KeyIds : CreateKey(h, k) \/ RevokeKey(h, k) \/ RegenerateKey(h, k)
        BY <2>4, CreateKeyStep, RevokeKeyStep, RegenerateKeyStep
    <2> QED
        BY <1>3, <2>1, <2>2, <2>3, <2>4 DEF SelfService
<1>4. ASSUME NEW h \in Requests, Administration(h)
      PROVE  IInv'
    BY <1>4, InviteMemberStep, UpdateMemberStep, RemoveMemberStep, DeleteUserStep, SetUserActiveStep, CreateOrgStep
       DEF Administration
<1> QED
    BY <1>1, <1>2, <1>3, <1>4 DEF AccountsNext

LEMMA Invariant == AccountsSpec => []IInv
BY Initially, Inductive, PTL DEF AccountsSpec

\* Every reachable state is well typed: in particular no handler writes a role, a session or
\* a key that the tables do not allow, and no row is updated that does not exist.
THEOREM AccountsTypeCorrect == AccountsSpec => []AccountsTypeOK
<1>1. IInv => AccountsTypeOK
    BY DEF IInv
<1> QED
    BY <1>1, Invariant, PTL

\* A tenant has a usage row exactly when it has a user: no registration or seeding is ever
\* committed in part, and no tenant made by create_org is ever joined.
THEOREM TenantsWhole == AccountsSpec => []TenantsAreWhole
<1>1. IInv => TenantsAreWhole
    BY DEF IInv, TenantsInv
<1> QED
    BY <1>1, Invariant, PTL

\* Only users of the platform's own tenant ever become administrators.
THEOREM AdminsOfThePlatform == AccountsSpec => []AdminsBelongToThePlatform
<1>1. IInv => AdminsBelongToThePlatform
    BY DEF IInv
<1> QED
    BY <1>1, Invariant, PTL

\* A session survives a change of the password only if its login was overtaken by the change.
THEOREM OldSessions == AccountsSpec => []OldSessionsWereOvertaken
<1>1. IInv => OldSessionsWereOvertaken
    BY DEF IInv, SessionsInv, Current, OldSessionsWereOvertaken
<1> QED
    BY <1>1, Invariant, PTL

\* Whenever a regenerated key exists, the key that it replaces is revoked.
THEOREM RegeneratedKeys == AccountsSpec => []RegeneratedKeysAreRevoked
<1>1. IInv => RegeneratedKeysAreRevoked
    BY DEF IInv, KeysInv, Dead, RegeneratedKeysAreRevoked
<1> QED
    BY <1>1, Invariant, PTL
=============================================================================
