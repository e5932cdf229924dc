------------------------------ MODULE Accounts ------------------------------
(***************************************************************************)
(* Tenants, users, refresh tokens and API keys of the FastAPI service       *)
(* (auth_service.py, api/auth.py, api/team.py, api/admin.py,                *)
(* api/organizations.py, api_key_service.py), served by two uvicorn         *)
(* processes, each of which seeds the platform's administrator when it      *)
(* starts.                                                                  *)
(*                                                                         *)
(* A request first goes through get_current_user, which reads the row of    *)
(* its user, and acts on what it has read when it commits.  Each action is  *)
(* one such read, or one commit with the reads right before it.             *)
(***************************************************************************)
EXTENDS Naturals, FiniteSets

CONSTANTS
    Nobody,
    Requests,           \* threads of the service
    Processes,          \* uvicorn --workers
    Emails,
    SeedEmail,          \* ADMIN_SEED_EMAIL
    Names,              \* what slugify makes of the names of organisations
    PlatformName,       \* "platform-admin"
    MaxSuffix,          \* bound: tenants of one name
    TokenIds, KeyIds,   \* rows ever inserted
    MaxPassword,        \* bound: password changes of a user
    Workloads           \* the sets of operations that a behaviour may consist of

AccountOps == {"idle", "restart", "register", "login", "read tokens", "change password", "delete account", "leave",
               "invite", "update", "remove", "set active", "suspend", "create org",
               "create key", "revoke key", "regenerate key", "replace key"}
Slugs == Names \X (1..MaxSuffix)
Platform == <<PlatformName, 1>>

ASSUME AccountsAssumption ==
    /\ SeedEmail \in Emails
    /\ PlatformName \in Names
    /\ MaxSuffix \in Nat \ {0}
    /\ MaxPassword \in Nat
    /\ TokenIds \subseteq Nat /\ KeyIds \subseteq Nat
    /\ Nobody \notin Emails \cup Nat \cup Slugs
    /\ Workloads \subseteq SUBSET (AccountOps \ {"idle"})

VARIABLES
    process,    \* lifespan of each process
    user,       \* table users, by address
    tenants,    \* table tenants: their slugs
    summaries,  \* table usage_summary: the tenants that have a row
    tokens,     \* table refresh_tokens
    keys,       \* table api_keys
    request,    \* per thread: the request in progress
    operations  \* those of this behaviour

accountVars == <<process, user, tenants, summaries, tokens, keys, request, operations>>

-----------------------------------------------------------------------------

User == [tenant : Slugs, password : 0..MaxPassword, role : {"USER", "ADMIN"}, is_active : BOOLEAN]

\* `password` is the one that was verified; `overtaken` records, of an inserted row, whether
\* a change of the password was under way or over.
RefreshToken == [user : Emails, password : 0..MaxPassword, revoked : BOOLEAN, overtaken : BOOLEAN]

\* `replaces` records which key a regenerated one stands for.
ApiKey == [user : Emails, is_active : BOOLEAN, replaces : KeyIds \cup {Nobody}]

ASSUME NobodyAssumption == Nobody \notin User \cup RefreshToken \cup ApiKey

\* `role` and `password` are what the request has read of its user, `seen` the tokens it has
\* read, `slug` and `key` what it is about.
Request == [op : AccountOps, actor : Emails \cup {Nobody}, role : {"USER", "ADMIN"},
            password : 0..MaxPassword, seen : SUBSET TokenIds,
            slug : Slugs \cup {Nobody}, key : KeyIds \cup {Nobody}]
Idle == [op |-> "idle", actor |-> Nobody, role |-> "USER", password |-> 0, seen |-> {},
         slug |-> Nobody, key |-> Nobody]

AccountsTypeOK ==
    /\ process \in [Processes -> {"down", "seeding", "up", "failed"}]
    /\ user \in [Emails -> User \cup {Nobody}]
    /\ tenants \in SUBSET Slugs
    /\ summaries \in SUBSET Slugs
    /\ tokens \in [TokenIds -> RefreshToken \cup {Nobody}]
    /\ keys \in [KeyIds -> ApiKey \cup {Nobody}]
    /\ request \in [Requests -> Request]
    /\ operations \in Workloads

AccountsInit ==
    /\ process = [p \in Processes |-> "down"]
    /\ user = [e \in Emails |-> Nobody]
    /\ tenants = {}
    /\ summaries = {}
    /\ tokens = [t \in TokenIds |-> Nobody]
    /\ keys = [k \in KeyIds |-> Nobody]
    /\ request = [h \in Requests |-> Idle]
    /\ operations \in Workloads

Exists(e) == user[e] # Nobody
tables == <<user, tenants, summaries, tokens, keys>>

Start(h, r) ==
    /\ r.op \in operations
    /\ request[h].op = "idle"
    /\ \E p \in Processes : process[p] = "up"
    /\ request' = [request EXCEPT ![h] = r]
    /\ UNCHANGED <<process, tables, operations>>

Proceed(h, r) == request' = [request EXCEPT ![h] = r] /\ UNCHANGED <<process, operations>>
Finish(h) == Proceed(h, Idle)

\* The handler answers with an error, or its thread dies before the commit.
Abort(h) ==
    /\ request[h].op # "idle"
    /\ Finish(h)
    /\ UNCHANGED tables

-----------------------------------------------------------------------------
(* Start of a process. *)

Lifespan(p) ==
    /\ process[p] = "down"
    /\ process' = [process EXCEPT ![p] = IF Exists(SeedEmail) THEN "up" ELSE "seeding"]
    /\ UNCHANGED <<tables, request, operations>>

\* One commit; the unique address and slug make it fail, and the process with it, when the
\* other process has seeded since this one looked.
IssueAdminBootstrap(p) ==
    /\ process[p] = "seeding"
    /\ IF Exists(SeedEmail) \/ Platform \in tenants
       THEN /\ process' = [process EXCEPT ![p] = "failed"]
            /\ UNCHANGED <<user, tenants, summaries>>
       ELSE /\ process' = [process EXCEPT ![p] = "up"]
            /\ tenants' = tenants \cup {Platform}
            /\ summaries' = summaries \cup {Platform}
            /\ user' = [user EXCEPT ![SeedEmail] =
                   [tenant |-> Platform, password |-> 0, role |-> "ADMIN", is_active |-> TRUE]]
    /\ UNCHANGED <<tokens, keys, request, operations>>

Stop(p) ==
    /\ "restart" \in operations
    /\ process[p] # "down"
    /\ process' = [process EXCEPT ![p] = "down"]
    /\ UNCHANGED <<tables, request, operations>>

-----------------------------------------------------------------------------
(* Registration and sign-in. *)

\* The loop over slugs stops at the first one that no committed tenant has.
FreeSlug(b, s) ==
    /\ s \in Slugs /\ s[1] = b /\ s \notin tenants
    /\ \A n \in 1..MaxSuffix : n < s[2] => <<b, n>> \in tenants

StartRegister(h, e, s) ==
    /\ ~Exists(e)
    /\ FreeSlug(s[1], s)
    /\ Start(h, [Idle EXCEPT !.op = "register", !.actor = e, !.slug = s])

\* Mutant: the tenant is committed before the user.
CommitRegisterInParts(h) ==
    LET r == request[h] IN
    /\ r.op = "register"
    /\ tenants' = tenants \cup {r.slug}
    /\ summaries' = summaries \cup {r.slug}
    /\ IF Exists(r.actor)
       THEN Finish(h) /\ UNCHANGED user
       ELSE /\ user' = [user EXCEPT ![r.actor] =
                   [tenant |-> r.slug, password |-> 0, role |-> "USER", is_active |-> TRUE]]
            /\ Proceed(h, [Idle EXCEPT !.op = "login", !.actor = r.actor])
    /\ UNCHANGED <<tokens, keys>>

\* Tenant, user and usage row in one commit; what is taken by now rolls it back.
CommitRegister(h) ==
    LET r == request[h] IN
    /\ r.op = "register"
    /\ ~Exists(r.actor) /\ r.slug \notin tenants
    /\ tenants' = tenants \cup {r.slug}
    /\ summaries' = summaries \cup {r.slug}
    /\ user' = [user EXCEPT ![r.actor] =
           [tenant |-> r.slug, password |-> 0, role |-> "USER", is_active |-> TRUE]]
    /\ Proceed(h, [Idle EXCEPT !.op = "login", !.actor = r.actor])
    /\ UNCHANGED <<tokens, keys>>

StartLogin(h, e) ==
    /\ Exists(e) /\ user[e].is_active
    /\ Start(h, [Idle EXCEPT !.op = "login", !.actor = e, !.password = user[e].password])

\* Auxiliary: a change of e's password has read its tokens and not committed yet, or is over.
Overtaken(e, password) ==
    \/ password # user[e].password
    \/ \E h \in Requests : request[h].op = "change password" /\ request[h].actor = e

PersistRefreshToken(h, t) ==
    LET r == request[h] IN
    /\ r.op = "login"
    /\ tokens[t] = Nobody /\ \A s \in TokenIds : s < t => tokens[s] # Nobody
    /\ tokens' = [tokens EXCEPT ![t] =
           [user |-> r.actor, password |-> r.password, revoked |-> FALSE,
            overtaken |-> Overtaken(r.actor, r.password)]]
    /\ Finish(h)
    /\ UNCHANGED <<user, tenants, summaries, keys>>

-----------------------------------------------------------------------------
(* Requests of a user who is signed in. *)

\* The user may be any whose access token has not expired: the row must be active now.
GetCurrentUser(h, e, op) ==
    /\ op \notin {"restart", "register", "login", "change password", "replace key"}
    /\ Exists(e) /\ user[e].is_active
    /\ Start(h, [Idle EXCEPT !.op = op, !.actor = e, !.role = user[e].role])

LiveTokens(e) == {t \in TokenIds : tokens[t] # Nobody /\ tokens[t].user = e /\ ~tokens[t].revoked}

ReadTokens(h) ==
    LET r == request[h] IN
    /\ r.op = "read tokens"
    /\ Proceed(h, [r EXCEPT !.op = "change password", !.seen = LiveTokens(r.actor)])
    /\ UNCHANGED tables

\* Mutant: .first() for .all().
ChangePasswordFirst(h) ==
    LET r == request[h] IN
    /\ r.op = "change password"
    /\ user[r.actor].password < MaxPassword
    /\ user' = [user EXCEPT ![r.actor].password = @ + 1]
    /\ tokens' = [t \in TokenIds |->
           IF t \in r.seen /\ \A s \in r.seen : t <= s THEN [tokens[t] EXCEPT !.revoked = TRUE] ELSE tokens[t]]
    /\ Finish(h)
    /\ UNCHANGED <<tenants, summaries, keys>>

\* Each change sets a password that the user has not had.
ChangePassword(h) ==
    LET r == request[h] IN
    /\ r.op = "change password"
    /\ user[r.actor].password < MaxPassword
    /\ user' = [user EXCEPT ![r.actor].password = @ + 1]
    /\ tokens' = [t \in TokenIds |-> IF t \in r.seen THEN [tokens[t] EXCEPT !.revoked = TRUE] ELSE tokens[t]]
    /\ Finish(h)
    /\ UNCHANGED <<tenants, summaries, keys>>

SetActive(h, e, active) ==
    /\ user' = [user EXCEPT ![e].is_active = active]
    /\ Finish(h)
    /\ UNCHANGED <<tenants, summaries, tokens, keys>>

DeleteAccount(h) == request[h].op = "delete account" /\ SetActive(h, request[h].actor, FALSE)
LeaveOrg(h) == request[h].op = "leave" /\ SetActive(h, request[h].actor, FALSE)

CreateKey(h, k) ==
    LET r == request[h] IN
    /\ r.op \in {"create key", "replace key"}
    /\ keys[k] = Nobody /\ \A j \in KeyIds : j < k => keys[j] # Nobody
    /\ keys' = [keys EXCEPT ![k] = [user |-> r.actor, is_active |-> TRUE, replaces |-> r.key]]
    /\ Finish(h)
    /\ UNCHANGED <<user, tenants, summaries, tokens>>

\* An administrator may revoke any key, a user the keys of his own.
FindKey(h, k) == keys[k] # Nobody /\ (request[h].role = "ADMIN" \/ keys[k].user = request[h].actor)

RevokeKey(h, k) ==
    /\ request[h].op = "revoke key"
    /\ FindKey(h, k)
    /\ keys' = [keys EXCEPT ![k].is_active = FALSE]
    /\ Finish(h)
    /\ UNCHANGED <<user, tenants, summaries, tokens>>

\* Mutant: the order of the two commits is swapped.
RegenerateKeyLast(h, k) ==
    \E j \in KeyIds :
        /\ request[h].op = "regenerate key"
        /\ FindKey(h, k)
        /\ keys[j] = Nobody
        /\ keys' = [keys EXCEPT ![j] = [user |-> request[h].actor, is_active |-> TRUE, replaces |-> k]]
        /\ Proceed(h, [request[h] EXCEPT !.op = "revoke key"])
        /\ UNCHANGED <<user, tenants, summaries, tokens>>

\* The first commit of regenerate_key; CreateKey is the second.
RegenerateKey(h, k) ==
    /\ request[h].op = "regenerate key"
    /\ FindKey(h, k)
    /\ keys' = [keys EXCEPT ![k].is_active = FALSE]
    /\ Proceed(h, [request[h] EXCEPT !.op = "replace key", !.key = k])
    /\ UNCHANGED <<user, tenants, summaries, tokens>>

-----------------------------------------------------------------------------
(* Requests of an administrator: the role is the one read by get_current_user. *)

RequireAdmin(h, op) == request[h].op = op /\ request[h].role = "ADMIN"

\* The tenant is read again for each query; it never changes.
Member(h, m) == Exists(m) /\ user[m].tenant = user[request[h].actor].tenant

InviteMember(h, e, role) ==
    /\ RequireAdmin(h, "invite")
    /\ ~Exists(e)
    /\ user' = [user EXCEPT ![e] =
           [tenant |-> user[request[h].actor].tenant, password |-> 0, role |-> role, is_active |-> TRUE]]
    /\ Finish(h)
    /\ UNCHANGED <<tenants, summaries, tokens, keys>>

\* Mutant: the role of the payload is stored as it is; the front end says MEMBER.
SetRoleAsSent(h, m, role) ==
    /\ user' = [user EXCEPT ![m].role = IF role = "USER" THEN "MEMBER" ELSE role]
    /\ Finish(h)
    /\ UNCHANGED <<tenants, summaries, tokens, keys>>

\* Of himself the administrator has read ADMIN already, and writing ADMIN is no change.
SetRole(h, m, role) ==
    /\ user' = IF m = request[h].actor /\ role = "ADMIN" THEN user ELSE [user EXCEPT ![m].role = role]
    /\ Finish(h)
    /\ UNCHANGED <<tenants, summaries, tokens, keys>>

\* Mutant: the query does not compare tenants.
UpdateAnyMember(h, m, role) == RequireAdmin(h, "update") /\ Exists(m) /\ SetRole(h, m, role)

UpdateMember(h, m, role) == RequireAdmin(h, "update") /\ Member(h, m) /\ SetRole(h, m, role)
RemoveMember(h, m) == RequireAdmin(h, "remove") /\ Member(h, m) /\ SetActive(h, m, FALSE)

\* The console's endpoints reach the users of every tenant.  Of himself the administrator has
\* read that he is active.
SetUserActive(h, m, active) ==
    /\ RequireAdmin(h, "set active")
    /\ Exists(m)
    /\ SetActive(h, m, IF m = request[h].actor /\ active THEN user[m].is_active ELSE active)

DeleteUser(h, m) == RequireAdmin(h, "suspend") /\ Exists(m) /\ SetActive(h, m, FALSE)

\* A tenant without users and without a usage row.
CreateOrg(h, s) ==
    /\ RequireAdmin(h, "create org")
    /\ FreeSlug(s[1], s)
    /\ tenants' = tenants \cup {s}
    /\ Finish(h)
    /\ UNCHANGED <<user, summaries, tokens, keys>>

-----------------------------------------------------------------------------

SelfService(h) ==
    \/ \E e \in Emails, s \in Slugs : StartRegister(h, e, s)
    \/ CommitRegister(h)
    \/ \E e \in Emails : StartLogin(h, e)
    \/ \E t \in TokenIds : PersistRefreshToken(h, t)
    \/ \E e \in Emails, op \in AccountOps : GetCurrentUser(h, e, op)
    \/ ReadTokens(h) \/ ChangePassword(h)
    \/ DeleteAccount(h) \/ LeaveOrg(h)
    \/ \E k \in KeyIds : CreateKey(h, k) \/ RevokeKey(h, k) \/ RegenerateKey(h, k)
    \/ Abort(h)

Administration(h) ==
    \/ \E m \in Emails, role \in {"USER", "ADMIN"} : InviteMember(h, m, role) \/ UpdateMember(h, m, role)
    \/ \E m \in Emails : RemoveMember(h, m) \/ DeleteUser(h, m)
    \/ \E m \in Emails, active \in BOOLEAN : SetUserActive(h, m, active)
    \/ \E s \in Slugs : CreateOrg(h, s)

AccountsNext ==
    \/ \E p \in Processes : Lifespan(p) \/ IssueAdminBootstrap(p) \/ Stop(p)
    \/ \E h \in Requests : SelfService(h) \/ Administration(h)

AccountsSpec == AccountsInit /\ [][AccountsNext]_accountVars

-----------------------------------------------------------------------------
(* Properties. *)

\* A tenant has a usage row exactly when it has a user, whatever registrations, seedings and
\* crashes interleave: a registration that loses a race for its address or slug leaves
\* nothing behind, get_usage and the worker never meet a user without a usage row (and so
\* never race to insert one), and nobody ever comes into a tenant made by create_org.
TenantsAreWhole ==
    \A s \in Slugs : s \in summaries <=> s \in tenants /\ \E e \in Emails : Exists(e) /\ user[e].tenant = s

\* Only users of the platform's own tenant are administrators, although the team endpoints
\* are written for every tenant and the console's endpoints, which reach every tenant, ask
\* for nothing but the role: whoever registers an organisation is an ordinary user of it.
AdminsBelongToThePlatform ==
    \A e \in Emails : Exists(e) /\ user[e].role = "ADMIN" => user[e].tenant = Platform

\* A session that survives a change of its user's password was inserted by a login that the
\* change overtook: it came after change_password had read the rows to revoke.
OldSessionsWereOvertaken ==
    \A t \in TokenIds : tokens[t] # Nobody /\ ~tokens[t].revoked /\ tokens[t].password # user[tokens[t].user].password
                            => tokens[t].overtaken

\* A key that has been regenerated is dead before its replacement exists, wherever the
\* request dies and however many regenerate it at once.
RegeneratedKeysAreRevoked ==
    \A k \in KeyIds : keys[k] # Nobody /\ keys[k].replaces # Nobody => ~keys[keys[k].replaces].is_active
=============================================================================
