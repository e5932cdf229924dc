---------------------------- MODULE LegacyTenancy ----------------------------
(***************************************************************************)
(* Organisations, memberships and API keys of the TypeScript back end       *)
(* (organization.service.ts, team.service.ts, api-key.service.ts, the       *)
(* deletion of users in admin.service.ts and adminSeed.service.ts).         *)
(*                                                                         *)
(* Every operation is a chain of Prisma calls without a transaction: who    *)
(* may do it, what it is done to, and the write.  A step is one such call,  *)
(* or the calls that decide whether a request is let in, whose refusal      *)
(* changes nothing.  A handler may die, and with it what it still had to do.*)
(***************************************************************************)
EXTENDS Naturals, FiniteSets, LegacyApi

CONSTANTS
    Users,
    Organizations,
    Keys,               \* ids of every row ever inserted into api_keys
    Starts,             \* the memberships that a behaviour may begin with
    Seeded,             \* the address of ADMIN_SEED_EMAIL
    Authors,            \* users who have created a workflow
    Workloads,          \* the sets of operations that a behaviour may consist of
    MaxChanges          \* bound: requests that are let in

Operations == {"idle", "add", "remove", "role", "leave", "team add", "team remove", "team role", "team leave",
               "found", "close", "seed", "disable", "delete",
               "create key", "revoke key", "delete key", "regenerate key"}

ASSUME TenancySetsAssumption ==
    /\ IsFiniteSet(Users)
    /\ Seeded \in Users
    /\ None \notin Users \cup Organizations \cup Keys
ASSUME TenancyStartsAssumption == Starts \subseteq [Organizations -> [Users -> {"ADMIN", "MEMBER", "none"}]]
ASSUME TenancyWorkloadsAssumption == Workloads \subseteq SUBSET (Operations \ {"idle"})
ASSUME TenancyBoundAssumption == MaxChanges \in Nat

VARIABLES
    user,       \* table users: is the row there, isActive
    organization,   \* table organizations: is the row there, isActive
    role,       \* table memberships: organisation -> user -> role, "none" without a row
    key,        \* table api_keys
    change,     \* per handler: the request in progress
    changes,    \* history: how many there were
    workload    \* the operations of this behaviour

tables == <<user, organization, role, key>>
tenancyVars == <<tables, change, changes, workload>>

-----------------------------------------------------------------------------

Roles == {"ADMIN", "MEMBER"}
ChangeSteps == {"find", "count", "write", "replace"}

Key == [state : {"new", "active", "revoked", "gone"}, organization : Organizations \cup {None},
        owner : Users \cup {None}, from : Keys \cup {None}]
Change ==
    [op : Operations, step : ChangeSteps, caller : Users \cup {None}, organization : Organizations \cup {None},
     target : Users \cup {None}, role : Roles, key : Keys \cup {None}, seen : SUBSET Users]
NoChange ==
    [op |-> "idle", step |-> "find", caller |-> None, organization |-> None,
     target |-> None, role |-> "MEMBER", key |-> None, seen |-> {}]

TenancyTypeOK ==
    /\ user \in [Users -> {"new", "active", "inactive", "gone"}]
    /\ organization \in [Organizations -> {"new", "active", "inactive"}]
    /\ role \in [Organizations -> [Users -> Roles \cup {"none"}]]
    /\ key \in [Keys -> Key]
    /\ change \in [Handlers -> Change]
    /\ changes \in 0..MaxChanges
    /\ workload \in Workloads

TenancyInit ==
    /\ role \in Starts
    /\ user = [u \in Users |-> IF \E o \in Organizations : role[o][u] # "none" THEN "active" ELSE "new"]
    /\ organization = [o \in Organizations |->
           IF \E u \in Users : role[o][u] # "none" THEN "active" ELSE "new"]
    /\ key = [k \in Keys |-> [state |-> "new", organization |-> None, owner |-> None, from |-> None]]
    /\ change = [h \in Handlers |-> NoChange]
    /\ changes = 0
    /\ workload \in Workloads

There(u) == user[u] \in {"active", "inactive"}
Admins(o) == {u \in Users : role[o][u] = "ADMIN"}

At(h, op, step) == change[h].op = op /\ change[h].step = step

Accept(h, r) ==
    /\ r.op \in workload
    /\ change[h].op = "idle"
    /\ changes < MaxChanges
    /\ changes' = changes + 1
    /\ change' = [change EXCEPT ![h] = r]
    /\ UNCHANGED <<tables, workload>>

GoOn(h, step) ==
    /\ change' = [change EXCEPT ![h].step = step]
    /\ UNCHANGED <<tables, changes, workload>>

Finish(h) == change' = [change EXCEPT ![h] = NoChange] /\ UNCHANGED <<changes, workload>>

\* An error is answered, and nothing is written.
Refuse(h) == Finish(h) /\ UNCHANGED tables

-----------------------------------------------------------------------------
(* Who may do what. *)

Authenticated(u) == user[u] = "active"
CheckOrganizationAccess(u, o) == Authenticated(u) /\ role[o][u] # "none"
CheckOrganizationAdmin(u, o) == Authenticated(u) /\ role[o][u] = "ADMIN"

\* requireAdmin takes the organisation from the body of the request, or else from the access
\* token; the parameter of the route, which it should be, is called `id`.
RequireAdmin(u) == \E o \in Organizations : role[o][u] = "ADMIN"

-----------------------------------------------------------------------------
(* Statements on memberships. *)

\* Mutant: no foreign key.
InsertMembershipBlindly(h) ==
    LET r == change[h] IN
    IF role[r.organization][r.target] = "none"
    THEN /\ role' = [role EXCEPT ![r.organization][r.target] = r.role]
         /\ Finish(h)
         /\ UNCHANGED <<user, organization, key>>
    ELSE Refuse(h)

\* INSERT: (userId, organizationId) is unique, and the user must be there.
InsertMembership(h) ==
    LET r == change[h] IN
    IF There(r.target) /\ role[r.organization][r.target] = "none"
    THEN /\ role' = [role EXCEPT ![r.organization][r.target] = r.role]
         /\ Finish(h)
         /\ UNCHANGED <<user, organization, key>>
    ELSE Refuse(h)

\* UPDATE and DELETE of one membership throw without the row.
WriteMembership(h, value) ==
    LET r == change[h] IN
    IF role[r.organization][r.target] # "none"
    THEN /\ role' = [role EXCEPT ![r.organization][r.target] = value]
         /\ Finish(h)
         /\ UNCHANGED <<user, organization, key>>
    ELSE Refuse(h)

FindStranger(h) ==
    LET r == change[h] IN
    IF There(r.target) /\ role[r.organization][r.target] = "none" THEN GoOn(h, "write") ELSE Refuse(h)

FindMember(h) ==
    LET r == change[h] IN
    IF role[r.organization][r.target] # "none" THEN GoOn(h, "write") ELSE Refuse(h)

\* Mutant: members are counted instead of admins.
CountMembers(h) ==
    LET o == change[h].organization IN
    IF Cardinality({u \in Users : role[o][u] # "none"}) = 1
    THEN Refuse(h)
    ELSE /\ change' = [change EXCEPT ![h] = [@ EXCEPT !.step = "write", !.seen = Admins(o)]]
         /\ UNCHANGED <<tables, changes, workload>>

\* An admin is counted in before it may leave; `seen` are the admins the count found.
CountAdmins(h) ==
    LET o == change[h].organization IN
    IF Cardinality(Admins(o)) = 1
    THEN Refuse(h)
    ELSE /\ change' = [change EXCEPT ![h] = [@ EXCEPT !.step = "write", !.seen = Admins(o)]]
         /\ UNCHANGED <<tables, changes, workload>>

-----------------------------------------------------------------------------
(* organization.controller.ts, then organization.service.ts. *)

ByAdmin(op, u, o, v, as) ==
    [NoChange EXCEPT !.op = op, !.caller = u, !.organization = o, !.target = v, !.role = as]
Leaving(op, u, o) ==
    [ByAdmin(op, u, o, u, "MEMBER") EXCEPT !.step = IF role[o][u] = "ADMIN" THEN "count" ELSE "write"]

PostMember(h, u, o, v, as) ==
    /\ RequireAdmin(u) /\ CheckOrganizationAdmin(u, o)
    /\ Accept(h, ByAdmin("add", u, o, v, as))

DeleteMember(h, u, o, v) ==
    /\ RequireAdmin(u) /\ CheckOrganizationAdmin(u, o)
    /\ v # u
    /\ Accept(h, ByAdmin("remove", u, o, v, "MEMBER"))

PatchMember(h, u, o, v, as) ==
    /\ RequireAdmin(u) /\ CheckOrganizationAdmin(u, o)
    /\ v # u
    /\ Accept(h, ByAdmin("role", u, o, v, as))

PostLeave(h, u, o) == CheckOrganizationAccess(u, o) /\ Accept(h, Leaving("leave", u, o))

AddMember(h) ==
    \/ At(h, "add", "find") /\ FindStranger(h)
    \/ At(h, "add", "write") /\ InsertMembership(h)

RemoveMember(h) ==
    \/ At(h, "remove", "find") /\ FindMember(h)
    \/ At(h, "remove", "write") /\ WriteMembership(h, "none")

UpdateMemberRole(h) ==
    \/ At(h, "role", "find") /\ FindMember(h)
    \/ At(h, "role", "write") /\ WriteMembership(h, change[h].role)

LeaveOrganization(h) ==
    \/ At(h, "leave", "count") /\ CountAdmins(h)
    \/ At(h, "leave", "write") /\ WriteMembership(h, "none")

(* team.controller.ts, then team.service.ts: the same tables, without requireAdmin. *)

PostTeamMember(h, u, o, v, as) ==
    CheckOrganizationAdmin(u, o) /\ Accept(h, ByAdmin("team add", u, o, v, as))

PatchTeamMember(h, u, o, v, as) ==
    CheckOrganizationAdmin(u, o) /\ v # u /\ Accept(h, ByAdmin("team role", u, o, v, as))

DeleteTeamMember(h, u, o, v) ==
    CheckOrganizationAdmin(u, o) /\ v # u /\ Accept(h, ByAdmin("team remove", u, o, v, "MEMBER"))

PostTeamLeave(h, u, o) == CheckOrganizationAccess(u, o) /\ Accept(h, Leaving("team leave", u, o))

\* The notification is worded with currentMember.user, which was not fetched: the handler
\* answers with an error although the member has been added.
TeamInviteMember(h) ==
    \/ At(h, "team add", "find") /\ FindStranger(h)
    \/ At(h, "team add", "write") /\ InsertMembership(h)

TeamUpdateMemberRole(h) ==
    \/ At(h, "team role", "find") /\ FindMember(h)
    \/ At(h, "team role", "write") /\ WriteMembership(h, change[h].role)

TeamRemoveMember(h) ==
    \/ At(h, "team remove", "find") /\ FindMember(h)
    \/ At(h, "team remove", "write") /\ WriteMembership(h, "none")

TeamLeaveOrganization(h) ==
    \/ At(h, "team leave", "count") /\ CountAdmins(h)
    \/ At(h, "team leave", "write") /\ WriteMembership(h, "none")

-----------------------------------------------------------------------------
(* Organisations and users. *)

PostOrganization(h, u) == Authenticated(u) /\ Accept(h, [NoChange EXCEPT !.op = "found", !.caller = u])

\* One transaction: the organisation and its first admin, who must be there.
Found(o, u) ==
    /\ organization[o] = "new"
    /\ organization' = [organization EXCEPT ![o] = "active"]
    /\ role' = [role EXCEPT ![o][u] = "ADMIN"]

CreateOrganization(h) ==
    /\ At(h, "found", "find")
    /\ \/ /\ There(change[h].caller)
          /\ \E o \in Organizations : Found(o, change[h].caller)
          /\ Finish(h)
          /\ UNCHANGED <<user, key>>
       \/ ~There(change[h].caller) /\ Refuse(h)

PatchOrganization(h, u, o) ==
    CheckOrganizationAdmin(u, o) /\ Accept(h, ByAdmin("close", u, o, None, "MEMBER"))

UpdateOrganization(h) ==
    /\ At(h, "close", "find")
    /\ \E state \in {"active", "inactive"} :
          organization' = [organization EXCEPT ![change[h].organization] = state]
    /\ Finish(h)
    /\ UNCHANGED <<user, role, key>>

\* At every start of a server: the seeded user gets an organisation of its own unless it
\* is an admin somewhere, and is created with one when there is no such user.  (Once deleted
\* it would be created as another user, which is not followed.)
SeedAdminIfMissing(h) ==
    \/ /\ user[Seeded] # "gone"
       /\ \A o \in Organizations : role[o][Seeded] # "ADMIN"
       /\ Accept(h, [NoChange EXCEPT !.op = "seed", !.step = IF There(Seeded) THEN "write" ELSE "find"])
    \/ /\ At(h, "seed", "write")
       /\ \/ /\ There(Seeded)
             /\ \E o \in Organizations : Found(o, Seeded)
             /\ Finish(h)
             /\ UNCHANGED <<user, key>>
          \/ ~There(Seeded) /\ Refuse(h)
    \/ /\ At(h, "seed", "find")
       /\ \/ /\ user[Seeded] = "new"
             /\ user' = [user EXCEPT ![Seeded] = "active"]
             /\ \E o \in Organizations : Found(o, Seeded)
             /\ Finish(h)
             /\ UNCHANGED key
          \/ There(Seeded) /\ Refuse(h)

\* Mutant: a status that the table does not have.
UpdateUserStatus(u, isActive) ==
    /\ "disable" \in workload
    /\ There(u)
    /\ user' = [user EXCEPT ![u] = IF isActive THEN "active" ELSE "disabled"]
    /\ UNCHANGED <<organization, role, key, change, changes, workload>>

UpdateUser(u, isActive) ==
    /\ "disable" \in workload
    /\ There(u)
    /\ user' = [user EXCEPT ![u] = IF isActive THEN "active" ELSE "inactive"]
    /\ UNCHANGED <<organization, role, key, change, changes, workload>>

\* Memberships cascade; workflows and API keys do not, and keep the row.
InTable(k) == key[k].state \in {"active", "revoked"}
OwnsKey(u) == \E k \in Keys : key[k].owner = u /\ InTable(k)

DeleteUser(h) ==
    \/ \E u \in Users : There(u) /\ Accept(h, [NoChange EXCEPT !.op = "delete", !.target = u])
    \/ /\ At(h, "delete", "find")
       /\ LET u == change[h].target IN
          IF There(u) /\ u \notin Authors /\ ~OwnsKey(u)
          THEN /\ user' = [user EXCEPT ![u] = "gone"]
               /\ role' = [o \in Organizations |-> [role[o] EXCEPT ![u] = "none"]]
               /\ Finish(h)
               /\ UNCHANGED <<organization, key>>
          ELSE Refuse(h)

-----------------------------------------------------------------------------
(* API keys: api-key.controller.ts, then api-key.service.ts. *)

OfKey(op, u, o, k) == [NoChange EXCEPT !.op = op, !.caller = u, !.organization = o, !.key = k]

PostKey(h, u, o) ==
    CheckOrganizationAccess(u, o) /\ Accept(h, [OfKey("create key", u, o, None) EXCEPT !.step = "write"])
PostRevoke(h, u, o, k) == CheckOrganizationAccess(u, o) /\ Accept(h, OfKey("revoke key", u, o, k))
DeleteKey(h, u, o, k) == CheckOrganizationAccess(u, o) /\ Accept(h, OfKey("delete key", u, o, k))
PostRegenerate(h, u, o, k) == CheckOrganizationAccess(u, o) /\ Accept(h, OfKey("regenerate key", u, o, k))

FindKey(h) ==
    LET r == change[h] IN
    IF InTable(r.key) /\ key[r.key].organization = r.organization THEN GoOn(h, "write") ELSE Refuse(h)

\* INSERT: the caller must still be there.
InsertKey(h) ==
    LET r == change[h] IN
    \/ /\ There(r.caller)
       /\ \E k \in Keys :
             /\ key[k].state = "new"
             /\ key' = [key EXCEPT ![k] = [state |-> "active", organization |-> r.organization,
                                           owner |-> r.caller, from |-> r.key]]
       /\ Finish(h)
       /\ UNCHANGED <<user, organization, role>>
    \/ ~There(r.caller) /\ Refuse(h)

\* UPDATE and DELETE of one key throw without the row.
WriteKey(h, state) ==
    /\ InTable(change[h].key)
    /\ key' = [key EXCEPT ![change[h].key].state = state]
    /\ UNCHANGED <<user, organization, role>>
KeyIsGone(h) == ~InTable(change[h].key) /\ Refuse(h)

CreateApiKey(h) == At(h, "create key", "write") /\ InsertKey(h)

RevokeApiKey(h) ==
    \/ At(h, "revoke key", "find") /\ FindKey(h)
    \/ At(h, "revoke key", "write") /\ KeyIsGone(h)
    \/ At(h, "revoke key", "write") /\ WriteKey(h, "revoked") /\ Finish(h)

DeleteApiKey(h) ==
    \/ At(h, "delete key", "find") /\ FindKey(h)
    \/ At(h, "delete key", "write") /\ KeyIsGone(h)
    \/ At(h, "delete key", "write") /\ WriteKey(h, "gone") /\ Finish(h)

\* Mutant: the new key is inserted before the old one is revoked.
RegenerateInsertsFirst(h) ==
    \/ At(h, "regenerate key", "find") /\ FindKey(h)
    \/ /\ At(h, "regenerate key", "write")
       /\ \E k \in Keys :
             /\ key[k].state = "new"
             /\ key' = [key EXCEPT ![k] = [state |-> "active", organization |-> change[h].organization,
                                           owner |-> change[h].caller, from |-> change[h].key]]
       /\ change' = [change EXCEPT ![h].step = "replace"]
       /\ UNCHANGED <<user, organization, role, changes, workload>>
    \/ At(h, "regenerate key", "replace") /\ WriteKey(h, "revoked") /\ Finish(h)

\* The old key is revoked and the new one inserted by two statements.
RegenerateApiKey(h) ==
    \/ At(h, "regenerate key", "find") /\ FindKey(h)
    \/ /\ At(h, "regenerate key", "write")
       /\ \/ KeyIsGone(h)
          \/ /\ WriteKey(h, "revoked")
             /\ change' = [change EXCEPT ![h].step = "replace"]
             /\ UNCHANGED <<changes, workload>>
    \/ At(h, "regenerate key", "replace") /\ InsertKey(h)

Crash(h) == change[h].op # "idle" /\ Refuse(h)

-----------------------------------------------------------------------------

Ask(h) ==
    \/ \E u, v \in Users, o \in Organizations, as \in Roles :
          \/ PostMember(h, u, o, v, as) \/ PatchMember(h, u, o, v, as)
          \/ PostTeamMember(h, u, o, v, as) \/ PatchTeamMember(h, u, o, v, as)
    \/ \E u, v \in Users, o \in Organizations : DeleteMember(h, u, o, v) \/ DeleteTeamMember(h, u, o, v)
    \/ \E u \in Users, o \in Organizations :
          PostLeave(h, u, o) \/ PostTeamLeave(h, u, o) \/ PatchOrganization(h, u, o) \/ PostKey(h, u, o)
    \/ \E u \in Users : PostOrganization(h, u)
    \/ \E u \in Users, o \in Organizations, k \in Keys :
          PostRevoke(h, u, o, k) \/ DeleteKey(h, u, o, k) \/ PostRegenerate(h, u, o, k)

Work(h) ==
    \/ AddMember(h) \/ RemoveMember(h) \/ UpdateMemberRole(h) \/ LeaveOrganization(h)
    \/ TeamInviteMember(h) \/ TeamUpdateMemberRole(h) \/ TeamRemoveMember(h) \/ TeamLeaveOrganization(h)
    \/ CreateOrganization(h) \/ UpdateOrganization(h) \/ SeedAdminIfMissing(h) \/ DeleteUser(h)
    \/ CreateApiKey(h) \/ RevokeApiKey(h) \/ DeleteApiKey(h) \/ RegenerateApiKey(h)
    \/ Crash(h)

TenancyNext ==
    \/ \E h \in Handlers : Ask(h) \/ Work(h)
    \/ \E u \in Users, isActive \in BOOLEAN : UpdateUser(u, isActive)

TenancySpec == TenancyInit /\ [][TenancyNext]_tenancyVars

-----------------------------------------------------------------------------
(* Properties. *)

\* Rows refer to rows: a member of an organisation and the owner of an API key are users
\* that are there, although membership and key are inserted after the user was looked up
\* and the user may be deleted in between.
ReferencesAreSound ==
    /\ \A o \in Organizations, u \in Users : role[o][u] # "none" => There(u)
    /\ \A k \in Keys : InTable(k) => There(key[k].owner)

\* What the caller relied on has changed: an admin who acts on others is none any more, an
\* admin who leaves is not one of the admins it has counted.
ActsOnStaleData(h) ==
    LET r == change[h] IN
    \/ r.op \in {"remove", "role", "team remove", "team role"} /\ role[r.organization][r.caller] # "ADMIN"
    \/ r.op \in {"leave", "team leave"} /\ r.seen # Admins(r.organization)
    \/ r.op = "delete"

\* An organisation keeps an admin: nobody acts on their own membership, and the only admin
\* may not leave.  It loses its last admin only through a request that is overtaken
\* between its checks and its write, or when the platform deletes the user.
LastAdminGoesOnStaleData ==
    [][\A o \in Organizations : Admins(o) # {} /\ Admins(o)' = {} =>
          \E h \in Handlers : change[h].op # "idle" /\ change'[h].op = "idle" /\ ActsOnStaleData(h)]_tenancyVars

\* regenerateApiKey revokes the old key before it inserts the new one: whatever else
\* happens to the two, and wherever the handler dies, they are never valid together.
ReplacedKeyIsDead ==
    \A k \in Keys : InTable(k) /\ key[k].from # None => key[key[k].from].state # "active"
=============================================================================
