------------------------ MODULE LegacyTenancyProofs -------------------------
(***************************************************************************)
(* Proofs about LegacyTenancy: types, references, the last administrator    *)
(* and regenerated keys, for any number of handlers, users, organisations   *)
(* and keys.  A lemma for each statement that the services issue shows that *)
(* it keeps the inductive invariant, IInv, and takes the last administrator *)
(* only on stale data; the operations are chains of these statements.       *)
(***************************************************************************)
EXTENDS LegacyTenancy, FiniteSetTheorems, TLAPS

-----------------------------------------------------------------------------
(* The inductive invariant. *)

OnOthers == {"remove", "role", "team remove", "team role"}
OnOneself == {"leave", "team leave"}
OnMembers == OnOthers \cup OnOneself \cup {"add", "team add"}
OnKeys == {"revoke key", "delete key", "regenerate key"}

\* What a request in progress is about.  Nobody acts against themselves, and who has been
\* counted before leaving was not the only administrator.
Sound(r) ==
    /\ r.op \in OnMembers => r.organization \in Organizations /\ r.target \in Users /\ r.caller \in Users
    /\ r.op \in OnOthers => r.caller # r.target
    /\ r.op \in OnOneself /\ r.step = "write" => Cardinality(r.seen) # 1
    /\ r.op = "found" => r.caller \in Users
    /\ r.op = "close" => r.organization \in Organizations
    /\ r.op = "delete" => r.target \in Users
    /\ r.op \in OnKeys \cup {"create key"} => r.caller \in Users /\ r.organization \in Organizations
    /\ r.op \in OnKeys => r.key \in Keys
    /\ r.op = "create key" => r.key = None
RequestsSound == \A h \in Handlers : Sound(change[h])

ReferencesInv == ReferencesAreSound /\ \A k \in Keys : InTable(k) => key[k].owner \in Users

\* A key that has been replaced, or is about to be, is dead and stays so.
Dead(k) == key[k].state \in {"revoked", "gone"}
Replacing(r) == r.op = "regenerate key" /\ r.step = "replace"
KeysInv ==
    /\ \A k \in Keys : key[k].from # None => Dead(key[k].from)
    /\ \A h \in Handlers : Replacing(change[h]) => Dead(change[h].key)

IInv ==
    /\ TenancyTypeOK
    /\ RequestsSound
    /\ ReferencesInv
    /\ KeysInv

\* What LastAdminGoesOnStaleData says of a step.
AdminStep ==
    \A o \in Organizations : Admins(o) # {} /\ Admins(o)' = {} =>
        \E h \in Handlers : change[h].op # "idle" /\ change'[h].op = "idle" /\ ActsOnStaleData(h)

-----------------------------------------------------------------------------
(* Requests. *)

LEMMA NoChangeType == NoChange \in Change /\ Sound(NoChange) /\ NoChange.op = "idle"
<1>1. NoChange \in Change
    BY DEF NoChange, Change, Operations, ChangeSteps, Roles
<1>2. Sound(NoChange)
    BY DEF NoChange, Sound, OnMembers, OnOthers, OnOneself, OnKeys
<1> QED
    BY <1>1, <1>2 DEF NoChange

\* One handler's request changes, to one that is sound.
LEMMA OneRequest ==
    ASSUME TenancyTypeOK, RequestsSound, NEW h \in Handlers, NEW r \in Change, Sound(r),
           change' = [change EXCEPT ![h] = r]
    PROVE  /\ change' \in [Handlers -> Change]
           /\ RequestsSound'
           /\ change'[h] = r /\ \A g \in Handlers : g # h => change'[g] = change[g]
BY DEF TenancyTypeOK, RequestsSound, Sound

LEMMA NextStepType ==
    ASSUME NEW r \in Change, Sound(r), r.op \notin OnOneself, NEW s \in ChangeSteps
    PROVE  LET q == [r EXCEPT !.step = s] IN
           q \in Change /\ Sound(q) /\ q.step = s /\ q.key = r.key /\ q.op = r.op
<1> DEFINE q == [r EXCEPT !.step = s]
<1>1. q \in Change
    BY DEF Change
<1>2. /\ q.op = r.op /\ q.step = s /\ q.key = r.key /\ q.caller = r.caller
      /\ q.organization = r.organization /\ q.target = r.target /\ q.seen = r.seen
    BY DEF Change
<1> HIDE DEF q
<1>3. Sound(q)
    BY <1>2 DEF Sound
<1> QED
    BY <1>1, <1>2, <1>3 DEF q

-----------------------------------------------------------------------------
(* What a step keeps that leaves a table alone. *)

LEMMA RolesKept ==
    ASSUME role' = role
    PROVE  AdminStep
BY DEF AdminStep, Admins

\* No step takes a user away but DeleteUser.
UsersKept == \A u \in Users : There(u) => user'[u] \in {"active", "inactive"}

LEMMA ReferencesKept ==
    ASSUME ReferencesInv, UsersKept, key' = key,
           \A o \in Organizations, u \in Users : role'[o][u] # "none" => role[o][u] # "none" \/ There(u)'
    PROVE  ReferencesInv'
BY DEF ReferencesInv, ReferencesAreSound, UsersKept, There, InTable

LEMMA KeysKept ==
    ASSUME KeysInv, key' = key,
           NEW h \in Handlers, Replacing(change'[h]) => Dead(change'[h].key),
           \A g \in Handlers : g # h => change'[g] = change[g]
    PROVE  KeysInv'
BY DEF KeysInv, Dead, Replacing

-----------------------------------------------------------------------------
(* The statements that the services issue. *)

LEMMA RefuseStep ==
    ASSUME IInv, NEW h \in Handlers, Refuse(h)
    PROVE  IInv' /\ AdminStep
<1>1. change' = [change EXCEPT ![h] = NoChange] /\ UNCHANGED <<tables, changes, workload>>
    BY DEF Refuse, Finish
<1>2. change' \in [Handlers -> Change] /\ RequestsSound'
      /\ change'[h] = NoChange /\ \A g \in Handlers : g # h => change'[g] = change[g]
    BY <1>1, NoChangeType, OneRequest DEF IInv
<1>3. TenancyTypeOK'
    BY <1>1, <1>2 DEF IInv, TenancyTypeOK, tables
<1>4. ReferencesInv'
    BY <1>1, ReferencesKept DEF IInv, UsersKept, There, tables
<1>5. KeysInv'
    BY <1>1, <1>2, NoChangeType, KeysKept DEF IInv, Replacing, tables
<1> QED
    BY <1>1, <1>2, <1>3, <1>4, <1>5, RolesKept DEF IInv, tables

LEMMA AcceptStep ==
    ASSUME IInv, NEW h \in Handlers, NEW r \in Change, Sound(r), ~Replacing(r), Accept(h, r)
    PROVE  IInv' /\ AdminStep
<1>1. change' = [change EXCEPT ![h] = r] /\ UNCHANGED <<tables, workload>>
    BY DEF Accept
<1>2. change' \in [Handlers -> Change] /\ RequestsSound'
      /\ change'[h] = r /\ \A g \in Handlers : g # h => change'[g] = change[g]
    BY <1>1, OneRequest DEF IInv
<1>3. changes' \in 0..MaxChanges
    BY TenancyBoundAssumption DEF Accept, IInv, TenancyTypeOK
<1>4. TenancyTypeOK'
    BY <1>1, <1>2, <1>3 DEF IInv, TenancyTypeOK, tables
<1>5. ReferencesInv'
    BY <1>1, ReferencesKept DEF IInv, UsersKept, There, tables
<1>6. KeysInv'
    BY <1>1, <1>2, KeysKept DEF IInv, tables
<1> QED
    BY <1>1, <1>2, <1>4, <1>5, <1>6, RolesKept DEF IInv, tables

LEMMA GoOnStep ==
    ASSUME IInv, NEW h \in Handlers, NEW s \in ChangeSteps, GoOn(h, s),
           change[h].op \notin OnOneself, s # "replace"
    PROVE  IInv' /\ AdminStep
<1> PICK r \in Change : r = change[h] /\ Sound(r)
    BY DEF IInv, TenancyTypeOK, RequestsSound
<1>1. PICK q \in Change : q = [r EXCEPT !.step = s] /\ Sound(q) /\ q.step = s
    BY NextStepType
<1>2. change' = [change EXCEPT ![h] = q] /\ UNCHANGED <<tables, changes, workload>>
    BY <1>1 DEF GoOn
<1>3. change' \in [Handlers -> Change] /\ RequestsSound'
      /\ change'[h] = q /\ \A g \in Handlers : g # h => change'[g] = change[g]
    BY <1>1, <1>2, OneRequest DEF IInv
<1>4. TenancyTypeOK'
    BY <1>2, <1>3 DEF IInv, TenancyTypeOK, tables
<1>5. ReferencesInv'
    BY <1>2, ReferencesKept DEF IInv, UsersKept, There, tables
<1>6. KeysInv'
    BY <1>1, <1>2, <1>3, KeysKept DEF IInv, Replacing, tables
<1> QED
    BY <1>2, <1>3, <1>4, <1>5, <1>6, RolesKept DEF IInv, tables

\* A request ends, and the table of keys stays: what is left to show is about roles.
LEMMA FinishStep ==
    ASSUME IInv, NEW h \in Handlers, Finish(h), key' = key, UsersKept,
           user' \in [Users -> {"new", "active", "inactive", "gone"}],
           organization' \in [Organizations -> {"new", "active", "inactive"}],
           role' \in [Organizations -> [Users -> Roles \cup {"none"}]],
           \A o \in Organizations, u \in Users : role'[o][u] # "none" => role[o][u] # "none" \/ There(u)'
    PROVE  IInv'
<1>1. change' = [change EXCEPT ![h] = NoChange] /\ UNCHANGED <<changes, workload>>
    BY DEF Finish
<1>2. change' \in [Handlers -> Change] /\ RequestsSound'
      /\ change'[h] = NoChange /\ \A g \in Handlers : g # h => change'[g] = change[g]
    BY <1>1, NoChangeType, OneRequest DEF IInv
<1>3. TenancyTypeOK'
    BY <1>1, <1>2 DEF IInv, TenancyTypeOK
<1>4. ReferencesInv'
    BY ReferencesKept DEF IInv
<1>5. KeysInv'
    BY <1>2, NoChangeType, KeysKept DEF IInv, Replacing
<1> QED
    BY <1>2, <1>3, <1>4, <1>5 DEF IInv

LEMMA RoleUpdate ==
    ASSUME role \in [Organizations -> [Users -> Roles \cup {"none"}]],
           NEW o \in Organizations, NEW u \in Users, NEW v \in Roles \cup {"none"},
           role' = [role EXCEPT ![o][u] = v]
    PROVE  /\ role' \in [Organizations -> [Users -> Roles \cup {"none"}]]
           /\ role'[o][u] = v
           /\ \A p \in Organizations, w \in Users : p # o \/ w # u => role'[p][w] = role[p][w]
OBVIOUS

\* Adding a membership takes no administrator away.
LEMMA NoAdminGoes ==
    ASSUME \A o \in Organizations, u \in Users : role[o][u] = "ADMIN" => role'[o][u] = "ADMIN"
    PROVE  AdminStep
BY DEF AdminStep, Admins

LEMMA InsertMembershipStep ==
    ASSUME IInv, NEW h \in Handlers, change[h].op \in OnMembers, InsertMembership(h)
    PROVE  IInv' /\ AdminStep
<1> PICK r \in Change : r = change[h] /\ Sound(r)
    BY DEF IInv, TenancyTypeOK, RequestsSound
<1>1. CASE There(r.target) /\ role[r.organization][r.target] = "none"
    <2>1. /\ role' = [role EXCEPT ![r.organization][r.target] = r.role]
          /\ Finish(h) /\ user' = user /\ organization' = organization /\ key' = key
        BY <1>1 DEF InsertMembership
    <2>2. r.organization \in Organizations /\ r.target \in Users /\ r.role \in Roles
        BY DEF Sound, Change
    <2>3. /\ role' \in [Organizations -> [Users -> Roles \cup {"none"}]]
          /\ \A p \in Organizations, w \in Users :
                 p # r.organization \/ w # r.target => role'[p][w] = role[p][w]
        BY <2>1, <2>2, RoleUpdate DEF IInv, TenancyTypeOK
    <2>4. AdminStep
        BY <1>1, <2>3, NoAdminGoes
    <2>5. There(r.target)'
        BY <1>1, <2>1 DEF There
    <2>6. IInv'
        BY <2>1, <2>3, <2>5, FinishStep DEF IInv, TenancyTypeOK, UsersKept, There
    <2> QED
        BY <2>4, <2>6
<1>2. CASE ~(There(r.target) /\ role[r.organization][r.target] = "none")
    BY <1>2, RefuseStep DEF InsertMembership
<1> QED
    BY <1>1, <1>2

\* An administrator who acts on another is one himself, or the step is stale; one who leaves
\* has counted another, or the step is stale.
LEMMA WriteMembershipStep ==
    ASSUME IInv, NEW h \in Handlers, change[h].op \in OnOthers \cup OnOneself, change[h].step = "write",
           NEW v \in Roles \cup {"none"}, WriteMembership(h, v)
    PROVE  IInv' /\ AdminStep
<1> DEFINE r == change[h]
<1>1. CASE role[r.organization][r.target] # "none"
    <2>1. /\ role' = [role EXCEPT ![r.organization][r.target] = v]
          /\ Finish(h) /\ user' = user /\ organization' = organization /\ key' = key
        BY <1>1 DEF WriteMembership
    <2>2. r.organization \in Organizations /\ r.target \in Users /\ r.caller \in Users
        BY DEF IInv, RequestsSound, Sound, OnMembers
    <2>3. /\ r.op \in OnOthers => r.caller # r.target
          /\ r.op \in OnOneself => Cardinality(r.seen) # 1
        BY DEF IInv, RequestsSound, Sound
    <2>4. r.op # "idle" /\ change'[h].op = "idle"
        BY <2>1, NoChangeType DEF Finish, IInv, TenancyTypeOK, OnOthers, OnOneself
    <2>5. /\ role' \in [Organizations -> [Users -> Roles \cup {"none"}]]
          /\ \A p \in Organizations, w \in Users :
                 p # r.organization \/ w # r.target => role'[p][w] = role[p][w]
        BY <2>1, <2>2, RoleUpdate DEF IInv, TenancyTypeOK
    <2>6. ASSUME ~ActsOnStaleData(h), NEW o \in Organizations, Admins(o) # {}
          PROVE  Admins(o)' # {}
        <3>1. CASE o # r.organization
            BY <2>5, <2>6, <3>1 DEF Admins
        <3>2. CASE o = r.organization /\ r.op \in OnOthers
            <4>1. role[o][r.caller] = "ADMIN"
                BY <2>6, <3>2 DEF ActsOnStaleData, OnOthers
            <4> QED
                BY <2>2, <2>3, <2>5, <3>2, <4>1 DEF Admins
        <3>3. CASE o = r.organization /\ r.op \in OnOneself
            <4>1. r.seen = Admins(o)
                BY <2>6, <3>3 DEF ActsOnStaleData, OnOneself
            <4>2. Admins(o) # {r.target}
                BY <2>3, <3>3, <4>1, FS_Singleton
            <4>3. PICK a \in Admins(o) : a # r.target
                BY <2>6, <4>2
            <4> QED
                BY <2>5, <4>3 DEF Admins
        <3> QED
            BY <3>1, <3>2, <3>3
    <2>7. AdminStep
        BY <2>4, <2>6 DEF AdminStep
    <2> HIDE DEF r
    <2>8. IInv'
        BY <1>1, <2>1, <2>2, <2>5, FinishStep DEF IInv, TenancyTypeOK, UsersKept, There
    <2> QED
        BY <2>7, <2>8
<1>2. CASE ~(role[r.organization][r.target] # "none")
    BY <1>2, RefuseStep DEF WriteMembership
<1> QED
    BY <1>1, <1>2

LEMMA CountAdminsStep ==
    ASSUME IInv, NEW h \in Handlers, change[h].op \in OnOneself, CountAdmins(h)
    PROVE  IInv' /\ AdminStep
<1> DEFINE o == change[h].organization
           S == Admins(o)
<1>1. CASE Cardinality(S) = 1
    BY <1>1, RefuseStep DEF CountAdmins
<1>2. CASE Cardinality(S) # 1
    <2>1. change' = [change EXCEPT ![h] = [change[h] EXCEPT !.step = "write", !.seen = S]]
          /\ UNCHANGED <<tables, changes, workload>>
        BY <1>2 DEF CountAdmins
    <2>2. S \in SUBSET Users
        BY DEF Admins
    <2> HIDE DEF S
    <2>3. PICK q \in Change : q = [change[h] EXCEPT !.step = "write", !.seen = S]
        BY <2>2 DEF IInv, TenancyTypeOK, Change, ChangeSteps
    <2>4. /\ q.op = change[h].op /\ q.step = "write" /\ q.key = change[h].key /\ q.caller = change[h].caller
          /\ q.organization = change[h].organization /\ q.target = change[h].target /\ q.seen = S
        BY <2>3 DEF IInv, TenancyTypeOK, Change
    <2>5. Sound(q)
        BY <1>2, <2>4 DEF IInv, RequestsSound, Sound
    <2>6. change' \in [Handlers -> Change] /\ RequestsSound'
          /\ change'[h] = q /\ \A g \in Handlers : g # h => change'[g] = change[g]
        BY <2>1, <2>3, <2>5, OneRequest DEF IInv
    <2>7. TenancyTypeOK'
        BY <2>1, <2>6 DEF IInv, TenancyTypeOK, tables
    <2>8. ReferencesInv'
        BY <2>1, ReferencesKept DEF IInv, UsersKept, There, tables
    <2>9. KeysInv'
        BY <2>1, <2>4, <2>6, KeysKept DEF IInv, Replacing, tables
    <2> QED
        BY <2>1, <2>6, <2>7, <2>8, <2>9, RolesKept DEF IInv, tables
<1> QED
    BY <1>1, <1>2

LEMMA FindStep ==
    ASSUME IInv, NEW h \in Handlers, change[h].op \notin OnOneself, GoOn(h, "write") \/ Refuse(h)
    PROVE  IInv' /\ AdminStep
BY GoOnStep, RefuseStep DEF ChangeSteps

LEMMA FoundStep ==
    ASSUME IInv, NEW h \in Handlers, NEW o \in Organizations, NEW u \in Users, Found(o, u), Finish(h),
           key' = key, UsersKept, user' \in [Users -> {"new", "active", "inactive", "gone"}], There(u)'
    PROVE  IInv' /\ AdminStep
<1>1. "ADMIN" \in Roles \cup {"none"}
    BY DEF Roles
<1>2. /\ role' \in [Organizations -> [Users -> Roles \cup {"none"}]] /\ role'[o][u] = "ADMIN"
      /\ \A p \in Organizations, w \in Users : p # o \/ w # u => role'[p][w] = role[p][w]
    BY <1>1, RoleUpdate DEF IInv, TenancyTypeOK, Found
<1>3. organization' \in [Organizations -> {"new", "active", "inactive"}]
    BY DEF IInv, TenancyTypeOK, Found
<1>4. AdminStep
    BY <1>2, NoAdminGoes
<1>5. IInv'
    BY <1>2, <1>3, FinishStep
<1> QED
    BY <1>4, <1>5

\* A new key is nobody's predecessor, and stands for none or for a dead one.
LEMMA InsertKeyStep ==
    ASSUME IInv, NEW h \in Handlers, InsertKey(h),
           change[h].op = "create key" \/ Replacing(change[h])
    PROVE  IInv' /\ AdminStep
<1> PICK r \in Change : r = change[h] /\ Sound(r)
    BY DEF IInv, TenancyTypeOK, RequestsSound
<1>1. CASE ~There(r.caller)
    BY <1>1, RefuseStep DEF InsertKey
<1>2. CASE There(r.caller)
    <2>1. PICK k \in Keys :
              /\ key[k].state = "new"
              /\ key' = [key EXCEPT ![k] = [state |-> "active", organization |-> r.organization,
                                           owner |-> r.caller, from |-> r.key]]
              /\ Finish(h) /\ UNCHANGED <<user, organization, role>>
        BY <1>2, RefuseStep DEF InsertKey
    <2>2. r.caller \in Users /\ r.organization \in Organizations /\ (r.key = None \/ r.key \in Keys)
        BY DEF Sound, OnKeys, Replacing
    <2> DEFINE new == [state |-> "active", organization |-> r.organization,
                       owner |-> r.caller, from |-> r.key]
    <2>a. new \in Key
        BY <2>2 DEF Key
    <2>b. new.from = r.key
        OBVIOUS
    <2>3. PICK row \in Key : row = new /\ row.from = r.key
        BY <2>a, <2>b, Zenon
    <2>4. /\ key' \in [Keys -> Key] /\ key'[k] = row
          /\ \A j \in Keys : j # k => key'[j] = key[j]
        BY <2>1, <2>3 DEF IInv, TenancyTypeOK
    <2>5. change' = [change EXCEPT ![h] = NoChange] /\ UNCHANGED <<changes, workload>>
        BY <2>1 DEF Finish
    <2>6. change' \in [Handlers -> Change] /\ RequestsSound'
          /\ change'[h] = NoChange /\ \A g \in Handlers : g # h => change'[g] = change[g]
        BY <2>5, NoChangeType, OneRequest DEF IInv
    <2>7. TenancyTypeOK'
        BY <2>1, <2>4, <2>5, <2>6 DEF IInv, TenancyTypeOK
    <2>8. ReferencesInv'
        BY <1>2, <2>1, <2>2, <2>3, <2>4 DEF IInv, ReferencesInv, ReferencesAreSound, InTable, There
    <2>9. \A j \in Keys : Dead(j) => j # k /\ Dead(j)'
        BY <2>1, <2>4 DEF Dead
    <2>10. r.key = None \/ Dead(r.key)
        BY DEF IInv, KeysInv, Sound
    <2>11. ASSUME NEW j \in Keys, key'[j].from # None
           PROVE  key'[key'[j].from].state \in {"revoked", "gone"}
        <3>1. CASE j = k
            <4>1. key'[j].from = r.key
                BY <2>3, <2>4, <3>1
            <4>2. r.key \in Keys /\ Dead(r.key)
                BY <2>2, <2>10, <2>11, <4>1
            <4> QED
                BY <2>9, <4>1, <4>2 DEF Dead
        <3>2. CASE j # k
            <4>1. PICK i \in Keys : i = key[j].from /\ Dead(i) /\ i = key'[j].from
                BY <2>4, <2>11, <3>2 DEF IInv, KeysInv, TenancyTypeOK, Key
            <4> QED
                BY <2>9, <4>1 DEF Dead
        <3> QED
            BY <3>1, <3>2
    <2>12. ASSUME NEW g \in Handlers, Replacing(change'[g])
           PROVE  key'[change'[g].key].state \in {"revoked", "gone"}
        <3>1. g # h /\ change'[g] = change[g]
            BY <2>6, <2>12, NoChangeType DEF Replacing
        <3>2. PICK i \in Keys : i = change[g].key /\ Dead(i)
            BY <2>12, <3>1 DEF IInv, KeysInv, RequestsSound, Sound, OnKeys, Replacing
        <3>3. key'[i].state \in {"revoked", "gone"}
            BY <2>9, <3>2 DEF Dead
        <3> QED
            BY <3>1, <3>2, <3>3
    <2>13. KeysInv'
        BY <2>11, <2>12 DEF KeysInv, Replacing, Dead
    <2> QED
        BY <2>1, <2>6, <2>7, <2>8, <2>13, RolesKept DEF IInv
<1> QED
    BY <1>1, <1>2

\* The dead stay dead, whatever the handler does next.
LEMMA WriteKeyStep ==
    ASSUME IInv, NEW h \in Handlers, change[h].op \in OnKeys, NEW s \in {"revoked", "gone"}, WriteKey(h, s),
           NEW q \in Change, Sound(q), change' = [change EXCEPT ![h] = q], UNCHANGED <<changes, workload>>,
           Replacing(q) => q.key = change[h].key
    PROVE  IInv' /\ AdminStep
<1> PICK r \in Change : r = change[h] /\ Sound(r)
    BY DEF IInv, TenancyTypeOK, RequestsSound
<1>1. InTable(r.key) /\ r.key \in Keys /\ key' = [key EXCEPT ![r.key].state = s]
      /\ UNCHANGED <<user, organization, role>>
    BY DEF WriteKey, Sound
<1> PICK row \in Key : row = [key[r.key] EXCEPT !.state = s] /\ row.state = s
                        /\ row.from = key[r.key].from /\ row.owner = key[r.key].owner
    BY <1>1 DEF IInv, TenancyTypeOK, Key
<1>2. /\ key' \in [Keys -> Key] /\ key'[r.key].state = s
      /\ \A j \in Keys : /\ key'[j].from = key[j].from /\ key'[j].owner = key[j].owner
                         /\ j # r.key => key'[j] = key[j]
    BY <1>1 DEF IInv, TenancyTypeOK, Key
<1>3. change' \in [Handlers -> Change] /\ RequestsSound'
      /\ change'[h] = q /\ \A g \in Handlers : g # h => change'[g] = change[g]
    BY OneRequest DEF IInv
<1>4. TenancyTypeOK'
    BY <1>1, <1>2, <1>3 DEF IInv, TenancyTypeOK
<1>5. ReferencesInv'
    BY <1>1, <1>2 DEF IInv, ReferencesInv, ReferencesAreSound, InTable, There
<1>6. \A j \in Keys : Dead(j) \/ j = r.key => key'[j].state \in {"revoked", "gone"}
    BY <1>2 DEF Dead
<1>7. ASSUME NEW j \in Keys, key'[j].from # None
      PROVE  key'[key'[j].from].state \in {"revoked", "gone"}
    <2>1. PICK i \in Keys : i = key'[j].from /\ Dead(i)
        BY <1>2, <1>7 DEF IInv, KeysInv, TenancyTypeOK, Key
    <2>2. key'[i].state \in {"revoked", "gone"}
        BY <1>6, <2>1
    <2> QED
        BY <2>1, <2>2
<1>8. ASSUME NEW g \in Handlers, Replacing(change'[g])
      PROVE  key'[change'[g].key].state \in {"revoked", "gone"}
    <2>1. PICK i \in Keys : i = change'[g].key /\ (Dead(i) \/ i = r.key)
        BY <1>1, <1>3, <1>8 DEF IInv, KeysInv, RequestsSound, Sound, OnKeys, Replacing
    <2>2. key'[i].state \in {"revoked", "gone"}
        BY <1>6, <2>1
    <2> QED
        BY <2>1, <2>2
<1>9. KeysInv'
    BY <1>7, <1>8 DEF KeysInv, Replacing, Dead
<1> QED
    BY <1>1, <1>3, <1>4, <1>5, <1>9, RolesKept DEF IInv

-----------------------------------------------------------------------------
(* The operations. *)

LEMMA OperationsAreDistinct ==
    /\ "add" \notin OnOneself /\ "team add" \notin OnOneself
    /\ OnOthers \cap OnOneself = {} /\ OnKeys \cap OnOneself = {} /\ "create key" \notin OnOneself
BY DEF OnOthers, OnOneself, OnKeys

LEMMA AddStep ==
    ASSUME IInv, NEW h \in Handlers, AddMember(h) \/ TeamInviteMember(h)
    PROVE  IInv' /\ AdminStep
<1>1. change[h].op \in OnMembers \ OnOneself
    BY DEF AddMember, TeamInviteMember, At, OnMembers, OnOneself
<1>2. FindStranger(h) \/ InsertMembership(h)
    BY DEF AddMember, TeamInviteMember
<1> QED
    BY <1>1, <1>2, FindStep, InsertMembershipStep DEF FindStranger

LEMMA OthersStep ==
    ASSUME IInv, NEW h \in Handlers,
           \/ RemoveMember(h) \/ TeamRemoveMember(h)
           \/ UpdateMemberRole(h) \/ TeamUpdateMemberRole(h)
    PROVE  IInv' /\ AdminStep
<1>1. change[h].op \in OnOthers
    BY DEF RemoveMember, TeamRemoveMember, UpdateMemberRole, TeamUpdateMemberRole, At, OnOthers
<1>2. \/ FindMember(h)
      \/ change[h].step = "write" /\ (WriteMembership(h, "none") \/ WriteMembership(h, change[h].role))
    BY DEF RemoveMember, TeamRemoveMember, UpdateMemberRole, TeamUpdateMemberRole, At
<1>3. change[h].role \in Roles \cup {"none"}
    BY DEF IInv, TenancyTypeOK, Change
<1>4. change[h].op \notin OnOneself
    BY <1>1, OperationsAreDistinct
<1>5. CASE FindMember(h)
    BY <1>4, <1>5, FindStep DEF FindMember
<1> QED
    BY <1>1, <1>2, <1>3, <1>5, WriteMembershipStep

LEMMA LeaveStep ==
    ASSUME IInv, NEW h \in Handlers, LeaveOrganization(h) \/ TeamLeaveOrganization(h)
    PROVE  IInv' /\ AdminStep
<1>1. change[h].op \in OnOneself
    BY DEF LeaveOrganization, TeamLeaveOrganization, At, OnOneself
<1>2. CountAdmins(h) \/ (change[h].step = "write" /\ WriteMembership(h, "none"))
    BY DEF LeaveOrganization, TeamLeaveOrganization, At
<1> QED
    BY <1>1, <1>2, CountAdminsStep, WriteMembershipStep

LEMMA CreateOrganizationStep ==
    ASSUME IInv, NEW h \in Handlers, CreateOrganization(h)
    PROVE  IInv' /\ AdminStep
<1>1. change[h].caller \in Users
    BY DEF IInv, RequestsSound, Sound, CreateOrganization, At
<1>2. CASE Refuse(h)
    BY <1>2, RefuseStep
<1>3. CASE ~Refuse(h)
    <2>1. PICK u \in Users : u = change[h].caller
        BY <1>1
    <2>2. There(u) /\ Finish(h) /\ user' = user /\ key' = key
        BY <1>3, <2>1 DEF CreateOrganization
    <2>3. PICK o \in Organizations : Found(o, u)
        BY <1>3, <2>1 DEF CreateOrganization
    <2>4. There(u)' /\ UsersKept
        BY <2>2 DEF There, UsersKept
    <2> QED
        BY <2>2, <2>3, <2>4, FoundStep DEF IInv, TenancyTypeOK
<1> QED
    BY <1>2, <1>3

LEMMA SeedStep ==
    ASSUME IInv, NEW h \in Handlers, SeedAdminIfMissing(h)
    PROVE  IInv' /\ AdminStep
<1>1. CASE \E s \in {"write", "find"} : Accept(h, [NoChange EXCEPT !.op = "seed", !.step = s])
    <2>1. PICK s \in {"write", "find"} : Accept(h, [NoChange EXCEPT !.op = "seed", !.step = s])
        BY <1>1
    <2>2. [NoChange EXCEPT !.op = "seed", !.step = s] \in Change
        BY NoChangeType DEF Change, Operations, ChangeSteps
    <2>3. PICK r \in Change : r = [NoChange EXCEPT !.op = "seed", !.step = s]
        BY <2>2
    <2>4. r.op = "seed"
        BY <2>3 DEF NoChange
    <2>5. Sound(r) /\ ~Replacing(r)
        BY <2>4 DEF Sound, Replacing, OnMembers, OnOthers, OnOneself, OnKeys
    <2> QED
        BY <2>1, <2>3, <2>5, AcceptStep
<1>2. CASE Refuse(h)
    BY <1>2, RefuseStep
<1>3. ASSUME NEW o \in Organizations, Found(o, Seeded), Finish(h), key' = key,
             \/ There(Seeded) /\ user' = user
             \/ user[Seeded] = "new" /\ user' = [user EXCEPT ![Seeded] = "active"]
      PROVE  IInv' /\ AdminStep
    <2>1. Seeded \in Users
        BY TenancySetsAssumption
    <2>2. UsersKept /\ There(Seeded)' /\ user' \in [Users -> {"new", "active", "inactive", "gone"}]
        BY <1>3, <2>1 DEF UsersKept, There, IInv, TenancyTypeOK
    <2> QED
        BY <1>3, <2>1, <2>2, FoundStep
<1> QED
    BY <1>1, <1>2, <1>3 DEF SeedAdminIfMissing

LEMMA UpdateOrganizationStep ==
    ASSUME IInv, NEW h \in Handlers, UpdateOrganization(h)
    PROVE  IInv' /\ AdminStep
<1>1. organization' \in [Organizations -> {"new", "active", "inactive"}]
    BY DEF UpdateOrganization, IInv, TenancyTypeOK
<1>2. Finish(h) /\ user' = user /\ role' = role /\ key' = key
    BY DEF UpdateOrganization
<1> QED
    BY <1>1, <1>2, FinishStep, RolesKept DEF IInv, TenancyTypeOK, UsersKept, There

LEMMA UpdateUserStep ==
    ASSUME IInv, NEW u \in Users, NEW isActive \in BOOLEAN, UpdateUser(u, isActive)
    PROVE  IInv' /\ AdminStep
<1>1. UNCHANGED <<organization, role, key, change, changes, workload>>
    BY DEF UpdateUser
<1>2. UsersKept /\ user' \in [Users -> {"new", "active", "inactive", "gone"}]
    BY DEF UpdateUser, UsersKept, There, IInv, TenancyTypeOK
<1>3. TenancyTypeOK' /\ RequestsSound'
    BY <1>1, <1>2 DEF IInv, TenancyTypeOK, RequestsSound, Sound
<1>4. ReferencesInv'
    BY <1>1, <1>2, ReferencesKept DEF IInv
<1>5. KeysInv'
    BY <1>1 DEF IInv, KeysInv, Dead
<1> QED
    BY <1>1, <1>3, <1>4, <1>5, RolesKept DEF IInv

\* The row of a user goes only when no key is theirs, and their memberships go with it.
LEMMA DeleteUserStep ==
    ASSUME IInv, NEW h \in Handlers, DeleteUser(h)
    PROVE  IInv' /\ AdminStep
<1>1. CASE \E u \in Users : Accept(h, [NoChange EXCEPT !.op = "delete", !.target = u])
    <2>1. PICK u \in Users : Accept(h, [NoChange EXCEPT !.op = "delete", !.target = u])
        BY <1>1
    <2>2. PICK r \in Change : r = [NoChange EXCEPT !.op = "delete", !.target = u]
        BY NoChangeType DEF Change, Operations
    <2>3. r.op = "delete" /\ r.target = u
        BY <2>2 DEF NoChange
    <2>4. Sound(r) /\ ~Replacing(r)
        BY <2>3 DEF Sound, Replacing, OnMembers, OnOthers, OnOneself, OnKeys
    <2> QED
        BY <2>1, <2>2, <2>4, AcceptStep
<1>2. CASE Refuse(h)
    BY <1>2, RefuseStep
<1>3. ASSUME change[h].op = "delete", NEW u \in Users, u = change[h].target, There(u), ~OwnsKey(u),
             user' = [user EXCEPT ![u] = "gone"],
             role' = [o \in Organizations |-> [role[o] EXCEPT ![u] = "none"]],
             Finish(h), UNCHANGED <<organization, key>>
      PROVE  IInv' /\ AdminStep
    <2>1. change' = [change EXCEPT ![h] = NoChange] /\ UNCHANGED <<changes, workload>>
        BY <1>3 DEF Finish
    <2>2. change' \in [Handlers -> Change] /\ RequestsSound'
          /\ change'[h] = NoChange /\ \A g \in Handlers : g # h => change'[g] = change[g]
        BY <2>1, NoChangeType, OneRequest DEF IInv
    <2>3. /\ role' \in [Organizations -> [Users -> Roles \cup {"none"}]]
          /\ \A o \in Organizations, w \in Users : role'[o][w] = IF w = u THEN "none" ELSE role[o][w]
        BY <1>3 DEF IInv, TenancyTypeOK
    <2>4. /\ user' \in [Users -> {"new", "active", "inactive", "gone"}]
          /\ \A w \in Users : w # u => user'[w] = user[w]
        BY <1>3 DEF IInv, TenancyTypeOK
    <2>5. TenancyTypeOK'
        BY <1>3, <2>1, <2>2, <2>3, <2>4 DEF IInv, TenancyTypeOK
    <2>6. ReferencesInv'
        BY <1>3, <2>3, <2>4 DEF IInv, ReferencesInv, ReferencesAreSound, InTable, OwnsKey, There
    <2>7. KeysInv'
        BY <1>3, <2>2, NoChangeType, KeysKept DEF IInv, Replacing
    <2>8. AdminStep
        BY <1>3, <2>2, NoChangeType DEF AdminStep, ActsOnStaleData
    <2> QED
        BY <2>2, <2>5, <2>6, <2>7, <2>8 DEF IInv
<1>4. At(h, "delete", "find") => change[h].op = "delete" /\ change[h].target \in Users
    BY DEF At, IInv, RequestsSound, Sound
<1> QED
    BY <1>1, <1>2, <1>3, <1>4 DEF DeleteUser

LEMMA ChangeKeyStep ==
    ASSUME IInv, NEW h \in Handlers, RevokeApiKey(h) \/ DeleteApiKey(h)
    PROVE  IInv' /\ AdminStep
<1>1. change[h].op \in OnKeys /\ change[h].op \notin OnOneself
    BY DEF RevokeApiKey, DeleteApiKey, At, OnKeys, OnOneself
<1>2. CASE FindKey(h)
    BY <1>1, <1>2, FindStep DEF FindKey
<1>3. CASE KeyIsGone(h)
    BY <1>3, RefuseStep DEF KeyIsGone
<1>4. ASSUME NEW s \in {"revoked", "gone"}, WriteKey(h, s), Finish(h)
      PROVE  IInv' /\ AdminStep
    <2>1. change' = [change EXCEPT ![h] = NoChange] /\ UNCHANGED <<changes, workload>>
        BY <1>4 DEF Finish
    <2>2. ~Replacing(NoChange)
        BY NoChangeType DEF Replacing
    <2> QED
        BY <1>1, <1>4, <2>1, <2>2, NoChangeType, WriteKeyStep
<1> QED
    BY <1>2, <1>3, <1>4 DEF RevokeApiKey, DeleteApiKey

LEMMA RegenerateStep ==
    ASSUME IInv, NEW h \in Handlers, CreateApiKey(h) \/ RegenerateApiKey(h)
    PROVE  IInv' /\ AdminStep
<1>1. CASE At(h, "create key", "write") /\ InsertKey(h)
    BY <1>1, InsertKeyStep DEF At
<1>2. CASE At(h, "regenerate key", "replace") /\ InsertKey(h)
    BY <1>2, InsertKeyStep DEF At, Replacing
<1>3. CASE At(h, "regenerate key", "find") /\ FindKey(h)
    BY <1>3, FindStep DEF FindKey, At, OnOneself
<1>4. CASE KeyIsGone(h)
    BY <1>4, RefuseStep DEF KeyIsGone
<1>5. CASE /\ At(h, "regenerate key", "write")
           /\ WriteKey(h, "revoked")
           /\ change' = [change EXCEPT ![h].step = "replace"]
           /\ UNCHANGED <<changes, workload>>
    <2> PICK r \in Change : r = change[h] /\ Sound(r)
        BY DEF IInv, TenancyTypeOK, RequestsSound
    <2>1. r.op = "regenerate key" /\ r.op \in OnKeys /\ r.op \notin OnOneself
        BY <1>5 DEF At, OnKeys, OnOneself
    <2>2. PICK q \in Change : q = [r EXCEPT !.step = "replace"] /\ Sound(q) /\ q.key = r.key
        BY <2>1, NextStepType DEF ChangeSteps
    <2>3. change' = [change EXCEPT ![h] = q]
        BY <1>5, <2>2
    <2> QED
        BY <1>5, <2>1, <2>2, <2>3, WriteKeyStep
<1> QED
    BY <1>1, <1>2, <1>3, <1>4, <1>5 DEF CreateApiKey, RegenerateApiKey

LEMMA CrashStep ==
    ASSUME IInv, NEW h \in Handlers, Crash(h)
    PROVE  IInv' /\ AdminStep
BY RefuseStep DEF Crash

LEMMA AskStep ==
    ASSUME IInv, NEW h \in Handlers, Ask(h)
    PROVE  IInv' /\ AdminStep
<1>1. ASSUME NEW u \in Users, NEW v \in Users, NEW o \in Organizations, NEW as \in Roles,
             NEW op \in {"add", "team add"} \cup OnOthers, op \in OnOthers => v # u,
             Accept(h, ByAdmin(op, u, o, v, as))
      PROVE  IInv' /\ AdminStep
    <2>1. ByAdmin(op, u, o, v, as) \in Change
        BY NoChangeType DEF ByAdmin, Change, Operations, OnOthers
    <2>2. PICK r \in Change : r = ByAdmin(op, u, o, v, as)
        BY <2>1
    <2>3. r.op = op /\ r.caller = u /\ r.organization = o /\ r.target = v /\ r.step = "find"
        BY <2>2 DEF ByAdmin, NoChange
    <2>4. Sound(r) /\ ~Replacing(r)
        BY <1>1, <2>3 DEF Sound, Replacing, OnMembers, OnOthers, OnOneself, OnKeys
    <2> QED
        BY <1>1, <2>2, <2>4, AcceptStep
<1>2. ASSUME NEW u \in Users, NEW o \in Organizations, NEW op \in OnOneself, Accept(h, Leaving(op, u, o))
      PROVE  IInv' /\ AdminStep
    <2>1. Leaving(op, u, o) \in Change
        BY NoChangeType DEF Leaving, ByAdmin, Change, Operations, OnOneself, ChangeSteps, Roles
    <2>2. PICK r \in Change : r = Leaving(op, u, o)
        BY <2>1
    <2>3. r.op = op /\ r.caller = u /\ r.organization = o /\ r.target = u /\ r.seen = {}
        BY <2>2 DEF Leaving, ByAdmin, NoChange
    <2>4. Cardinality({}) # 1
        BY FS_EmptySet
    <2>5. Sound(r) /\ ~Replacing(r)
        BY <1>2, <2>3, <2>4 DEF Sound, Replacing, OnMembers, OnOthers, OnOneself, OnKeys
    <2> QED
        BY <1>2, <2>2, <2>5, AcceptStep
<1>3. ASSUME NEW u \in Users, NEW o \in Organizations, Accept(h, ByAdmin("close", u, o, None, "MEMBER"))
      PROVE  IInv' /\ AdminStep
    <2>1. ByAdmin("close", u, o, None, "MEMBER") \in Change
        BY NoChangeType DEF ByAdmin, Change, Operations, Roles
    <2>2. PICK r \in Change : r = ByAdmin("close", u, o, None, "MEMBER")
        BY <2>1
    <2>3. r.op = "close" /\ r.organization = o
        BY <2>2 DEF ByAdmin, NoChange
    <2>4. Sound(r) /\ ~Replacing(r)
        BY <2>3 DEF Sound, Replacing, OnMembers, OnOthers, OnOneself, OnKeys
    <2> QED
        BY <1>3, <2>2, <2>4, AcceptStep
<1>4. ASSUME NEW u \in Users, Accept(h, [NoChange EXCEPT !.op = "found", !.caller = u])
      PROVE  IInv' /\ AdminStep
    <2>1. PICK r \in Change : r = [NoChange EXCEPT !.op = "found", !.caller = u]
        BY NoChangeType DEF Change, Operations
    <2>2. r.op = "found" /\ r.caller = u
        BY <2>1 DEF NoChange
    <2>3. Sound(r) /\ ~Replacing(r)
        BY <2>2 DEF Sound, Replacing, OnMembers, OnOthers, OnOneself, OnKeys
    <2> QED
        BY <1>4, <2>1, <2>3, AcceptStep
<1>5. ASSUME NEW u \in Users, NEW o \in Organizations,
             Accept(h, [OfKey("create key", u, o, None) EXCEPT !.step = "write"])
      PROVE  IInv' /\ AdminStep
    <2>1. [OfKey("create key", u, o, None) EXCEPT !.step = "write"] \in Change
        BY NoChangeType DEF OfKey, Change, Operations, ChangeSteps
    <2>2. PICK r \in Change : r = [OfKey("create key", u, o, None) EXCEPT !.step = "write"]
        BY <2>1
    <2>3. r.op = "create key" /\ r.caller = u /\ r.organization = o /\ r.key = None
        BY <2>2 DEF OfKey, NoChange
    <2>4. Sound(r) /\ ~Replacing(r)
        BY <2>3 DEF Sound, Replacing, OnMembers, OnOthers, OnOneself, OnKeys
    <2> QED
        BY <1>5, <2>2, <2>4, AcceptStep
<1>6. ASSUME NEW u \in Users, NEW o \in Organizations, NEW k \in Keys, NEW op \in OnKeys,
             Accept(h, OfKey(op, u, o, k))
      PROVE  IInv' /\ AdminStep
    <2>1. OfKey(op, u, o, k) \in Change
        BY NoChangeType DEF OfKey, Change, Operations, OnKeys
    <2>2. PICK r \in Change : r = OfKey(op, u, o, k)
        BY <2>1
    <2>3. r.op = op /\ r.caller = u /\ r.organization = o /\ r.key = k /\ r.step = "find"
        BY <2>2 DEF OfKey, NoChange
    <2>4. Sound(r) /\ ~Replacing(r)
        BY <2>3 DEF Sound, Replacing, OnMembers, OnOthers, OnOneself, OnKeys
    <2> QED
        BY <1>6, <2>2, <2>4, AcceptStep
<1> USE DEF OnOthers, OnOneself, OnKeys
<1>7. ASSUME NEW u \in Users, NEW v \in Users, NEW o \in Organizations, NEW as \in Roles,
             \/ PostMember(h, u, o, v, as) \/ PatchMember(h, u, o, v, as)
             \/ PostTeamMember(h, u, o, v, as) \/ PatchTeamMember(h, u, o, v, as)
             \/ DeleteMember(h, u, o, v) \/ DeleteTeamMember(h, u, o, v)
      PROVE  IInv' /\ AdminStep
    <2>1. CASE PostMember(h, u, o, v, as)
        BY <1>1, <2>1 DEF PostMember
    <2>2. CASE PatchMember(h, u, o, v, as)
        BY <1>1, <2>2 DEF PatchMember
    <2>3. CASE PostTeamMember(h, u, o, v, as)
        BY <1>1, <2>3 DEF PostTeamMember
    <2>4. CASE PatchTeamMember(h, u, o, v, as)
        BY <1>1, <2>4 DEF PatchTeamMember
    <2>5. "MEMBER" \in Roles
        BY DEF Roles
    <2>6. CASE DeleteMember(h, u, o, v)
        BY <1>1, <2>5, <2>6 DEF DeleteMember
    <2>7. CASE DeleteTeamMember(h, u, o, v)
        BY <1>1, <2>5, <2>7 DEF DeleteTeamMember
    <2> QED
        BY <1>7, <2>1, <2>2, <2>3, <2>4, <2>6, <2>7
<1>8. ASSUME NEW u \in Users, NEW o \in Organizations,
             \/ PostLeave(h, u, o) \/ PostTeamLeave(h, u, o)
             \/ PatchOrganization(h, u, o) \/ PostKey(h, u, o)
      PROVE  IInv' /\ AdminStep
    <2>1. CASE PostLeave(h, u, o)
        BY <1>2, <2>1 DEF PostLeave
    <2>2. CASE PostTeamLeave(h, u, o)
        BY <1>2, <2>2 DEF PostTeamLeave
    <2>3. CASE PatchOrganization(h, u, o)
        BY <1>3, <2>3 DEF PatchOrganization
    <2>4. CASE PostKey(h, u, o)
        BY <1>5, <2>4 DEF PostKey
    <2> QED
        BY <1>8, <2>1, <2>2, <2>3, <2>4
<1>9. ASSUME NEW u \in Users, NEW o \in Organizations, NEW k \in Keys,
             PostRevoke(h, u, o, k) \/ DeleteKey(h, u, o, k) \/ PostRegenerate(h, u, o, k)
      PROVE  IInv' /\ AdminStep
    BY <1>6, <1>9 DEF PostRevoke, DeleteKey, PostRegenerate
<1>10. "MEMBER" \in Roles
    BY DEF Roles
<1> QED
    BY <1>4, <1>7, <1>8, <1>9, <1>10 DEF Ask, PostOrganization

LEMMA WorkStep ==
    ASSUME IInv, NEW h \in Handlers, Work(h)
    PROVE  IInv' /\ AdminStep
BY AddStep, OthersStep, LeaveStep, CreateOrganizationStep, UpdateOrganizationStep, SeedStep, DeleteUserStep,
   ChangeKeyStep, RegenerateStep, CrashStep DEF Work

-----------------------------------------------------------------------------
(* The theorems. *)

LEMMA InitInv == TenancyInit => IInv
<1> SUFFICES ASSUME TenancyInit
             PROVE  IInv
    OBVIOUS
<1>1. role \in [Organizations -> [Users -> Roles \cup {"none"}]]
    BY TenancyStartsAssumption DEF TenancyInit, Roles
<1>2. key \in [Keys -> Key] /\ \A k \in Keys : key[k].state = "new" /\ key[k].from = None
    BY DEF TenancyInit, Key
<1>3. change \in [Handlers -> Change] /\ \A h \in Handlers : Sound(change[h]) /\ ~Replacing(change[h])
    BY NoChangeType DEF TenancyInit, Replacing
<1>4. TenancyTypeOK
    BY <1>1, <1>2, <1>3, TenancyBoundAssumption DEF TenancyInit, TenancyTypeOK
<1>5. ReferencesInv
    BY <1>1, <1>2 DEF TenancyInit, ReferencesInv, ReferencesAreSound, InTable, There
<1>6. KeysInv /\ RequestsSound
    BY <1>2, <1>3 DEF KeysInv, RequestsSound
<1> QED
    BY <1>4, <1>5, <1>6 DEF IInv

LEMMA NextInv ==
    ASSUME IInv, [TenancyNext]_tenancyVars
    PROVE  IInv' /\ (AdminStep \/ UNCHANGED tenancyVars)
<1>1. CASE TenancyNext
    BY <1>1, AskStep, WorkStep, UpdateUserStep DEF TenancyNext
<1>2. CASE UNCHANGED tenancyVars
    <2>1. UNCHANGED <<user, organization, role, key, change, changes, workload>>
        BY <1>2 DEF tenancyVars, tables
    <2>2. TenancyTypeOK' /\ RequestsSound' /\ KeysInv'
        BY <2>1 DEF IInv, TenancyTypeOK, RequestsSound, Sound, KeysInv, Dead
    <2>3. ReferencesInv'
        BY <2>1, ReferencesKept DEF IInv, UsersKept, There
    <2> QED
        BY <1>2, <2>2, <2>3 DEF IInv
<1> QED
    BY <1>1, <1>2

LEMMA Inductive == TenancySpec => []IInv
<1>1. IInv /\ [TenancyNext]_tenancyVars => IInv'
    BY NextInv
<1> QED
    BY InitInv, <1>1, PTL DEF TenancySpec

\* Types: a handler never acts for a user, an organisation or a key that it has not looked up,
\* and no statement writes a role or state that its table does not have.
THEOREM TenancyTypeCorrect == TenancySpec => []TenancyTypeOK
<1>1. IInv => TenancyTypeOK
    BY DEF IInv
<1> QED
    BY <1>1, Inductive, PTL

\* The rows of memberships and api_keys refer to users that are there: each INSERT is refused
\* by its foreign key when the user has been deleted since it was looked up.
THEOREM References == TenancySpec => []ReferencesAreSound
<1>1. IInv => ReferencesAreSound
    BY DEF IInv, ReferencesInv
<1> QED
    BY <1>1, Inductive, PTL

\* An organisation loses its last administrator only through a request that is overtaken
\* between its checks and its write, or through the deletion of the user, with any number of
\* handlers and users.
THEOREM LastAdmin == TenancySpec => LastAdminGoesOnStaleData
<1>1. IInv /\ [TenancyNext]_tenancyVars => [AdminStep]_tenancyVars
    BY NextInv
<1> QED
    BY <1>1, Inductive, PTL DEF TenancySpec, LastAdminGoesOnStaleData, AdminStep

\* A regenerated key and its predecessor are never valid together, wherever a handler dies
\* and however many revoke, delete and regenerate the same key.
THEOREM ReplacedKeys == TenancySpec => []ReplacedKeyIsDead
<1>1. IInv => ReplacedKeyIsDead
    BY DEF IInv, KeysInv, ReplacedKeyIsDead, Dead
<1> QED
    BY <1>1, Inductive, PTL
=============================================================================
