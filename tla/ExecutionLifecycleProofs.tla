---------------------- MODULE ExecutionLifecycleProofs ----------------------
(***************************************************************************)
(* More proofs about Executions: quotas stay closed, SUCCESS is final, the  *)
(* pipeline goes through the steps of ExecutionLifecycle, and the attempts  *)
(* of an execution stay within their budget.                                *)
(***************************************************************************)
EXTENDS ExecutionRefinement, ExecutionsProofs

(***************************************************************************)
(* With one worker a quota that is used up stays used up.                   *)
(***************************************************************************)

\* The one worker has read the counters that are in the table, also those of a
\* tenant that has no usage row from its registration.
TallySound(w) ==
    LET t == LogTenant(worker[w].log) IN
    worker[w].pc = "commit" /\ worker[w].tally.present =>
        usage[t].present /\ worker[w].tally.total = usage[t].total

TallyInv == \A w \in Workers : TallySound(w)

LEMMA TallyInit == Init => TallyInv
<1> SUFFICES ASSUME Init PROVE TallyInv
    OBVIOUS
<1>1. \A w \in Workers : worker[w].pc = "idle"
    BY DEF Init, IdleWorker
<1> QED
    BY <1>1 DEF TallyInv, TallySound

LEMMA TallyFrame ==
    ASSUME TypeOK, TallyInv, usage' \in [Tenants -> UsageRow],
           \A t \in Tenants : usage[t].present => usage'[t] = usage[t],
           \A w \in Workers : worker'[w].pc = "commit" =>
              /\ worker[w].pc = "commit"
              /\ worker'[w].tally = worker[w].tally
              /\ worker'[w].log = worker[w].log
    PROVE  TallyInv'
<1>1. ASSUME NEW w \in Workers, worker'[w].pc = "commit", worker'[w].tally.present
      PROVE  /\ usage'[LogTenant(worker'[w].log)].present
             /\ worker'[w].tally.total = usage'[LogTenant(worker'[w].log)].total
    <2>1. /\ worker[w].pc = "commit" /\ worker[w].tally.present
          /\ worker'[w].log = worker[w].log /\ worker'[w].tally = worker[w].tally
        BY <1>1
    <2>2. worker[w].log \in Logs /\ LogTenant(worker[w].log) \in Tenants
        BY <2>1, TenantType DEF TypeOK
    <2> QED
        BY <2>1, <2>2 DEF TallyInv, TallySound
<1>2. \A l : LogTenant(l)' = LogTenant(l)
    BY DEF LogTenant
<1> QED
    BY <1>1 DEF TallyInv, TallySound, LogTenant

QuotasStay == \A t \in Tenants : OverQuota(t) => OverQuota(t)'

LEMMA QuotaFrame ==
    ASSUME \A t \in Tenants : usage[t].present => usage'[t] = usage[t]
    PROVE  QuotasStay
BY DEF QuotasStay, OverQuota

LEMMA TallyNext ==
    ASSUME TypeOK, TallyInv, [Next]_vars, NEW one, Workers = {one}
    PROVE  TallyInv' /\ QuotasStay
<1> USE DEF db, history
<1>0. usage' \in [Tenants -> UsageRow]
    BY TypeNext DEF TypeOK
<1>1. CASE Administer
    <2>1. ASSUME NEW t \in Tenants, GetUsage(t)
          PROVE  \A u \in Tenants : usage[u].present => usage'[u] = usage[u]
        BY <2>1 DEF GetUsage, TypeOK
    <2>2. \A u \in Tenants : usage[u].present => usage'[u] = usage[u]
        BY <1>1, <2>1 DEF Administer, CreateWorkflow, UpdateWorkflow, DeleteWorkflow
    <2>3. worker' = worker
        BY <1>1 DEF Administer, CreateWorkflow, UpdateWorkflow, DeleteWorkflow, GetUsage
    <2> QED
        BY <1>0, <2>2, <2>3, TallyFrame, QuotaFrame
<1>2. ASSUME NEW r \in Requests, Arrive(r) \/ Serve(r) PROVE TallyInv' /\ QuotasStay
    <2>1. usage' = usage /\ worker' = worker
        BY <1>2 DEF Arrive, StartWebhook, StartRetry, StartCancel,
                    Serve, InsertLog, CommitRetry, CommitCancel, Publish, AbortRequest
    <2> QED
        BY <1>0, <2>1, TallyFrame, QuotaFrame
<1>3. ASSUME NEW w \in Workers, usage' = usage, worker'[w].pc # "commit",
             \A v \in Workers : v = w
      PROVE  TallyInv' /\ QuotasStay
    BY <1>0, <1>3, TallyFrame, QuotaFrame
<1>4. \A v, w \in Workers : v = w
    OBVIOUS
<1>5. ASSUME NEW w \in Workers, Rest(w), usage' = usage PROVE TallyInv' /\ QuotasStay
    <2>1. worker'[w].pc = "idle"
        BY <1>5 DEF Rest, IdleWorker, TypeOK
    <2> QED
        BY <1>3, <1>4, <1>5, <2>1
<1>6. ASSUME NEW w \in Workers, Take(w) PROVE TallyInv' /\ QuotasStay
    <2>1. ASSUME NEW l \in Logs, NEW k \in 0..MaxRetries, Fetch(w, l, k)
          PROVE  usage' = usage /\ worker'[w].pc # "commit"
        BY <2>1 DEF Fetch, IdleWorker, TypeOK
    <2>2. ASSUME NEW l \in Logs, NEW k \in 0..MaxRetries, Discard(w, l, k)
          PROVE  usage' = usage /\ worker'[w].pc # "commit"
        BY <2>2 DEF Discard
    <2> QED
        BY <1>3, <1>4, <1>6, <2>1, <2>2 DEF Take
<1>7. ASSUME NEW w \in Workers, Mark(w) \/ Load(w) PROVE TallyInv' /\ QuotasStay
    <2>1. Mark(w) => worker'[w].pc = "load" /\ usage' = usage
        BY DEF Mark, TypeOK, Worker
    <2>2. Load(w) => worker'[w].pc = "run" /\ usage' = usage
        BY DEF Load, TypeOK, Worker
    <2> QED
        BY <1>3, <1>4, <1>7, <2>1, <2>2
<1>8. ASSUME NEW w \in Workers, Tally(w) PROVE TallyInv' /\ QuotasStay
    <2>1. /\ worker'[w].tally = usage[LogTenant(worker[w].log)]
          /\ worker'[w].log = worker[w].log /\ usage' = usage
        BY <1>8 DEF Tally, TypeOK, Worker
    <2>2. TallyInv'
        BY <1>4, <2>1 DEF TallyInv, TallySound, LogTenant
    <2> QED
        BY <2>1, <2>2, QuotaFrame
<1>9. ASSUME NEW w \in Workers, Commit(w) PROVE TallyInv' /\ QuotasStay
    <2>0. PICK t \in Tenants : t = LogTenant(worker[w].log)
        BY <1>9, TenantType DEF Commit, TypeOK
    <2>1. /\ worker[w].runs \in BOOLEAN /\ worker[w].tally \in UsageRow
          /\ usage[t] \in UsageRow
        BY DEF TypeOK, Worker
    <2>2. usage'[t] = IncrementUsage(usage[t], worker[w].tally, worker[w].runs)
        BY <1>9, <2>0 DEF Commit, TypeOK
    <2>3. \A u \in Tenants : u # t => usage'[u] = usage[u]
        BY <1>9, <2>0 DEF Commit, TypeOK
    <2>4. worker[w].tally.present => worker[w].tally.total = usage[t].total
        BY <1>9, <2>0 DEF Commit, TallyInv, TallySound
    <2>5. OverQuota(t) => OverQuota(t)'
        <3>1. usage'[t].present = usage[t].present /\ usage'[t].total >= usage[t].total
            BY <2>1, <2>2, <2>4 DEF IncrementUsage, UsageRow
        <3>2. usage'[t].total \in Nat /\ usage[t].total \in Nat
            BY <1>0, <2>1 DEF UsageRow
        <3> QED
            BY <3>1, <3>2, BoundsAssumption DEF OverQuota
    <2>6. QuotasStay
        BY <2>3, <2>5 DEF QuotasStay, OverQuota
    <2>7. worker'[w].pc = "idle"
        BY <1>9 DEF Commit, Rest, IdleWorker, TypeOK
    <2>8. TallyInv'
        BY <1>4, <2>7 DEF TallyInv, TallySound
    <2> QED
        BY <2>6, <2>8
<1>10. ASSUME NEW w \in Workers, Republish(w) \/ Abandon(w) \/ CrashWorker(w)
       PROVE  TallyInv' /\ QuotasStay
    BY <1>5, <1>10 DEF Republish, Abandon, CrashWorker
<1>11. ASSUME NEW r \in Requests, CrashRequest(r) PROVE TallyInv' /\ QuotasStay
    BY <1>0, <1>11, TallyFrame, QuotaFrame DEF CrashRequest
<1>12. CASE UNCHANGED vars
    BY <1>0, <1>12, TallyFrame, QuotaFrame DEF vars
<1> QED
    BY <1>1, <1>2, <1>6, <1>7, <1>8, <1>9, <1>10, <1>11, <1>12
       DEF Next, Work, Fault

\* With one worker process no step reopens a quota that is used up.
THEOREM ClosedQuotas == Spec => SerialQuotaStaysClosed
<1>1. CASE Cardinality(Workers) = 1
    <2>1. PICK one : Workers = {one}
        BY <1>1, WorkersAssumption, FS_Singleton
    <2>2. TypeOK /\ TallyInv /\ [Next]_vars => TallyInv' /\ QuotasStay
        BY <2>1, TallyNext
    <2>3. QuotasStay =>
             [Cardinality(Workers) = 1 =>
                 \A t \in Tenants : OverQuota(t) => OverQuota(t)']_vars
        BY DEF QuotasStay
    <2> QED
        BY <2>2, <2>3, TypeInit, TypeNext, TallyInit, PTL DEF Spec, SerialQuotaStaysClosed
<1>2. CASE Cardinality(Workers) # 1
    <2>1. [Next]_vars =>
             [Cardinality(Workers) = 1 =>
                 \A t \in Tenants : OverQuota(t) => OverQuota(t)']_vars
        BY <1>2
    <2> QED
        BY <2>1, PTL DEF Spec, SerialQuotaStaysClosed
<1> QED
    BY <1>1, <1>2

(***************************************************************************)
(* SUCCESS is final.                                                        *)
(***************************************************************************)

Inserting(r) == request[r].op = "webhook" /\ request[r].pc = "commit"

\* The row that a webhook handler inserts is not there yet, and is nobody's.
InsertInv ==
    \A r \in Requests : Inserting(r) =>
        /\ request[r].log \in born
        /\ request[r].log \notin rows
        /\ retried[request[r].log] = 0

LEMMA InsertFrame ==
    ASSUME TypeOK, InsertInv, rows' \subseteq rows, born' = born,
           \A l \in Logs \ rows : retried'[l] = retried[l],
           \A r \in Requests : Inserting(r)' => Inserting(r) /\ request'[r].log = request[r].log
    PROVE  InsertInv'
<1> SUFFICES ASSUME NEW r \in Requests, Inserting(r)'
             PROVE  /\ request'[r].log \in born'
                    /\ request'[r].log \notin rows'
                    /\ retried'[request'[r].log] = 0
    BY DEF InsertInv
<1>1. Inserting(r) /\ request'[r].log = request[r].log
    OBVIOUS
<1>2. request[r].log \in Logs
    BY <1>1 DEF InsertInv, TypeOK
<1> QED
    BY <1>1, <1>2 DEF InsertInv

\* What the steps of one handler do to the record of that handler.
LEMMA HandlerSteps ==
    ASSUME TypeOK, NEW r \in Requests
    PROVE  /\ Reply(r) => /\ request'[r] = IdleRequest
                          /\ \A s \in Requests : s # r => request'[s] = request[s]
           /\ Advance(r) => /\ request'[r].pc = "publish"
                            /\ request'[r].op = request[r].op
                            /\ request'[r].log = request[r].log
                            /\ \A s \in Requests : s # r => request'[s] = request[s]
           /\ \A op, l : Handle(r, op, l) =>
                            /\ request'[r].pc = "commit"
                            /\ request'[r].op = op
                            /\ request'[r].log = l
                            /\ \A s \in Requests : s # r => request'[s] = request[s]
BY DEF Reply, Advance, Handle, TypeOK, Request

LEMMA InsertNext == TypeOK /\ AloneInv /\ InsertInv /\ [Next]_vars => InsertInv'
<1> SUFFICES ASSUME TypeOK, AloneInv, InsertInv, [Next]_vars PROVE InsertInv'
    OBVIOUS
<1> USE DEF db, history
<1>1. CASE Administer
    BY <1>1, InsertFrame
       DEF Administer, CreateWorkflow, UpdateWorkflow, DeleteWorkflow, GetUsage, Inserting
<1>2. ASSUME NEW r \in Requests, NEW l \in Logs, StartWebhook(r, l) PROVE InsertInv'
    <2>1. NoTask(l) /\ l \notin rows
        BY <1>2 DEF StartWebhook, AloneInv, TypeOK
    <2>2. /\ request'[r].log = l
          /\ \A s \in Requests : s # r => request'[s] = request[s]
        BY <1>2, HandlerSteps DEF StartWebhook
    <2>3. rows' = rows /\ retried' = retried /\ born' = born \cup {l}
        BY <1>2 DEF StartWebhook
    <2>4. ASSUME NEW s \in Requests, Inserting(s)'
          PROVE  /\ request'[s].log \in born'
                 /\ request'[s].log \notin rows'
                 /\ retried'[request'[s].log] = 0
        BY <2>1, <2>2, <2>3, <2>4 DEF NoTask, InsertInv, Inserting
    <2> QED
        BY <2>4 DEF InsertInv
<1>3. ASSUME NEW r \in Requests, NEW l \in Logs, StartRetry(r, l) \/ StartCancel(r, l)
      PROVE  InsertInv'
    <2>1. /\ ~Inserting(r)'
          /\ \A s \in Requests : s # r => request'[s] = request[s]
        BY <1>3, HandlerSteps DEF StartRetry, StartCancel, Inserting
    <2>2. \A x \in Logs \ rows : retried'[x] = retried[x]
        BY <1>3 DEF StartRetry, StartCancel, TypeOK
    <2>3. rows' = rows /\ born' = born
        BY <1>3 DEF StartRetry, StartCancel
    <2> QED
        BY <2>1, <2>2, <2>3, InsertFrame DEF Inserting
<1>4. ASSUME NEW r \in Requests, InsertLog(r) PROVE InsertInv'
    <2> DEFINE l == request[r].log
    <2>1. l \in Logs /\ retried[l] = 0 /\ Accepting(r, l)
        BY <1>4 DEF InsertLog, InsertInv, Inserting, Accepting, TypeOK
    <2>2. \A s \in Requests : Accepting(s, l) => s = r
        BY <2>1 DEF AloneInv, OneTask
    <2>3. /\ ~Inserting(r)'
          /\ \A s \in Requests : s # r => request'[s] = request[s]
        BY <1>4, HandlerSteps DEF InsertLog, Inserting
    <2>4. born' = born /\ retried' = retried /\ rows' = rows \cup {l}
        BY <1>4 DEF InsertLog
    <2>5. ASSUME NEW s \in Requests, Inserting(s)'
          PROVE  /\ request'[s].log \in born'
                 /\ request'[s].log \notin rows'
                 /\ retried'[request'[s].log] = 0
        <3>1. s # r /\ request'[s] = request[s] /\ Inserting(s)
            BY <2>3, <2>5 DEF Inserting
        <3>2. request[s].log # l
            BY <2>2, <3>1 DEF Inserting, Accepting
        <3> QED
            BY <2>4, <3>1, <3>2 DEF InsertInv
    <2> QED
        BY <2>5 DEF InsertInv
<1>5. ASSUME NEW r \in Requests,
             CommitRetry(r) \/ CommitCancel(r) \/ Publish(r) \/ AbortRequest(r) \/ CrashRequest(r)
      PROVE  InsertInv'
    <2>1. Reply(r) \/ Advance(r)
        BY <1>5 DEF CommitRetry, CommitCancel, Publish, AbortRequest, CrashRequest
    <2>2. /\ ~Inserting(r)'
          /\ \A s \in Requests : s # r => request'[s] = request[s]
        BY <2>1, HandlerSteps DEF Inserting, IdleRequest
    <2>3. rows' = rows /\ born' = born /\ retried' = retried
        BY <1>5 DEF CommitRetry, CommitCancel, Publish, AbortRequest, CrashRequest
    <2> QED
        BY <2>2, <2>3, InsertFrame DEF Inserting
<1>6. ASSUME NEW w \in Workers, Take(w) \/ Work(w) \/ CrashWorker(w) PROVE InsertInv'
    <2>1. rows' = rows /\ born' = born /\ retried' = retried /\ request' = request
        BY <1>6 DEF Take, Fetch, Discard, Work, Mark, Load, Tally, Republish, Commit, Abandon,
                    CrashWorker
    <2> QED
        BY <2>1, InsertFrame DEF Inserting
<1>7. CASE UNCHANGED vars
    BY <1>7, InsertFrame DEF vars, Inserting
<1> QED
    BY <1>1, <1>2, <1>3, <1>4, <1>5, <1>6, <1>7 DEF Next, Arrive, Serve, Fault

\* No message, worker or webhook handler has a SUCCESS that nobody retried.
Untouched(l) ==
    /\ ~Queued(l)
    /\ \A w \in Workers : ~Running(w, l)
    /\ \A r \in Requests : ~Accepting(r, l)

SettledAt(l) ==
    l \in rows /\ retried[l] = 0 /\ log[l].status = "SUCCESS" => Untouched(l)

SettledInv == \A l \in Logs : SettledAt(l)

\* What SuccessIsFinal says of one execution.
FinalAt(l) ==
    \/ log[l].status # "SUCCESS"
    \/ retried[l] > 0
    \/ \E r \in Requests : request[r].log = l /\ request[r].op = "cancel"
    \/ log'[l] = log[l]

LEMMA SettledFrame ==
    ASSUME NEW l \in Logs, SettledAt(l),
           l \in rows' => l \in rows,
           retried'[l] = 0 => retried[l] = 0,
           log'[l].status = "SUCCESS" => log[l].status = "SUCCESS",
           Queued(l)' => Queued(l),
           \A w \in Workers : Running(w, l)' => Running(w, l),
           \A r \in Requests : request'[r].log = l =>
              request'[r].op = "cancel" \/ (request'[r].op = request[r].op /\ request[r].log = l)
    PROVE  SettledAt(l)'
BY DEF SettledAt, Untouched, Accepting

LEMMA FlushStatus ==
    ASSUME NEW row, NEW seen, NEW new
    PROVE  Flush(row, seen, new).status \in {row.status, new.status}
BY DEF Flush, Column

LEMMA SettledInit == Init => InsertInv /\ SettledInv
<1> SUFFICES ASSUME Init PROVE InsertInv /\ SettledInv
    OBVIOUS
<1>1. \A r \in Requests : request[r].op = "none"
    BY DEF Init, IdleRequest
<1> QED
    BY <1>1 DEF Init, InsertInv, Inserting, SettledInv, SettledAt

LEMMA SettledNext ==
    ASSUME TypeOK, AloneInv, InsertInv, SettledInv, [Next]_vars
    PROVE  SettledInv' /\ \A l \in rows : FinalAt(l)
<1> USE DEF db, history
<1>0. SUFFICES ASSUME NEW x \in Logs
               PROVE  SettledAt(x)' /\ (x \in rows => FinalAt(x))
    BY DEF SettledInv, TypeOK
<1> DEFINE Goal == SettledAt(x)' /\ (x \in rows => FinalAt(x))
<1>1. SettledAt(x) /\ x # NoLog
    BY NoLogAssumption DEF SettledInv
<1>2. ASSUME NEW r \in Requests, Reply(r) \/ Advance(r)
      PROVE  \A s \in Requests : request'[s].log = x =>
                request'[s].op = request[s].op /\ request[s].log = x
    BY <1>1, <1>2, HandlerSteps, IdleTypes
<1>3. ASSUME NEW w \in Workers, Rest(w) PROVE \A v \in Workers : Running(v, x)' => Running(v, x)
    BY <1>1, <1>3, IdleTypes DEF Rest, Running, TypeOK
<1>4. CASE Administer
    BY <1>1, <1>4, SettledFrame
       DEF Administer, CreateWorkflow, UpdateWorkflow, DeleteWorkflow, GetUsage, FinalAt,
           Running, Queued
<1>5. ASSUME NEW r \in Requests, NEW l \in Logs, StartWebhook(r, l) PROVE Goal
    <2>1. l \notin rows /\ rows' = rows /\ log' = log /\ queue' = queue /\ worker' = worker
          /\ retried' = retried
        BY <1>5 DEF StartWebhook, TypeOK
    <2>2. CASE x = l
        BY <2>1, <2>2 DEF SettledAt
    <2>3. CASE x # l
        <3>1. \A s \in Requests : request'[s].log = x => request'[s] = request[s]
            BY <1>5, <2>3, HandlerSteps DEF StartWebhook
        <3> QED
            BY <1>1, <2>1, <3>1, SettledFrame DEF FinalAt, Running, Queued
    <2> QED
        BY <2>2, <2>3
<1>6. ASSUME NEW r \in Requests, NEW l \in Logs, StartRetry(r, l) PROVE Goal
    <2>1. /\ rows' = rows /\ log' = log /\ queue' = queue /\ worker' = worker
          /\ retried'[l] # 0 /\ (x # l => retried'[x] = retried[x])
        BY <1>6 DEF StartRetry, TypeOK
    <2>2. CASE x = l
        BY <2>1, <2>2 DEF SettledAt, FinalAt
    <2>3. CASE x # l
        <3>1. \A s \in Requests : request'[s].log = x => request'[s] = request[s]
            BY <1>6, <2>3, HandlerSteps DEF StartRetry
        <3> QED
            BY <1>1, <2>1, <2>3, <3>1, SettledFrame DEF FinalAt, Running, Queued
    <2> QED
        BY <2>2, <2>3
<1>7. ASSUME NEW r \in Requests, NEW l \in Logs, StartCancel(r, l) PROVE Goal
    <2>1. /\ rows' = rows /\ log' = log /\ queue' = queue /\ worker' = worker
          /\ retried' = retried
        BY <1>7 DEF StartCancel
    <2>2. \A s \in Requests : request'[s].op = "cancel" \/ request'[s] = request[s]
        BY <1>7, HandlerSteps DEF StartCancel
    <2> QED
        BY <1>1, <2>1, <2>2, SettledFrame DEF FinalAt, Running, Queued
<1>8. ASSUME NEW r \in Requests, InsertLog(r) PROVE Goal
    <2>1. request[r].log \notin rows /\ request[r].log \in Logs
        BY <1>8 DEF InsertLog, InsertInv, Inserting, TypeOK
    <2>2. log' = [log EXCEPT ![request[r].log] = NewRow] /\ rows' = rows \cup {request[r].log}
          /\ queue' = queue /\ worker' = worker /\ retried' = retried /\ Advance(r)
        BY <1>8 DEF InsertLog
    <2>3. CASE x = request[r].log
        <3>1. log'[x].status = "PENDING"
            BY <2>1, <2>2, <2>3 DEF TypeOK, NewRow
        <3> QED
            BY <2>1, <2>3, <3>1 DEF SettledAt
    <2>4. CASE x # request[r].log
        <3>1. log'[x] = log[x] /\ (x \in rows' => x \in rows)
            BY <2>2, <2>4 DEF TypeOK
        <3> QED
            BY <1>1, <1>2, <2>2, <3>1, SettledFrame DEF FinalAt, Running, Queued
    <2> QED
        BY <2>3, <2>4
<1>9. ASSUME NEW r \in Requests, CommitRetry(r) PROVE Goal
    <2>1. /\ rows' = rows /\ queue' = queue /\ worker' = worker /\ retried' = retried /\ Advance(r)
        BY <1>9 DEF CommitRetry
    <2>2. CASE x = request[r].log
        <3>1. retried[x] > 0
            BY <1>9, <2>2 DEF CommitRetry, AloneInv
        <3> QED
            BY <2>1, <3>1 DEF SettledAt, FinalAt, TypeOK
    <2>3. CASE x # request[r].log
        <3>1. log'[x] = log[x]
            BY <1>9, <2>3 DEF CommitRetry, TypeOK
        <3> QED
            BY <1>1, <1>2, <2>1, <3>1, SettledFrame DEF FinalAt, Running, Queued
    <2> QED
        BY <2>2, <2>3
<1>10. ASSUME NEW r \in Requests, CommitCancel(r) PROVE Goal
    <2>1. /\ rows' = rows /\ queue' = queue /\ worker' = worker /\ retried' = retried /\ Reply(r)
          /\ request[r].op = "cancel"
        BY <1>10 DEF CommitCancel
    <2>2. log'[x].status = "SUCCESS" => log[x].status = "SUCCESS"
        <3>1. CASE x = request[r].log
            <4>1. log'[x] = Flush(log[x], request[r].seen, AsCancelled(request[r].seen))
                BY <1>10, <3>1 DEF CommitCancel, TypeOK
            <4>2. AsCancelled(request[r].seen).status = "FAILED"
                BY DEF AsCancelled
            <4> QED
                BY <4>1, <4>2, FlushStatus
        <3>2. CASE x # request[r].log
            BY <1>10, <3>2 DEF CommitCancel, TypeOK
        <3> QED
            BY <3>1, <3>2
    <2>3. x # request[r].log => log'[x] = log[x]
        BY <1>10 DEF CommitCancel, TypeOK
    <2>4. SettledAt(x)'
        BY <1>1, <1>2, <2>1, <2>2, SettledFrame DEF Running, Queued
    <2> QED
        BY <2>1, <2>3, <2>4 DEF FinalAt
<1>11. ASSUME NEW r \in Requests, Publish(r) PROVE Goal
    <2> DEFINE l == request[r].log
    <2>1. /\ rows' = rows /\ log' = log /\ worker' = worker /\ retried' = retried /\ Reply(r)
          /\ l \in rows /\ Enqueue(l, 0) /\ request[r].op \in {"webhook", "retry"}
        BY <1>11 DEF Publish, AloneInv
    <2>2. CASE x = l
        <3>1. ~(retried[x] = 0 /\ log[x].status = "SUCCESS")
            BY <1>1, <2>1, <2>2 DEF SettledAt, Untouched, Accepting, AloneInv
        <3> QED
            BY <2>1, <3>1 DEF SettledAt, FinalAt
    <2>3. CASE x # l
        <3>1. queue'[x] = queue[x]
            BY <2>1, <2>3 DEF Enqueue, TypeOK
        <3> QED
            BY <1>1, <1>2, <2>1, <3>1, SettledFrame DEF FinalAt, Running, Queued
    <2> QED
        BY <2>2, <2>3
<1>12. ASSUME NEW r \in Requests, AbortRequest(r) \/ CrashRequest(r) PROVE Goal
    <2>1. /\ rows' = rows /\ log' = log /\ worker' = worker /\ retried' = retried /\ Reply(r)
          /\ queue' = queue
        BY <1>12 DEF AbortRequest, CrashRequest
    <2> QED
        BY <1>1, <1>2, <2>1, SettledFrame DEF FinalAt, Running, Queued
<1>13. ASSUME NEW w \in Workers, NEW l \in Logs, NEW k \in 0..MaxRetries,
              Fetch(w, l, k) \/ Discard(w, l, k)
       PROVE  Goal
    <2>1. /\ rows' = rows /\ log' = log /\ retried' = retried /\ request' = request
          /\ Dequeue(l, k)
        BY <1>13 DEF Fetch, Discard
    <2>2. Queued(l) /\ (x # l => queue'[x] = queue[x])
        BY <2>1 DEF Dequeue, Queued, TypeOK
    <2>3. CASE x = l
        BY <1>1, <2>1, <2>2, <2>3 DEF SettledAt, Untouched, FinalAt
    <2>4. CASE x # l
        <3>1. Fetch(w, l, k) => /\ worker'[w].log = l
                                /\ \A v \in Workers : v # w => worker'[v] = worker[v]
            BY DEF Fetch, IdleWorker, TypeOK
        <3>2. Discard(w, l, k) => worker' = worker
            BY DEF Discard
        <3>3. \A v \in Workers : Running(v, x)' => Running(v, x)
            BY <1>13, <2>4, <3>1, <3>2 DEF Running
        <3> QED
            BY <1>1, <2>1, <2>2, <2>4, <3>3, SettledFrame DEF FinalAt, Queued
    <2> QED
        BY <2>3, <2>4
<1>14. ASSUME NEW w \in Workers, Mark(w) \/ Commit(w) PROVE Goal
    <2> DEFINE l == worker[w].log
    <2>1. /\ rows' = rows /\ queue' = queue /\ retried' = retried /\ request' = request
          /\ l \in rows /\ Running(w, l) /\ worker[w].pc # "idle"
        BY <1>14 DEF Mark, Commit, Running
    <2>2. Commit(w) => Rest(w)
        BY DEF Commit
    <2>3. Mark(w) => \A v \in Workers : worker'[v].log = worker[v].log
        BY DEF Mark, TypeOK, Worker
    <2>4. \A v \in Workers : Running(v, x)' => Running(v, x)
        BY <1>3, <1>14, <2>2, <2>3 DEF Running
    <2>5. CASE x # l
        <3>1. log'[x] = log[x]
            BY <1>14, <2>5 DEF Mark, Commit, TypeOK
        <3> QED
            BY <1>1, <2>1, <2>4, <3>1, SettledFrame DEF FinalAt, Queued
    <2>6. CASE x = l /\ retried[x] # 0
        BY <2>1, <2>6 DEF SettledAt, FinalAt, TypeOK
    <2>7. CASE x = l /\ retried[x] = 0
        <3>1. FinalAt(x)
            BY <1>1, <2>1, <2>7 DEF SettledAt, Untouched, FinalAt
        <3>2. OneTask(x)
            BY <2>7 DEF AloneInv
        <3>3. CASE Mark(w)
            <4>1. log'[x].status # "SUCCESS"
                <5>1. log'[x] = Flush(log[x], worker[w].seen, AsMarked(worker[w].seen))
                    BY <2>7, <3>3 DEF Mark, TypeOK
                <5>2. AsMarked(worker[w].seen).status = "PROCESSING"
                    BY DEF AsMarked
                <5>3. log[x].status # "SUCCESS"
                    BY <1>1, <2>1, <2>7 DEF SettledAt, Untouched
                <5> QED
                    BY <5>1, <5>2, <5>3, FlushStatus
            <4> QED
                BY <3>1, <4>1 DEF SettledAt
        <3>4. CASE Commit(w)
            <4>1. ~Queued(x) /\ (\A r \in Requests : ~Accepting(r, x))
                BY <2>1, <2>7, <3>2 DEF OneTask
            <4>2. \A v \in Workers : ~Running(v, x)'
                <5>1. worker'[w].log = NoLog
                    BY <3>4 DEF Commit, Rest, IdleWorker, TypeOK
                <5>2. \A v \in Workers : v # w => ~Running(v, x)
                    BY <2>1, <2>7, <3>2 DEF OneTask
                <5> QED
                    BY <1>1, <2>4, <5>1, <5>2 DEF Running
            <4> QED
                BY <2>1, <3>1, <4>1, <4>2 DEF SettledAt, Untouched, Queued, Accepting
        <3> QED
            BY <1>14, <3>3, <3>4
    <2> QED
        BY <2>5, <2>6, <2>7
<1>15. ASSUME NEW w \in Workers, Load(w) \/ Tally(w) PROVE Goal
    <2>1. /\ rows' = rows /\ queue' = queue /\ retried' = retried /\ request' = request
          /\ log' = log
        BY <1>15 DEF Load, Tally
    <2>2. Load(w) => \A v \in Workers : worker'[v].log = worker[v].log
        BY DEF Load, TypeOK, Worker
    <2>3. Tally(w) => \A v \in Workers : worker'[v].log = worker[v].log
        BY DEF Tally, TypeOK, Worker
    <2> QED
        BY <1>1, <1>15, <2>1, <2>2, <2>3, SettledFrame DEF FinalAt, Queued, Running
<1>16. ASSUME NEW w \in Workers, Republish(w) PROVE Goal
    <2> DEFINE l == worker[w].log
    <2>1. /\ rows' = rows /\ retried' = retried /\ request' = request /\ log' = log
          /\ Rest(w) /\ l \in rows /\ Running(w, l) /\ Enqueue(l, worker[w].retries + 1)
        BY <1>16 DEF Republish, Running
    <2>2. CASE x = l
        BY <1>1, <2>1, <2>2 DEF SettledAt, Untouched, FinalAt
    <2>3. CASE x # l
        <3>1. queue'[x] = queue[x]
            BY <2>1, <2>3 DEF Enqueue, TypeOK
        <3> QED
            BY <1>1, <1>3, <2>1, <3>1, SettledFrame DEF FinalAt, Queued
    <2> QED
        BY <2>2, <2>3
<1>17. ASSUME NEW w \in Workers, Abandon(w) \/ CrashWorker(w) PROVE Goal
    <2>1. /\ rows' = rows /\ retried' = retried /\ request' = request /\ log' = log
          /\ Rest(w) /\ queue' = queue
        BY <1>17 DEF Abandon, CrashWorker
    <2> QED
        BY <1>1, <1>3, <2>1, SettledFrame DEF FinalAt, Queued
<1>18. CASE UNCHANGED vars
    BY <1>1, <1>18, SettledFrame DEF vars, FinalAt, Queued, Running
<1> QED
    BY <1>4, <1>5, <1>6, <1>7, <1>8, <1>9, <1>10, <1>11, <1>12, <1>13, <1>14, <1>15, <1>16,
       <1>17, <1>18
       DEF Next, Arrive, Serve, Take, Work, Fault

\* No step overwrites the SUCCESS of an execution that nobody retries and
\* nobody was cancelling.
THEOREM FinalSuccess == Spec => SuccessIsFinal
<1> DEFINE Step == \A l \in rows : FinalAt(l)
<1>1. TypeOK /\ AloneInv /\ InsertInv /\ SettledInv /\ [Next]_vars => SettledInv' /\ Step
    BY SettledNext
<1>2. Step => [\A l \in rows :
                  \/ log[l].status # "SUCCESS"
                  \/ retried[l] > 0
                  \/ \E r \in Requests : request[r].log = l /\ request[r].op = "cancel"
                  \/ log'[l] = log[l]]_vars
    BY DEF FinalAt
<1> HIDE DEF Step
<1> QED
    BY <1>1, <1>2, TypeInit, TypeNext, AloneInit, AloneNext, SettledInit, InsertNext, PTL
       DEF Spec, SuccessIsFinal

(***************************************************************************)
(* What the logs table shows while nobody retries or cancels.               *)
(***************************************************************************)

NoIntervention == Operations \cap {"retry", "cancel"} = {}

\* What the worker that has an execution knows of its row.
WorkerSound(w, row) ==
    /\ worker[w].pc = "mark" =>
          /\ row.status \in Unfinished
          /\ row.attempts = worker[w].retries
    /\ worker[w].pc \in {"load", "run", "commit"} =>
          /\ row.status = "PROCESSING"
          /\ row.attempts = worker[w].retries + 1
    /\ worker[w].pc \in {"mark", "run", "commit"} => worker[w].seen = row
    /\ worker[w].pc = "commit" /\ ~worker[w].runs => worker[w].retries = MaxRetries

LifeAt(l) ==
    /\ retried[l] = 0
    /\ l \notin born => log[l].attempts = 0
    /\ \A r \in Requests : request[r].log = l =>
          /\ request[r].op = "webhook"
          /\ request[r].pc = "commit" => log[l].attempts = 0
          /\ request[r].pc = "publish" /\ l \in rows =>
                log[l].status = "PENDING" /\ log[l].attempts = 0
    /\ l \in rows => \A k \in 0..MaxRetries : queue[l][k] > 0 =>
          log[l].status \in Unfinished /\ log[l].attempts = k
    /\ l \in rows => \A w \in Workers : worker[w].log = l => WorkerSound(w, log[l])

LifeInv ==
    /\ \A l \in Logs : LifeAt(l)
    /\ \A r \in Requests : request[r].log \in Logs \/ request[r] = IdleRequest

LEMMA LifeInit == Init => LifeInv
<1> SUFFICES ASSUME Init PROVE LifeInv
    OBVIOUS
<1>1. \A w \in Workers : worker[w].log = NoLog
    BY DEF Init, IdleWorker
<1>2. \A r \in Requests : request[r] = IdleRequest /\ request[r].log = NoLog
    BY DEF Init, IdleRequest
<1>3. \A l \in Logs : l # NoLog /\ retried[l] = 0 /\ l \notin rows /\ log[l].attempts = 0
    BY NoLogAssumption DEF Init, NewRow
<1> QED
    BY <1>1, <1>2, <1>3 DEF LifeInv, LifeAt

\* An execution that a step leaves alone, or whose task or row the step ends.
LEMMA LifeFrame ==
    ASSUME TypeOK, NEW l \in Logs, LifeAt(l), log'[l] = log[l], retried'[l] = retried[l],
           l \notin born' => l \notin born,
           l \in rows' => l \in rows,
           queue'[l] = queue[l],
           \A r \in Requests : request'[r].log = l => request'[r] = request[r],
           \A w \in Workers : worker'[w].log = l => worker'[w] = worker[w]
    PROVE  LifeAt(l)'
BY DEF LifeAt, WorkerSound

\* What the steps of one worker do to the record of that worker.
LEMMA WorkerSteps ==
    ASSUME TypeOK, NEW w \in Workers
    PROVE  /\ Rest(w) => /\ worker'[w] = IdleWorker
                         /\ \A v \in Workers : v # w => worker'[v] = worker[v]
           /\ \A l, k : Fetch(w, l, k) =>
                 /\ worker'[w].pc = "mark" /\ worker'[w].log = l
                 /\ worker'[w].retries = k /\ worker'[w].seen = log[l]
                 /\ \A v \in Workers : v # w => worker'[v] = worker[v]
           /\ Mark(w) =>
                 /\ worker'[w].pc = "load" /\ worker'[w].log = worker[w].log
                 /\ worker'[w].retries = worker[w].retries
                 /\ \A v \in Workers : v # w => worker'[v] = worker[v]
           /\ Load(w) =>
                 /\ worker'[w].pc = "run" /\ worker'[w].log = worker[w].log
                 /\ worker'[w].retries = worker[w].retries
                 /\ worker'[w].seen = log[worker[w].log]
                 /\ \A v \in Workers : v # w => worker'[v] = worker[v]
           /\ Tally(w) =>
                 /\ worker'[w].pc = "commit" /\ worker'[w].log = worker[w].log
                 /\ worker'[w].retries = worker[w].retries
                 /\ worker'[w].seen = worker[w].seen
                 /\ worker'[w].runs = worker[w].runs
                 /\ \A v \in Workers : v # w => worker'[v] = worker[v]
<1>1. worker[w] \in Worker /\ worker \in [Workers -> Worker]
    BY DEF TypeOK
<1>2. Rest(w) => /\ worker'[w] = IdleWorker
                 /\ \A v \in Workers : v # w => worker'[v] = worker[v]
    BY <1>1 DEF Rest
<1>3. ASSUME NEW l, NEW k, Fetch(w, l, k)
      PROVE  /\ worker'[w].pc = "mark" /\ worker'[w].log = l
             /\ worker'[w].retries = k /\ worker'[w].seen = log[l]
             /\ \A v \in Workers : v # w => worker'[v] = worker[v]
    BY <1>1, <1>3 DEF Fetch, IdleWorker
<1>4. Mark(w) =>
          /\ worker'[w].pc = "load" /\ worker'[w].log = worker[w].log
          /\ worker'[w].retries = worker[w].retries
          /\ \A v \in Workers : v # w => worker'[v] = worker[v]
    BY <1>1 DEF Mark, Worker
<1>5. Load(w) =>
          /\ worker'[w].pc = "run" /\ worker'[w].log = worker[w].log
          /\ worker'[w].retries = worker[w].retries
          /\ worker'[w].seen = log[worker[w].log]
          /\ \A v \in Workers : v # w => worker'[v] = worker[v]
    BY <1>1 DEF Load, Worker
<1>6. Tally(w) =>
          /\ worker'[w].pc = "commit" /\ worker'[w].log = worker[w].log
          /\ worker'[w].retries = worker[w].retries
          /\ worker'[w].seen = worker[w].seen
          /\ worker'[w].runs = worker[w].runs
          /\ \A v \in Workers : v # w => worker'[v] = worker[v]
    BY <1>1 DEF Tally, Worker
<1> QED
    BY <1>2, <1>3, <1>4, <1>5, <1>6

\* Nobody else has the execution of a worker, of a message or of a handler.
LEMMA OnlyTask ==
    ASSUME AloneInv, LifeInv, NEW l \in Logs
    PROVE  /\ OneTask(l)
           /\ \A w \in Workers : Running(w, l) =>
                 /\ ~Queued(l)
                 /\ \A v \in Workers : Running(v, l) => v = w
                 /\ \A r \in Requests : request[r].log # l
           /\ Queued(l) => /\ \A w \in Workers : ~Running(w, l)
                           /\ \A r \in Requests : request[r].log # l
           /\ \A r \in Requests : request[r].log = l =>
                 /\ ~Queued(l)
                 /\ \A w \in Workers : ~Running(w, l)
                 /\ \A s \in Requests : request[s].log = l => s = r
<1>1. OneTask(l)
    BY DEF AloneInv, LifeInv, LifeAt
<1>2. \A r \in Requests : request[r].log = l => Accepting(r, l)
    BY DEF LifeInv, LifeAt, Accepting
<1> QED
    BY <1>1, <1>2 DEF OneTask

LEMMA LifeNext ==
    ASSUME NoIntervention, TypeOK, AloneInv, InsertInv, LifeInv, [Next]_vars
    PROVE  LifeInv'
<1> USE DEF db, history
<1>0. SUFFICES ASSUME NEW x \in Logs PROVE LifeAt(x)'
    <2>1. \A r \in Requests : request'[r].log \in Logs \/ request'[r] = IdleRequest
        <3>1. ASSUME NEW r \in Requests, NEW l \in Logs, StartWebhook(r, l)
              PROVE  \A s \in Requests : request'[s].log \in Logs \/ request'[s] = IdleRequest
            BY <3>1, HandlerSteps DEF StartWebhook, LifeInv
        <3>2. ASSUME NEW r \in Requests, NEW l \in Logs
              PROVE  ~StartRetry(r, l) /\ ~StartCancel(r, l)
            BY DEF NoIntervention, StartRetry, StartCancel
        <3>3. ASSUME NEW r \in Requests, Reply(r)
              PROVE  \A s \in Requests : request'[s].log \in Logs \/ request'[s] = IdleRequest
            BY <3>3, HandlerSteps DEF LifeInv
        <3>4. ASSUME NEW r \in Requests, Advance(r), request[r].pc = "commit"
              PROVE  \A s \in Requests : request'[s].log \in Logs \/ request'[s] = IdleRequest
            BY <3>4, HandlerSteps DEF LifeInv, IdleRequest
        <3>5. request' = request =>
                 \A s \in Requests : request'[s].log \in Logs \/ request'[s] = IdleRequest
            BY DEF LifeInv
        <3> QED
            BY <3>1, <3>2, <3>3, <3>4, <3>5
               DEF Next, vars, Administer, CreateWorkflow, UpdateWorkflow, DeleteWorkflow, GetUsage,
                   Arrive, Serve, InsertLog, CommitRetry, CommitCancel, Publish, AbortRequest,
                   Take, Fetch, Discard, Work, Mark, Load, Tally, Republish, Commit, Abandon,
                   Fault, CrashWorker, CrashRequest
    <2> QED
        BY <1>0, <2>1 DEF LifeInv, IdleRequest
<1>1. LifeAt(x) /\ x # NoLog
    BY NoLogAssumption DEF LifeInv
<1>2. ASSUME NEW r \in Requests, Reply(r)
      PROVE  \A s \in Requests : request'[s].log = x => request'[s] = request[s]
    BY <1>1, <1>2, HandlerSteps, IdleTypes
<1>3. ASSUME NEW w \in Workers, Rest(w)
      PROVE  \A v \in Workers : worker'[v].log = x => worker'[v] = worker[v]
    BY <1>1, <1>3, WorkerSteps, IdleTypes
<1>4. CASE Administer
    BY <1>1, <1>4, LifeFrame
       DEF Administer, CreateWorkflow, UpdateWorkflow, DeleteWorkflow, GetUsage
<1>5. ASSUME NEW r \in Requests, NEW l \in Logs, StartWebhook(r, l) PROVE LifeAt(x)'
    <2>1. NoTask(l) /\ l \notin rows
        BY <1>5 DEF StartWebhook, AloneInv, TypeOK
    <2>2. /\ rows' = rows /\ log' = log /\ queue' = queue /\ worker' = worker
          /\ retried' = retried /\ born' = born \cup {l}
        BY <1>5 DEF StartWebhook
    <2>3. /\ request'[r].op = "webhook" /\ request'[r].pc = "commit" /\ request'[r].log = l
          /\ \A s \in Requests : s # r => request'[s] = request[s]
        BY <1>5, HandlerSteps DEF StartWebhook
    <2>4. CASE x = l
        <3>1. log[l].attempts = 0
            BY <1>1, <1>5, <2>4 DEF StartWebhook, LifeAt
        <3> QED
            BY <2>1, <2>2, <2>3, <2>4, <3>1 DEF LifeAt, NoTask
    <2>5. CASE x # l
        BY <1>1, <2>2, <2>3, <2>5, LifeFrame
    <2> QED
        BY <2>4, <2>5
<1>6. ASSUME NEW r \in Requests, NEW l \in Logs PROVE ~StartRetry(r, l) /\ ~StartCancel(r, l)
    BY DEF NoIntervention, StartRetry, StartCancel
<1>7. ASSUME NEW r \in Requests PROVE ~CommitRetry(r) /\ ~CommitCancel(r)
    <2>1. request[r].op \in {"webhook", "none"}
        BY DEF LifeInv, LifeAt, IdleRequest
    <2> QED
        BY <2>1 DEF CommitRetry, CommitCancel
<1>8. ASSUME NEW r \in Requests, InsertLog(r) PROVE LifeAt(x)'
    <2>0. PICK l \in Logs : l = request[r].log
        BY <1>8 DEF InsertLog, TypeOK
    <2>1. /\ rows' = rows \cup {l} /\ log' = [log EXCEPT ![l] = NewRow]
          /\ queue' = queue /\ worker' = worker /\ retried' = retried /\ born' = born
        BY <1>8, <2>0 DEF InsertLog
    <2>2. /\ request'[r].op = request[r].op /\ request'[r].pc = "publish" /\ request'[r].log = l
          /\ \A s \in Requests : s # r => request'[s] = request[s]
        BY <1>8, <2>0, HandlerSteps DEF InsertLog
    <2>3. CASE x = l
        <3>1. /\ ~Queued(l)
              /\ \A w \in Workers : ~Running(w, l)
              /\ \A s \in Requests : request[s].log = l => s = r
            BY <2>0, OnlyTask
        <3>2. log'[l].status = "PENDING" /\ log'[l].attempts = 0
            BY <2>1 DEF NewRow, TypeOK
        <3>3. request[r].op = "webhook" /\ retried[l] = 0
            BY <1>1, <1>8, <2>3 DEF InsertLog, LifeAt
        <3> QED
            BY <2>1, <2>2, <2>3, <3>1, <3>2, <3>3 DEF LifeAt, Queued, Running
    <2>4. CASE x # l
        <3>1. log'[x] = log[x]
            BY <2>1, <2>4 DEF TypeOK
        <3> QED
            BY <1>1, <2>1, <2>2, <2>4, <3>1, LifeFrame
    <2> QED
        BY <2>3, <2>4
<1>9. ASSUME NEW r \in Requests, Publish(r) PROVE LifeAt(x)'
    <2>0. PICK l \in Logs : l = request[r].log
        BY <1>9 DEF Publish, TypeOK
    <2>1. /\ rows' = rows /\ log' = log /\ worker' = worker /\ retried' = retried /\ born' = born
          /\ l \in rows /\ Enqueue(l, 0) /\ Reply(r)
        BY <1>9, <2>0 DEF Publish
    <2>2. CASE x = l
        <3>1. ~Queued(l) /\ \A w \in Workers : ~Running(w, l)
            BY <2>0, OnlyTask
        <3>2. log[l].status = "PENDING" /\ log[l].attempts = 0
            BY <1>1, <1>9, <2>0, <2>1, <2>2 DEF LifeAt, Publish
        <3>3. \A k \in 0..MaxRetries : queue'[l][k] > 0 => k = 0
            <4>1. 0 \in 0..MaxRetries
                BY BoundsAssumption
            <4> QED
                BY <2>1, <3>1, <4>1, EnqueueAt, NotQueued
        <3> QED
            BY <1>1, <1>2, <2>1, <2>2, <3>1, <3>2, <3>3 DEF LifeAt, Running, Unfinished
    <2>3. CASE x # l
        <3>1. queue'[x] = queue[x]
            BY <2>1, <2>3 DEF Enqueue, TypeOK
        <3> QED
            BY <1>1, <1>2, <2>1, <3>1, LifeFrame
    <2> QED
        BY <2>2, <2>3
<1>10. ASSUME NEW r \in Requests, AbortRequest(r) \/ CrashRequest(r) PROVE LifeAt(x)'
    <2>1. /\ rows' = rows /\ log' = log /\ worker' = worker /\ retried' = retried /\ Reply(r)
          /\ queue' = queue /\ born' = born
        BY <1>10 DEF AbortRequest, CrashRequest
    <2> QED
        BY <1>1, <1>2, <2>1, LifeFrame
<1>11. ASSUME NEW w \in Workers, NEW l \in Logs, NEW k \in 0..MaxRetries, Fetch(w, l, k)
       PROVE  LifeAt(x)'
    <2>1. /\ rows' = rows /\ log' = log /\ retried' = retried /\ request' = request /\ born' = born
          /\ Dequeue(l, k) /\ l \in rows
        BY <1>11 DEF Fetch
    <2>2. /\ worker'[w].pc = "mark" /\ worker'[w].log = l
          /\ worker'[w].retries = k /\ worker'[w].seen = log[l]
          /\ \A v \in Workers : v # w => worker'[v] = worker[v]
        BY <1>11, WorkerSteps
    <2>3. CASE x = l
        <3>1. queue[l][k] > 0 /\ \A j \in 0..MaxRetries : queue'[l][j] > 0 => queue[l][j] > 0
            BY <2>1, DequeueAt, QueueNat
        <3>2. log[l].status \in Unfinished /\ log[l].attempts = k
            BY <1>1, <2>1, <2>3, <3>1 DEF LifeAt
        <3>3. \A v \in Workers : ~Running(v, l)
            BY <3>1, OnlyTask DEF Queued
        <3>4. \A v \in Workers : worker'[v].log = l => WorkerSound(v, log[l])'
            <4>1. \A v \in Workers : worker'[v].log = l => v = w
                BY <2>2, <3>3 DEF Running
            <4>2. WorkerSound(w, log[l])'
                BY <2>1, <2>2, <3>2 DEF WorkerSound
            <4> QED
                BY <4>1, <4>2
        <3> QED
            BY <1>1, <2>1, <2>3, <3>1, <3>4 DEF LifeAt
    <2>4. CASE x # l
        <3>1. queue'[x] = queue[x]
            BY <2>1, <2>4 DEF Dequeue, TypeOK
        <3> QED
            BY <1>1, <2>1, <2>2, <2>4, <3>1, LifeFrame
    <2> QED
        BY <2>3, <2>4
<1>12. ASSUME NEW w \in Workers, NEW l \in Logs, NEW k \in 0..MaxRetries, Discard(w, l, k)
       PROVE  LifeAt(x)'
    <2>1. /\ rows' = rows /\ log' = log /\ retried' = retried /\ request' = request /\ born' = born
          /\ worker' = worker /\ Dequeue(l, k) /\ l \notin rows
        BY <1>12 DEF Discard
    <2>2. CASE x = l
        BY <1>1, <2>1, <2>2 DEF LifeAt
    <2>3. CASE x # l
        <3>1. queue'[x] = queue[x]
            BY <2>1, <2>3 DEF Dequeue, TypeOK
        <3> QED
            BY <1>1, <2>1, <3>1, LifeFrame
    <2> QED
        BY <2>2, <2>3
<1>13. ASSUME NEW w \in Workers, Mark(w) \/ Load(w) \/ Tally(w) \/ Commit(w) \/ Republish(w)
       PROVE  LifeAt(x)'
    <2>0. PICK l \in Logs : l = worker[w].log
        BY <1>13 DEF Mark, Load, Tally, Commit, Republish, TypeOK
    <2>1. rows' = rows /\ retried' = retried /\ request' = request /\ born' = born
        BY <1>13 DEF Mark, Load, Tally, Commit, Republish
    <2>2. Commit(w) \/ Republish(w) => Rest(w)
        BY DEF Commit, Republish
    <2>3. \A v \in Workers : v # w => worker'[v] = worker[v]
        BY <1>13, <2>2, WorkerSteps
    <2>4. worker'[w].log \in {l, NoLog}
        BY <1>13, <2>0, <2>2, WorkerSteps, IdleTypes
    <2>5. CASE x # l
        <3>1. log'[x] = log[x]
            BY <1>13, <2>0, <2>5 DEF Mark, Load, Tally, Commit, Republish, TypeOK
        <3>2. queue'[x] = queue[x]
            BY <1>13, <2>0, <2>5 DEF Mark, Load, Tally, Commit, Republish, Enqueue, TypeOK
        <3> QED
            BY <1>1, <2>1, <2>3, <2>4, <2>5, <3>1, <3>2, LifeFrame
    <2>6. CASE x = l
        <3>1. /\ ~Queued(x)
              /\ \A v \in Workers : worker[v].log = x => v = w
              /\ \A r \in Requests : request[r].log # x
            BY <2>0, <2>6, OnlyTask DEF Running
        <3>2. \A v \in Workers : v # w => worker'[v].log # x
            BY <2>3, <3>1
        <3>3. retried[x] = 0 /\ (x \in rows => WorkerSound(w, log[x])) /\ x \in born
            <4>1. x \in born
                BY <2>0, <2>6 DEF AloneInv, NoTask, Running
            <4> QED
                BY <1>1, <2>0, <2>6, <4>1 DEF LifeAt
        <3>4. \A k \in 0..MaxRetries : queue[x][k] = 0
            BY <3>1, NotQueued
        <3>5. SUFFICES ASSUME x \in rows
                       PROVE  /\ \A k \in 0..MaxRetries : queue'[x][k] > 0 =>
                                    log'[x].status \in Unfinished /\ log'[x].attempts = k
                              /\ worker'[w].log = x => WorkerSound(w, log[x])'
            BY <2>1, <3>1, <3>2, <3>3 DEF LifeAt
        <3>6. CASE Mark(w)
            <4>1. queue' = queue /\ worker[w].pc = "mark"
                BY <3>6 DEF Mark
            <4>2. log'[x] = Flush(log[x], log[x], AsMarked(log[x]))
                BY <2>0, <2>6, <3>3, <3>5, <3>6, <4>1 DEF Mark, TypeOK, WorkerSound
            <4>3. log[x] \in LogRow
                BY DEF TypeOK
            <4>4. log'[x].status = "PROCESSING" /\ log'[x].attempts = log[x].attempts + 1
                BY <4>2, <4>3 DEF Flush, Column, AsMarked, LogRow
            <4>5. worker'[w].pc = "load" /\ worker'[w].retries = worker[w].retries
                BY <3>6, WorkerSteps
            <4>6. WorkerSound(w, log[x])'
                BY <3>3, <3>5, <4>1, <4>4, <4>5 DEF WorkerSound
            <4> QED
                BY <3>4, <4>1, <4>6
        <3>7. CASE Load(w)
            <4>1. queue' = queue /\ log' = log /\ worker[w].pc = "load"
                BY <3>7 DEF Load
            <4>2. WorkerSound(w, log[x])'
                BY <2>0, <2>6, <3>3, <3>5, <3>7, <4>1, WorkerSteps DEF WorkerSound
            <4> QED
                BY <3>4, <4>1, <4>2
        <3>8. CASE Tally(w)
            <4>1. queue' = queue /\ log' = log /\ worker[w].pc = "run"
                  /\ (~worker[w].runs => worker[w].retries = MaxRetries)
                BY <3>8 DEF Tally
            <4>2. WorkerSound(w, log[x])'
                BY <2>0, <2>6, <3>3, <3>5, <3>8, <4>1, WorkerSteps DEF WorkerSound
            <4> QED
                BY <3>4, <4>1, <4>2
        <3>9. CASE Commit(w)
            <4>1. queue' = queue /\ worker'[w].log = NoLog
                BY <3>9, WorkerSteps, IdleTypes DEF Commit
            <4> QED
                BY <1>1, <3>4, <4>1
        <3>10. CASE Republish(w)
            <4>1. /\ log' = log /\ worker'[w].log = NoLog /\ Enqueue(x, worker[w].retries + 1)
                  /\ worker[w].pc = "run" /\ worker[w].retries < MaxRetries
                BY <2>0, <2>6, <3>10, WorkerSteps, IdleTypes DEF Republish
            <4>2. worker[w].retries + 1 \in 0..MaxRetries
                BY <4>1, BoundsAssumption DEF TypeOK, Worker
            <4>3. \A k \in 0..MaxRetries : queue'[x][k] > 0 => k = worker[w].retries + 1
                BY <3>4, <4>1, <4>2, EnqueueAt
            <4>4. log[x].status = "PROCESSING" /\ log[x].attempts = worker[w].retries + 1
                BY <3>3, <3>5, <4>1 DEF WorkerSound
            <4> QED
                BY <1>1, <4>1, <4>3, <4>4 DEF Unfinished
        <3> QED
            BY <1>13, <3>6, <3>7, <3>8, <3>9, <3>10
    <2> QED
        BY <2>5, <2>6
<1>14. ASSUME NEW w \in Workers, Abandon(w) \/ CrashWorker(w) PROVE LifeAt(x)'
    <2>1. /\ rows' = rows /\ retried' = retried /\ request' = request /\ log' = log
          /\ Rest(w) /\ queue' = queue /\ born' = born
        BY <1>14 DEF Abandon, CrashWorker
    <2> QED
        BY <1>1, <1>3, <2>1, LifeFrame
<1>15. CASE UNCHANGED vars
    BY <1>1, <1>15, LifeFrame DEF vars
<1> QED
    BY <1>4, <1>5, <1>6, <1>7, <1>8, <1>9, <1>10, <1>11, <1>12, <1>13, <1>14, <1>15
       DEF Next, Arrive, Serve, Take, Work, Fault

(***************************************************************************)
(* Every step is a step of ExecutionLifecycle, or a stutter.                *)
(***************************************************************************)

PhaseAt(l) ==
    IF l \in rows THEN log[l].status
    ELSE IF l \notin born \/ BeingInserted(l) THEN "absent"
    ELSE "removed"

LifecycleStep == Lifecycle!Next \/ UNCHANGED Lifecycle!vars

LEMMA PhaseType == ASSUME TypeOK, NEW l \in Logs PROVE phaseOf[l] = PhaseAt(l)
BY DEF phaseOf, PhaseAt

\* The phase follows from the row, the status and the handler that inserts.
LEMMA PhaseFrame ==
    ASSUME NEW l \in Logs,
           l \in rows' <=> l \in rows, l \in born' <=> l \in born,
           l \in rows => log'[l].status = log[l].status,
           l \notin rows => (BeingInserted(l)' <=> BeingInserted(l))
    PROVE  PhaseAt(l)' = PhaseAt(l)
<1>1. CASE l \in rows
    BY <1>1 DEF PhaseAt
<1>2. CASE l \notin rows
    BY <1>2 DEF PhaseAt
<1> QED
    BY <1>1, <1>2

\* What a step that changes nothing but phases, or nothing at all, looks like.
LEMMA SamePhases ==
    ASSUME \A l \in Logs : PhaseAt(l)' = PhaseAt(l),
           \A l \in Logs : log'[l].attempts = log[l].attempts,
           finished' = finished
    PROVE  UNCHANGED Lifecycle!vars
<1>1. phaseOf' = phaseOf
    BY DEF phaseOf, PhaseAt
<1>2. [l \in Logs |-> log[l].attempts]' = [l \in Logs |-> log[l].attempts]
    OBVIOUS
<1>3. [t \in Tenants |-> finished[t].ok + finished[t].failed]'
         = [t \in Tenants |-> finished[t].ok + finished[t].failed]
    OBVIOUS
<1> QED
    BY <1>1, <1>2, <1>3 DEF Lifecycle!vars

LEMMA OtherPhases ==
    ASSUME NEW x \in Logs, NEW new, PhaseAt(x)' = new,
           \A l \in Logs : l # x => PhaseAt(l)' = PhaseAt(l)
    PROVE  phaseOf' = [phaseOf EXCEPT ![x] = new]
<1>1. \A l \in Logs : phaseOf'[l] = IF l = x THEN new ELSE phaseOf[l]
    BY DEF phaseOf, PhaseAt
<1>2. phaseOf = [l \in Logs |-> phaseOf[l]] /\ phaseOf' = [l \in Logs |-> phaseOf'[l]]
    BY DEF phaseOf
<1> QED
    BY <1>1, <1>2

\* A step that removes S and changes nothing else, perhaps not even that.
LEMMA RemoveStep ==
    ASSUME NEW S \in SUBSET Logs,
           \A l \in Logs : PhaseAt(l)' = IF l \in S THEN "removed" ELSE PhaseAt(l),
           \A l \in Logs : log'[l].attempts = log[l].attempts,
           finished' = finished
    PROVE  LifecycleStep
<1>1. CASE \E l \in S : PhaseAt(l) # "removed"
    <2>1. \E l \in S : phaseOf[l] # "removed"
        BY <1>1 DEF phaseOf, PhaseAt
    <2>2. phaseOf' = [l \in Logs |-> IF l \in S THEN "removed" ELSE phaseOf[l]]
        BY DEF phaseOf, PhaseAt
    <2>3. Lifecycle!Remove(S)
        BY <2>1, <2>2 DEF Lifecycle!Remove
    <2> QED
        BY <2>3 DEF LifecycleStep, Lifecycle!Next
<1>2. CASE ~ \E l \in S : PhaseAt(l) # "removed"
    BY <1>2, SamePhases DEF LifecycleStep
<1> QED
    BY <1>1, <1>2

LEMMA LifecycleInit == Init => Lifecycle!Init
<1> SUFFICES ASSUME Init PROVE Lifecycle!Init
    OBVIOUS
<1>1. phaseOf = [l \in Logs |-> "absent"]
    BY DEF Init, phaseOf
<1>2. [l \in Logs |-> log[l].attempts] = [l \in Logs |-> 0]
    BY DEF Init, NewRow
<1>3. [t \in Tenants |-> finished[t].ok + finished[t].failed] = [t \in Tenants |-> 0]
    BY DEF Init
<1> QED
    BY <1>1, <1>2, <1>3 DEF Lifecycle!Init

\* A handler that inserts no row leaves all insertions alone when it moves on.
LEMMA InsertionsKept ==
    ASSUME TypeOK, NEW r \in Requests, ~Inserting(r), ~Inserting(r)',
           \A s \in Requests : s # r => request'[s] = request[s]
    PROVE  \A l \in Logs : BeingInserted(l)' <=> BeingInserted(l)
BY DEF BeingInserted, Inserting

LEMMA StepImplements ==
    ASSUME NoIntervention, TypeOK, AloneInv, InsertInv, LifeInv, [Next]_vars
    PROVE  LifecycleStep
<1> USE DEF db, history
<1>0. request' = request => \A l \in Logs : BeingInserted(l)' <=> BeingInserted(l)
    BY DEF BeingInserted
<1>1. ASSUME rows' = rows, born' = born, log' = log, finished' = finished,
             \A l \in Logs : l \notin rows => (BeingInserted(l)' <=> BeingInserted(l))
      PROVE  LifecycleStep
    BY <1>1, PhaseFrame, SamePhases DEF LifecycleStep
<1>2. ASSUME NEW w \in Workflows, DeleteWorkflow(w) PROVE LifecycleStep
    <2> DEFINE S == {l \in rows : WorkflowOf[l] = w}
    <2>1. /\ rows' = {l \in rows : WorkflowOf[l] # w} /\ born' = born /\ log' = log
          /\ request' = request /\ finished' = finished
        BY <1>2 DEF DeleteWorkflow
    <2>2. ASSUME NEW l \in Logs
          PROVE  PhaseAt(l)' = IF l \in S THEN "removed" ELSE PhaseAt(l)
        <3>1. CASE l \in S
            <4>1. ~BeingInserted(l)
                BY <3>1 DEF InsertInv, Inserting, BeingInserted
            <4>2. l \in born /\ l \notin rows'
                BY <2>1, <3>1 DEF TypeOK
            <4>3. ~BeingInserted(l)'
                BY <1>0, <2>1, <4>1
            <4> QED
                BY <2>1, <3>1, <4>2, <4>3 DEF PhaseAt
        <3>2. CASE l \notin S
            BY <1>0, <2>1, <3>2, PhaseFrame
        <3> QED
            BY <3>1, <3>2
    <2>3. S \in SUBSET Logs
        BY DEF TypeOK
    <2> HIDE DEF S
    <2> QED
        BY <2>1, <2>2, <2>3, RemoveStep
<1>3. CASE Administer
    BY <1>0, <1>1, <1>2, <1>3 DEF Administer, CreateWorkflow, UpdateWorkflow, GetUsage
<1>4. ASSUME NEW r \in Requests, NEW l \in Logs, StartWebhook(r, l) PROVE LifecycleStep
    <2>1. /\ rows' = rows /\ log' = log /\ finished' = finished /\ born' = born \cup {l}
          /\ l \notin born /\ l \notin rows
        BY <1>4 DEF StartWebhook, TypeOK
    <2>2. /\ request'[r].op = "webhook" /\ request'[r].pc = "commit" /\ request'[r].log = l
          /\ \A s \in Requests : s # r => request'[s] = request[s]
        BY <1>4, HandlerSteps DEF StartWebhook
    <2>3. request[r].pc = "idle"
        BY <1>4 DEF StartWebhook
    <2>4. BeingInserted(l)'
        BY <2>2 DEF BeingInserted
    <2>5. PhaseAt(l)' = PhaseAt(l)
        BY <2>1, <2>4 DEF PhaseAt
    <2>6. ASSUME NEW x \in Logs, x # l PROVE PhaseAt(x)' = PhaseAt(x)
        <3>1. BeingInserted(x)' <=> BeingInserted(x)
            BY <2>2, <2>3, <2>6 DEF BeingInserted
        <3> QED
            BY <2>1, <2>6, <3>1, PhaseFrame
    <2> QED
        BY <2>1, <2>5, <2>6, SamePhases DEF LifecycleStep
<1>5. ASSUME NEW r \in Requests, NEW l \in Logs PROVE ~StartRetry(r, l) /\ ~StartCancel(r, l)
    BY DEF NoIntervention, StartRetry, StartCancel
<1>6. ASSUME NEW r \in Requests PROVE ~CommitRetry(r) /\ ~CommitCancel(r)
    <2>1. request[r].op \in {"webhook", "none"}
        BY DEF LifeInv, LifeAt, IdleRequest
    <2> QED
        BY <2>1 DEF CommitRetry, CommitCancel
<1>7. ASSUME NEW r \in Requests, Inserting(r), ~Inserting(r)',
             \A s \in Requests : s # r => request'[s] = request[s]
      PROVE  /\ request[r].log \in Logs
             /\ BeingInserted(request[r].log)
             /\ \A l \in Logs : BeingInserted(l)' <=> (BeingInserted(l) /\ l # request[r].log)
    <2>1. request[r].log \in Logs
        BY <1>7 DEF InsertInv, TypeOK
    <2>2. \A s \in Requests : request[s].log = request[r].log => s = r
        BY <2>1, OnlyTask
    <2> QED
        BY <1>7, <2>1, <2>2 DEF BeingInserted, Inserting
<1>8. ASSUME NEW r \in Requests, InsertLog(r) PROVE LifecycleStep
    <2>0. PICK l \in Logs : l = request[r].log
        BY <1>8 DEF InsertLog, TypeOK
    <2>1. /\ rows' = rows \cup {l} /\ log' = [log EXCEPT ![l] = NewRow]
          /\ born' = born /\ finished' = finished
        BY <1>8, <2>0 DEF InsertLog
    <2>2. /\ Inserting(r) /\ ~Inserting(r)'
          /\ \A s \in Requests : s # r => request'[s] = request[s]
        BY <1>8, HandlerSteps DEF InsertLog, Inserting
    <2>3. BeingInserted(l) /\ \A x \in Logs : BeingInserted(x)' <=> (BeingInserted(x) /\ x # l)
        BY <1>7, <2>0, <2>2
    <2>4. l \notin rows /\ log[l].attempts = 0
        BY <2>0, <2>2 DEF InsertInv, Inserting, LifeInv, LifeAt
    <2>5. log'[l].status = "PENDING" /\ log'[l].attempts = 0
          /\ \A x \in Logs : x # l => log'[x] = log[x]
        BY <2>1 DEF NewRow, TypeOK
    <2>6. PhaseAt(l) = "absent" /\ PhaseAt(l)' = "PENDING"
        BY <2>1, <2>3, <2>4, <2>5 DEF PhaseAt
    <2>7. \A x \in Logs : x # l => PhaseAt(x)' = PhaseAt(x)
        BY <2>1, <2>3, <2>5, PhaseFrame
    <2>8. phaseOf[l] = "absent" /\ phaseOf' = [phaseOf EXCEPT ![l] = "PENDING"]
        BY <2>6, <2>7, OtherPhases, PhaseType
    <2>9. [x \in Logs |-> log[x].attempts]' = [x \in Logs |-> log[x].attempts]
        BY <2>4, <2>5
    <2>10. [t \in Tenants |-> finished[t].ok + finished[t].failed]'
              = [t \in Tenants |-> finished[t].ok + finished[t].failed]
        BY <2>1
    <2>11. Lifecycle!Accept(l)
        BY <2>8, <2>9, <2>10 DEF Lifecycle!Accept
    <2> QED
        BY <2>11 DEF LifecycleStep, Lifecycle!Next
<1>9. ASSUME NEW r \in Requests, Publish(r) PROVE LifecycleStep
    <2>1. ~Inserting(r) /\ ~Inserting(r)' /\ \A s \in Requests : s # r => request'[s] = request[s]
        BY <1>9, HandlerSteps, IdleTypes DEF Publish, Inserting
    <2> QED
        BY <1>1, <1>9, <2>1, InsertionsKept DEF Publish
<1>10. ASSUME NEW r \in Requests, AbortRequest(r) \/ CrashRequest(r) PROVE LifecycleStep
    <2>1. rows' = rows /\ born' = born /\ log' = log /\ finished' = finished /\ Reply(r)
        BY <1>10 DEF AbortRequest, CrashRequest
    <2>2. ~Inserting(r)' /\ \A s \in Requests : s # r => request'[s] = request[s]
        BY <2>1, HandlerSteps, IdleTypes DEF Inserting
    <2>3. CASE ~Inserting(r)
        BY <1>1, <2>1, <2>2, <2>3, InsertionsKept
    <2>4. CASE Inserting(r)
        <3>0. PICK l \in Logs : l = request[r].log
            BY <1>7, <2>2, <2>4
        <3>1. \A x \in Logs : BeingInserted(x)' <=> (BeingInserted(x) /\ x # l)
            BY <1>7, <2>2, <2>4, <3>0
        <3>2. l \in born /\ l \notin rows
            BY <2>4, <3>0 DEF InsertInv
        <3>3. PhaseAt(l)' = "removed"
            BY <2>1, <3>1, <3>2 DEF PhaseAt
        <3>4. \A x \in Logs : x # l => PhaseAt(x)' = PhaseAt(x)
            BY <2>1, <3>1, PhaseFrame
        <3>5. \A x \in Logs : PhaseAt(x)' = IF x \in {l} THEN "removed" ELSE PhaseAt(x)
            BY <3>3, <3>4
        <3> QED
            BY <2>1, <3>5, RemoveStep
    <2> QED
        BY <2>3, <2>4
<1>11. ASSUME NEW w \in Workers, Take(w) \/ Load(w) \/ Tally(w) \/ Republish(w) \/ Abandon(w)
                                 \/ CrashWorker(w)
       PROVE  LifecycleStep
    <2>1. /\ rows' = rows /\ born' = born /\ log' = log /\ finished' = finished
          /\ request' = request
        BY <1>11 DEF Take, Fetch, Discard, Load, Tally, Republish, Abandon, CrashWorker
    <2> QED
        BY <1>0, <1>1, <2>1
<1>12. ASSUME NEW w \in Workers, Mark(w) PROVE LifecycleStep
    <2>0. PICK l \in Logs : l = worker[w].log
        BY <1>12 DEF Mark, TypeOK
    <2>1. /\ rows' = rows /\ born' = born /\ finished' = finished /\ request' = request
          /\ l \in rows /\ worker[w].pc = "mark"
        BY <1>12, <2>0 DEF Mark
    <2>2. /\ log[l].status \in Unfinished /\ log[l].attempts = worker[w].retries
          /\ worker[w].seen = log[l]
        BY <2>0, <2>1 DEF LifeInv, LifeAt, WorkerSound
    <2>3. log'[l] = Flush(log[l], log[l], AsMarked(log[l]))
          /\ \A x \in Logs : x # l => log'[x] = log[x]
        BY <1>12, <2>0, <2>2 DEF Mark, TypeOK
    <2>4. log'[l].status = "PROCESSING" /\ log'[l].attempts = log[l].attempts + 1
        <3>1. log[l] \in LogRow
            BY DEF TypeOK
        <3> QED
            BY <2>3, <3>1 DEF Flush, Column, AsMarked, LogRow
    <2>5. log[l].attempts < MaxRetries + 1
        BY <2>2, BoundsAssumption DEF TypeOK, Worker
    <2>6. phaseOf[l] \in {"PENDING", "PROCESSING"}
        BY <2>1, <2>2, PhaseType DEF PhaseAt, Unfinished
    <2>7. PhaseAt(l)' = "PROCESSING"
        BY <2>1, <2>4 DEF PhaseAt
    <2>8. \A x \in Logs : x # l => PhaseAt(x)' = PhaseAt(x)
        BY <1>0, <2>1, <2>3, PhaseFrame
    <2>9. phaseOf' = [phaseOf EXCEPT ![l] = "PROCESSING"]
        BY <2>7, <2>8, OtherPhases
    <2>10. [x \in Logs |-> log[x].attempts]'
              = [[x \in Logs |-> log[x].attempts] EXCEPT ![l] = @ + 1]
        BY <2>3, <2>4
    <2>11. [t \in Tenants |-> finished[t].ok + finished[t].failed]'
              = [t \in Tenants |-> finished[t].ok + finished[t].failed]
        BY <2>1
    <2>12. Lifecycle!Attempt(l)
        BY <2>5, <2>6, <2>9, <2>10, <2>11 DEF Lifecycle!Attempt
    <2> QED
        BY <2>12 DEF LifecycleStep, Lifecycle!Next, Lifecycle!Advance
<1>13. ASSUME NEW w \in Workers, Commit(w) PROVE LifecycleStep
    <2>0. PICK l \in Logs : l = worker[w].log
        BY <1>13 DEF Commit, TypeOK
    <2>1. /\ rows' = rows /\ born' = born /\ request' = request
          /\ l \in rows /\ worker[w].pc = "commit"
        BY <1>13, <2>0 DEF Commit
    <2>2. /\ log[l].status = "PROCESSING" /\ log[l].attempts = worker[w].retries + 1
          /\ worker[w].seen = log[l]
          /\ (~worker[w].runs => worker[w].retries = MaxRetries)
        BY <2>0, <2>1 DEF LifeInv, LifeAt, WorkerSound
    <2>14. PICK outcome \in {"SUCCESS", "FAILED"} :
                outcome = IF worker[w].runs THEN "SUCCESS" ELSE "FAILED"
        BY Zenon
    <2>3. log'[l] = Flush(log[l], log[l], AsSettled(log[l], worker[w].runs))
          /\ \A x \in Logs : x # l => log'[x] = log[x]
        BY <1>13, <2>0, <2>2 DEF Commit, TypeOK
    <2>4. log'[l].status = outcome /\ log'[l].attempts = log[l].attempts
        BY <2>2, <2>3, <2>14 DEF Flush, Column, AsSettled
    <2>5. outcome = "FAILED" => log[l].attempts = MaxRetries + 1
        BY <2>2, <2>14
    <2>6. phaseOf[l] = "PROCESSING"
        BY <2>1, <2>2, PhaseType DEF PhaseAt
    <2>7. PhaseAt(l)' = outcome
        BY <2>1, <2>4 DEF PhaseAt
    <2>8. \A x \in Logs : x # l => PhaseAt(x)' = PhaseAt(x)
        BY <1>0, <2>1, <2>3, PhaseFrame
    <2>9. phaseOf' = [phaseOf EXCEPT ![l] = outcome]
        BY <2>7, <2>8, OtherPhases
    <2>10. [x \in Logs |-> log[x].attempts]' = [x \in Logs |-> log[x].attempts]
        BY <2>3, <2>4
    <2>11. [t \in Tenants |-> finished[t].ok + finished[t].failed]'
              = [[t \in Tenants |-> finished[t].ok + finished[t].failed]
                    EXCEPT ![LogTenant(l)] = @ + 1]
        <3>0. PICK u \in Tenants : u = LogTenant(l)
            BY TenantType
        <3>1. finished' = IF worker[w].runs THEN [finished EXCEPT ![u].ok = @ + 1]
                                            ELSE [finished EXCEPT ![u].failed = @ + 1]
            BY <1>13, <2>0, <3>0 DEF Commit
        <3>2. finished \in [Tenants -> [ok : Nat, failed : Nat]]
            BY DEF TypeOK
        <3>3. \A t \in Tenants : finished'[t].ok + finished'[t].failed =
                 IF t = u THEN finished[t].ok + finished[t].failed + 1
                 ELSE finished[t].ok + finished[t].failed
            <4>1. CASE worker[w].runs
                <5>1. finished' = [finished EXCEPT ![u].ok = @ + 1]
                    BY <3>1, <4>1
                <5> QED
                    BY <3>2, <5>1
            <4>2. CASE ~worker[w].runs
                <5>1. finished' = [finished EXCEPT ![u].failed = @ + 1]
                    BY <3>1, <4>2
                <5> QED
                    BY <3>2, <5>1
            <4> QED
                BY <4>1, <4>2
        <3> QED
            BY <3>0, <3>3
    <2>12. Lifecycle!Settle(l, outcome)
        BY <2>5, <2>6, <2>9, <2>10, <2>11 DEF Lifecycle!Settle
    <2>13. Lifecycle!Advance(l)
        BY <2>12 DEF Lifecycle!Advance
    <2> QED
        BY <2>13 DEF LifecycleStep, Lifecycle!Next
<1>14. CASE UNCHANGED vars
    BY <1>0, <1>1, <1>14 DEF vars
<1> QED
    BY <1>3, <1>4, <1>5, <1>6, <1>8, <1>9, <1>10, <1>11, <1>12, <1>13, <1>14
       DEF Next, Arrive, Serve, Work, Fault

\* While clients neither retry nor cancel, the table of executions goes through
\* the steps of the abstract lifecycle, whatever crashes and is deleted.
THEOREM LifecycleImplemented == ASSUME NoIntervention PROVE Spec => Lifecycle!Spec
<1>1. TypeOK /\ AloneInv /\ InsertInv /\ LifeInv /\ [Next]_vars => LifeInv'
    BY LifeNext
<1>2. TypeOK /\ AloneInv /\ InsertInv /\ LifeInv /\ [Next]_vars => [Lifecycle!Next]_(Lifecycle!vars)
    BY StepImplements DEF LifecycleStep
<1> QED
    BY <1>1, <1>2, TypeInit, TypeNext, AloneInit, AloneNext, SettledInit, InsertNext,
       LifeInit, LifecycleInit, PTL
       DEF Spec, Lifecycle!Spec

(***************************************************************************)
(* Attempts stay within their budget.                                       *)
(***************************************************************************)

\* The runs that are still ahead of an execution, as sets: a message, a worker or a handler
\* with the number of each retry up to the last that it will lead to.  Messages of one
\* execution and one request.retries are told apart by a number.
MessageRuns(l) ==
    {m \in ((0..MaxRetries) \X Nat) \X (0..MaxRetries) :
        m[1][2] < queue[l][m[1][1]] /\ m[1][1] <= m[2]}

\* What actors lead to, the number of whose first run is first[a].
Runs(A, first) == {m \in A \X (0..MaxRetries) : first[m[1]] <= m[2]}

\* The first retry that a worker's record still counts, and a handler's.
FirstRun(rec, l) ==
    IF rec.log # l THEN MaxRetries + 1
    ELSE IF rec.pc = "mark" THEN rec.retries
    ELSE IF rec.pc \in {"load", "run"} THEN rec.retries + 1
    ELSE MaxRetries + 1
FirstRuns(l) == [w \in Workers |-> FirstRun(worker[w], l)]
WorkerRuns(l) == Runs(Workers, FirstRuns(l))

FirstOwed(rec, l) ==
    IF rec.log = l /\ rec.op \in {"webhook", "retry"} THEN 0 ELSE MaxRetries + 1
FirstsOwed(l) == [r \in Requests |-> FirstOwed(request[r], l)]
HandlerRuns(l) == Runs(Requests, FirstsOwed(l))

RunsAhead(l) ==
    Cardinality(MessageRuns(l)) + Cardinality(WorkerRuns(l)) + Cardinality(HandlerRuns(l))

Budget(l) == (MaxRetries + 1) * (1 + retried[l])

\* What has been counted, or is about to be written over it by a worker with a stale row,
\* and what may yet be counted, are paid for.
BudgetAt(l) ==
    /\ IsFiniteSet(MessageRuns(l)) /\ IsFiniteSet(WorkerRuns(l)) /\ IsFiniteSet(HandlerRuns(l))
    /\ l \notin born => log[l].attempts = 0
    /\ log[l].attempts + RunsAhead(l) <= Budget(l)
    /\ \A w \in Workers : worker[w].pc = "mark" /\ worker[w].log = l =>
          worker[w].seen.attempts + RunsAhead(l) <= Budget(l)

BudgetInv == \A l \in Logs : BudgetAt(l)

\* The runs from the n-th retry on that one of them leads to.
LEMMA RunsOf ==
    ASSUME NEW a, NEW n \in Nat, n <= MaxRetries + 1, NEW B, B = {a} \X (n..MaxRetries)
    PROVE  IsFiniteSet(B) /\ Cardinality(B) = MaxRetries + 1 - n
<1>1. IsFiniteSet(n..MaxRetries) /\ Cardinality(n..MaxRetries) = MaxRetries + 1 - n
    <2>1. /\ IsFiniteSet(n..MaxRetries)
          /\ Cardinality(n..MaxRetries) = IF n > MaxRetries THEN 0 ELSE MaxRetries - n + 1
        BY BoundsAssumption, FS_Interval
    <2> QED
        BY <2>1, BoundsAssumption
<1>2. IsFiniteSet({a}) /\ Cardinality({a}) = 1
    BY FS_Singleton
<1>3. IsFiniteSet(B) /\ Cardinality(B) = 1 * Cardinality(n..MaxRetries)
    BY <1>1, <1>2, FS_Product
<1> QED
    BY <1>1, <1>3, BoundsAssumption

\* A set S of runs, and the runs B that it gains or loses.
LEMMA RunsSplit ==
    ASSUME NEW S, IsFiniteSet(S), NEW B, IsFiniteSet(B), \A x \in B : x \notin S
    PROVE  /\ IsFiniteSet(S \cup B) /\ Cardinality(S) \in Nat
           /\ Cardinality(S \cup B) = Cardinality(S) + Cardinality(B)
<1>0. S \cap B = {}
    OBVIOUS
<1>1. IsFiniteSet(S \cup B) /\ Cardinality(S \cap B) = 0
    BY <1>0, FS_Union, FS_EmptySet
<1>2. Cardinality(S \cup B) = Cardinality(S) + Cardinality(B) - Cardinality(S \cap B)
    BY FS_Union
<1>3. Cardinality(S) \in Nat /\ Cardinality(B) \in Nat
    BY FS_CardinalityType
<1> QED
    BY <1>1, <1>2, <1>3

LEMMA RunsPart ==
    ASSUME NEW S, NEW B, NEW T, T = S \cup B, IsFiniteSet(T)
    PROVE  IsFiniteSet(S)
<1>1. S \in SUBSET T
    OBVIOUS
<1> QED
    BY <1>1, FS_Subset

LEMMA MessagesKept ==
    ASSUME NEW l \in Logs, queue'[l] = queue[l]
    PROVE  MessageRuns(l)' = MessageRuns(l)
BY DEF MessageRuns

LEMMA MessagesMore ==
    ASSUME TypeOK, NEW l \in Logs, NEW k \in 0..MaxRetries, Enqueue(l, k),
           IsFiniteSet(MessageRuns(l))
    PROVE  /\ IsFiniteSet(MessageRuns(l))'
           /\ Cardinality(MessageRuns(l))' = Cardinality(MessageRuns(l)) + (MaxRetries + 1 - k)
           /\ \A x \in Logs : x # l => MessageRuns(x)' = MessageRuns(x)
<1>1. PICK n \in Nat : n = queue[l][k]
    BY QueueNat
<1>2. \A j \in 0..MaxRetries : queue'[l][j] = IF j = k THEN n + 1 ELSE queue[l][j]
    BY <1>1, EnqueueAt
<1>3. PICK T : T = MessageRuns(l)'
    OBVIOUS
<1>4. T = {m \in ((0..MaxRetries) \X Nat) \X (0..MaxRetries) :
              m[1][2] < queue'[l][m[1][1]] /\ m[1][1] <= m[2]}
    BY <1>3 DEF MessageRuns
<1>5. ASSUME NEW j \in 0..MaxRetries, NEW i \in Nat, NEW b \in 0..MaxRetries
      PROVE  <<<<j, i>>, b>> \in T
                <=> \/ <<<<j, i>>, b>> \in MessageRuns(l)
                    \/ j = k /\ i = n /\ b \in k..MaxRetries
    <2>1. i < n + 1 <=> i < n \/ i = n
        BY <1>1
    <2>2. <<<<j, i>>, b>> \in T <=> i < queue'[l][j] /\ j <= b
        BY <1>4
    <2>3. <<<<j, i>>, b>> \in MessageRuns(l) <=> i < queue[l][j] /\ j <= b
        BY DEF MessageRuns
    <2>4. b \in k..MaxRetries <=> k <= b
        BY BoundsAssumption
    <2> QED
        BY <1>1, <1>2, <2>1, <2>2, <2>3, <2>4
<1>6. T = MessageRuns(l) \cup ({<<k, n>>} \X (k..MaxRetries))
    <2>1. \A m \in T : m \in MessageRuns(l) \cup ({<<k, n>>} \X (k..MaxRetries))
        BY <1>4, <1>5
    <2>2. \A m \in MessageRuns(l) : m \in T
        BY <1>5 DEF MessageRuns
    <2>3. \A m \in {<<k, n>>} \X (k..MaxRetries) : m \in T
        BY <1>1, <1>5, BoundsAssumption
    <2> QED
        BY <2>1, <2>2, <2>3
<1>7. MessageRuns(l) \cap ({<<k, n>>} \X (k..MaxRetries)) = {}
    BY <1>1 DEF MessageRuns
<1>8. k \in Nat /\ k <= MaxRetries + 1
    BY BoundsAssumption
<1>9. IsFiniteSet(T) /\ Cardinality(T) = Cardinality(MessageRuns(l)) + (MaxRetries + 1 - k)
    <2>1. PICK a : a = <<k, n>>
        OBVIOUS
    <2>2. PICK S : S = MessageRuns(l)
        OBVIOUS
    <2>3. PICK B : B = {a} \X (k..MaxRetries) /\ T = S \cup B /\ S \cap B = {}
        BY <1>6, <1>7, <2>1, <2>2
    <2>4. IsFiniteSet(S)
        BY <2>2
    <2>5. IsFiniteSet(B) /\ Cardinality(B) = MaxRetries + 1 - k
        BY <1>8, <2>3, RunsOf
    <2>6. IsFiniteSet(T) /\ Cardinality(T) = Cardinality(S) + Cardinality(B)
        <3>1. \A x \in B : x \notin S
            BY <2>3
        <3>2. /\ IsFiniteSet(S \cup B)
              /\ Cardinality(S \cup B) = Cardinality(S) + Cardinality(B)
            BY <2>4, <2>5, <3>1, RunsSplit
        <3> QED
            BY <2>3, <3>2
    <2> QED
        BY <2>2, <2>5, <2>6
<1>10. \A x \in Logs : x # l => queue'[x] = queue[x]
    BY DEF Enqueue, TypeOK
<1> QED
    BY <1>3, <1>9, <1>10, MessagesKept

LEMMA MessagesFewer ==
    ASSUME TypeOK, NEW l \in Logs, NEW k \in 0..MaxRetries, Dequeue(l, k),
           IsFiniteSet(MessageRuns(l))
    PROVE  /\ IsFiniteSet(MessageRuns(l))'
           /\ Cardinality(MessageRuns(l))' + (MaxRetries + 1 - k) = Cardinality(MessageRuns(l))
           /\ \A x \in Logs : x # l => MessageRuns(x)' = MessageRuns(x)
<1>1. PICK n \in Nat : n + 1 = queue[l][k]
    <2>1. queue[l][k] \in Nat /\ queue[l][k] > 0
        BY QueueNat DEF Dequeue
    <2>2. queue[l][k] - 1 \in Nat /\ (queue[l][k] - 1) + 1 = queue[l][k]
        BY <2>1
    <2> QED
        BY <2>2
<1>2. \A j \in 0..MaxRetries : queue'[l][j] = IF j = k THEN n ELSE queue[l][j]
    BY <1>1, DequeueAt
<1>3. PICK T : T = MessageRuns(l)'
    OBVIOUS
<1>4. T = {m \in ((0..MaxRetries) \X Nat) \X (0..MaxRetries) :
              m[1][2] < queue'[l][m[1][1]] /\ m[1][1] <= m[2]}
    BY <1>3 DEF MessageRuns
<1>5. ASSUME NEW j \in 0..MaxRetries, NEW i \in Nat, NEW b \in 0..MaxRetries
      PROVE  <<<<j, i>>, b>> \in MessageRuns(l)
                <=> \/ <<<<j, i>>, b>> \in T
                    \/ j = k /\ i = n /\ b \in k..MaxRetries
    <2>1. i < n + 1 <=> i < n \/ i = n
        BY <1>1
    <2>2. <<<<j, i>>, b>> \in T <=> i < queue'[l][j] /\ j <= b
        BY <1>4
    <2>3. <<<<j, i>>, b>> \in MessageRuns(l) <=> i < queue[l][j] /\ j <= b
        BY DEF MessageRuns
    <2>4. b \in k..MaxRetries <=> k <= b
        BY BoundsAssumption
    <2> QED
        BY <1>1, <1>2, <2>1, <2>2, <2>3, <2>4
<1>6. MessageRuns(l) = T \cup ({<<k, n>>} \X (k..MaxRetries))
    <2>1. \A m \in MessageRuns(l) : m \in T \cup ({<<k, n>>} \X (k..MaxRetries))
        BY <1>5 DEF MessageRuns
    <2>2. \A m \in T : m \in MessageRuns(l)
        BY <1>4, <1>5
    <2>3. \A m \in {<<k, n>>} \X (k..MaxRetries) : m \in MessageRuns(l)
        BY <1>1, <1>5, BoundsAssumption
    <2> QED
        BY <2>1, <2>2, <2>3
<1>7. T \cap ({<<k, n>>} \X (k..MaxRetries)) = {}
    BY <1>1, <1>2, <1>4
<1>8. k \in Nat /\ k <= MaxRetries + 1
    BY BoundsAssumption
<1>9. IsFiniteSet(T) /\ Cardinality(MessageRuns(l)) = Cardinality(T) + (MaxRetries + 1 - k)
             /\ Cardinality(T) \in Nat
    <2>1. PICK a : a = <<k, n>>
        OBVIOUS
    <2>2. PICK S : S = MessageRuns(l)
        OBVIOUS
    <2>3. PICK B : B = {a} \X (k..MaxRetries) /\ S = T \cup B /\ T \cap B = {}
        BY <1>6, <1>7, <2>1, <2>2
    <2>4. IsFiniteSet(T)
        BY <2>2, <2>3, RunsPart
    <2>5. IsFiniteSet(B) /\ Cardinality(B) = MaxRetries + 1 - k
        BY <1>8, <2>3, RunsOf
    <2>6. Cardinality(T) \in Nat /\ Cardinality(S) = Cardinality(T) + Cardinality(B)
        <3>1. \A x \in B : x \notin T
            BY <2>3
        <3>2. /\ Cardinality(T) \in Nat
              /\ Cardinality(T \cup B) = Cardinality(T) + Cardinality(B)
            BY <2>4, <2>5, <3>1, RunsSplit
        <3> QED
            BY <2>3, <3>2
    <2> QED
        BY <2>2, <2>4, <2>5, <2>6
<1>10. \A x \in Logs : x # l => queue'[x] = queue[x]
    BY DEF Dequeue, TypeOK
<1> QED
    BY <1>3, <1>9, <1>10, MessagesKept

\* An actor's block of runs beside those of the others.
LEMMA BlockCount ==
    ASSUME NEW O, IsFiniteSet(O), NEW a, \A x \in O : x[1] # a, NEW n \in 0..(MaxRetries + 1)
    PROVE  /\ IsFiniteSet(O \cup ({a} \X (n..MaxRetries)))
           /\ Cardinality(O) \in Nat
           /\ Cardinality(O \cup ({a} \X (n..MaxRetries))) = Cardinality(O) + (MaxRetries + 1 - n)
<1>1. PICK B : B = {a} \X (n..MaxRetries)
    OBVIOUS
<1>2. n \in Nat /\ n <= MaxRetries + 1
    BY BoundsAssumption
<1>3. IsFiniteSet(B) /\ Cardinality(B) = MaxRetries + 1 - n
    BY <1>1, <1>2, RunsOf
<1>4. \A x \in B : x \notin O
    BY <1>1
<1>5. /\ IsFiniteSet(O \cup B) /\ Cardinality(O) \in Nat
      /\ Cardinality(O \cup B) = Cardinality(O) + Cardinality(B)
    BY <1>3, <1>4, RunsSplit
<1> QED
    BY <1>1, <1>3, <1>5

\* When one actor's first run changes, so does the count.
LEMMA RunsChange ==
    ASSUME NEW A, NEW a \in A,
           NEW f \in [A -> 0..(MaxRetries + 1)], NEW g \in [A -> 0..(MaxRetries + 1)],
           \A x \in A : x # a => g[x] = f[x],
           IsFiniteSet(Runs(A, f))
    PROVE  /\ IsFiniteSet(Runs(A, g))
           /\ Cardinality(Runs(A, f)) \in Nat /\ Cardinality(Runs(A, g)) \in Nat
           /\ Cardinality(Runs(A, g)) + g[a] = Cardinality(Runs(A, f)) + f[a]
<1>1. PICK m \in 0..(MaxRetries + 1) : m = f[a]
    OBVIOUS
<1>2. PICK n \in 0..(MaxRetries + 1) : n = g[a]
    OBVIOUS
<1>3. PICK O : O = {x \in Runs(A, f) : x[1] # a}
    OBVIOUS
<1>4. ASSUME NEW h \in [A -> 0..(MaxRetries + 1)], NEW k \in 0..(MaxRetries + 1), k = h[a],
             \A x \in A : x # a => h[x] = f[x]
      PROVE  Runs(A, h) = O \cup ({a} \X (k..MaxRetries))
    <2>1. ASSUME NEW v \in A, NEW b \in 0..MaxRetries
          PROVE  <<v, b>> \in Runs(A, h) <=> h[v] <= b
        BY DEF Runs
    <2>2. ASSUME NEW v \in A, NEW b \in 0..MaxRetries
          PROVE  <<v, b>> \in O <=> v # a /\ f[v] <= b
        BY <1>3 DEF Runs
    <2>3. ASSUME NEW b \in 0..MaxRetries PROVE b \in k..MaxRetries <=> k <= b
        BY BoundsAssumption
    <2>4. ASSUME NEW x \in Runs(A, h) PROVE x \in O \cup ({a} \X (k..MaxRetries))
        <3>1. PICK v \in A, b \in 0..MaxRetries : x = <<v, b>>
            BY DEF Runs
        <3>2. CASE v = a
            BY <1>4, <2>1, <2>3, <3>1, <3>2
        <3>3. CASE v # a
            BY <1>4, <2>1, <2>2, <3>1, <3>3
        <3> QED
            BY <3>2, <3>3
    <2>5. ASSUME NEW x \in {a} \X (k..MaxRetries) PROVE x \in Runs(A, h)
        <3>1. PICK b \in k..MaxRetries : x = <<a, b>>
            OBVIOUS
        <3>2. b \in 0..MaxRetries
            BY BoundsAssumption
        <3> QED
            BY <1>4, <2>1, <2>3, <3>1, <3>2
    <2>6. ASSUME NEW x \in O PROVE x \in Runs(A, h)
        <3>1. PICK v \in A, b \in 0..MaxRetries : x = <<v, b>>
            BY <1>3 DEF Runs
        <3> QED
            BY <1>4, <2>1, <2>2, <3>1
    <2> QED
        BY <2>4, <2>5, <2>6
<1>5. Runs(A, f) = O \cup ({a} \X (m..MaxRetries))
    BY <1>1, <1>4
<1>6. Runs(A, g) = O \cup ({a} \X (n..MaxRetries))
    BY <1>2, <1>4
<1>7. IsFiniteSet(O)
    <2>1. O \in SUBSET Runs(A, f)
        BY <1>3
    <2> QED
        BY <2>1, FS_Subset
<1>8. \A x \in O : x[1] # a
    BY <1>3
<1>9. /\ Cardinality(O) \in Nat
      /\ Cardinality(Runs(A, f)) = Cardinality(O) + (MaxRetries + 1 - m)
    <2>1. /\ Cardinality(O) \in Nat
          /\ Cardinality(O \cup ({a} \X (m..MaxRetries))) = Cardinality(O) + (MaxRetries + 1 - m)
        BY <1>7, <1>8, BlockCount
    <2> QED
        BY <1>5, <2>1
<1>10. /\ IsFiniteSet(Runs(A, g))
       /\ Cardinality(Runs(A, g)) = Cardinality(O) + (MaxRetries + 1 - n)
    <2>1. /\ IsFiniteSet(O \cup ({a} \X (n..MaxRetries)))
          /\ Cardinality(O \cup ({a} \X (n..MaxRetries))) = Cardinality(O) + (MaxRetries + 1 - n)
        BY <1>7, <1>8, BlockCount
    <2> QED
        BY <1>6, <2>1
<1>11. Cardinality(Runs(A, f)) \in Nat /\ Cardinality(Runs(A, g)) \in Nat
    BY <1>10, FS_CardinalityType
<1> QED
    BY <1>1, <1>2, <1>9, <1>10, <1>11, BoundsAssumption

LEMMA FirstTypes ==
    /\ \A rec \in Worker : \A l : FirstRun(rec, l) \in 0..(MaxRetries + 1)
    /\ \A rec \in Request : \A l : FirstOwed(rec, l) \in 0..(MaxRetries + 1)
<1>1. ASSUME NEW rec \in Worker, NEW l PROVE FirstRun(rec, l) \in 0..(MaxRetries + 1)
    <2>1. rec.retries \in 0..MaxRetries
        BY DEF Worker
    <2> QED
        BY <2>1, BoundsAssumption DEF FirstRun
<1>2. \A rec \in Request : \A l : FirstOwed(rec, l) \in 0..(MaxRetries + 1)
    BY BoundsAssumption DEF FirstOwed
<1> QED
    BY <1>1, <1>2

LEMMA WorkerRunsChange ==
    ASSUME TypeOK, TypeOK', NEW l \in Logs, NEW w \in Workers, IsFiniteSet(WorkerRuns(l)),
           \A v \in Workers : v # w => worker'[v] = worker[v]
    PROVE  /\ IsFiniteSet(WorkerRuns(l))'
           /\ Cardinality(WorkerRuns(l)) \in Nat /\ Cardinality(WorkerRuns(l))' \in Nat
           /\ Cardinality(WorkerRuns(l))' + FirstRun(worker'[w], l)
                = Cardinality(WorkerRuns(l)) + FirstRun(worker[w], l)
<1>1. PICK f : f = FirstRuns(l)
    OBVIOUS
<1>2. PICK g : g = FirstRuns(l)'
    OBVIOUS
<1>3. /\ \A v \in Workers : worker[v] \in Worker /\ worker'[v] \in Worker
    BY DEF TypeOK
<1>4. f \in [Workers -> 0..(MaxRetries + 1)] /\ g \in [Workers -> 0..(MaxRetries + 1)]
    BY <1>1, <1>2, <1>3, FirstTypes DEF FirstRuns
<1>5. \A v \in Workers : v # w => g[v] = f[v]
    BY <1>1, <1>2 DEF FirstRuns
<1>6. f[w] = FirstRun(worker[w], l) /\ g[w] = FirstRun(worker'[w], l)
    BY <1>1, <1>2 DEF FirstRuns
<1>7. WorkerRuns(l) = Runs(Workers, f) /\ WorkerRuns(l)' = Runs(Workers, g)
    BY <1>1, <1>2 DEF WorkerRuns
<1>8. IsFiniteSet(Runs(Workers, f))
    BY <1>7
<1>9. /\ IsFiniteSet(Runs(Workers, g))
      /\ Cardinality(Runs(Workers, f)) \in Nat /\ Cardinality(Runs(Workers, g)) \in Nat
      /\ Cardinality(Runs(Workers, g)) + g[w] = Cardinality(Runs(Workers, f)) + f[w]
    BY <1>4, <1>5, <1>8, RunsChange
<1> QED
    BY <1>6, <1>7, <1>9

LEMMA HandlerRunsChange ==
    ASSUME TypeOK, TypeOK', NEW l \in Logs, NEW r \in Requests, IsFiniteSet(HandlerRuns(l)),
           \A s \in Requests : s # r => request'[s] = request[s]
    PROVE  /\ IsFiniteSet(HandlerRuns(l))'
           /\ Cardinality(HandlerRuns(l)) \in Nat /\ Cardinality(HandlerRuns(l))' \in Nat
           /\ Cardinality(HandlerRuns(l))' + FirstOwed(request'[r], l)
                = Cardinality(HandlerRuns(l)) + FirstOwed(request[r], l)
<1>1. PICK f : f = FirstsOwed(l)
    OBVIOUS
<1>2. PICK g : g = FirstsOwed(l)'
    OBVIOUS
<1>3. \A s \in Requests : request[s] \in Request /\ request'[s] \in Request
    BY DEF TypeOK
<1>4. f \in [Requests -> 0..(MaxRetries + 1)] /\ g \in [Requests -> 0..(MaxRetries + 1)]
    BY <1>1, <1>2, <1>3, FirstTypes DEF FirstsOwed
<1>5. \A s \in Requests : s # r => g[s] = f[s]
    BY <1>1, <1>2 DEF FirstsOwed
<1>6. f[r] = FirstOwed(request[r], l) /\ g[r] = FirstOwed(request'[r], l)
    BY <1>1, <1>2 DEF FirstsOwed
<1>7. HandlerRuns(l) = Runs(Requests, f) /\ HandlerRuns(l)' = Runs(Requests, g)
    BY <1>1, <1>2 DEF HandlerRuns
<1>8. IsFiniteSet(Runs(Requests, f))
    BY <1>7
<1>9. /\ IsFiniteSet(Runs(Requests, g))
      /\ Cardinality(Runs(Requests, f)) \in Nat /\ Cardinality(Runs(Requests, g)) \in Nat
      /\ Cardinality(Runs(Requests, g)) + g[r] = Cardinality(Runs(Requests, f)) + f[r]
    BY <1>4, <1>5, <1>8, RunsChange
<1> QED
    BY <1>6, <1>7, <1>9

LEMMA BudgetNat ==
    ASSUME TypeOK, NEW l \in Logs
    PROVE  Budget(l) \in Nat
<1>1. PICK a \in Nat : a = MaxRetries + 1
    BY BoundsAssumption
<1>2. PICK b \in Nat : b = 1 + retried[l]
    BY DEF TypeOK
<1>3. a * b \in Nat
    OBVIOUS
<1> QED
    BY <1>1, <1>2, <1>3 DEF Budget

LEMMA BudgetRises ==
    ASSUME TypeOK, NEW l \in Logs, retried'[l] = retried[l] + 1
    PROVE  Budget(l)' = Budget(l) + (MaxRetries + 1)
<1>1. PICK a \in Nat : a = MaxRetries + 1
    BY BoundsAssumption
<1>2. PICK b \in Nat : b = 1 + retried[l]
    BY DEF TypeOK
<1>3. a * (b + 1) = a * b + a
    OBVIOUS
<1>4. 1 + retried'[l] = b + 1
    <2>1. retried[l] \in Nat
        BY DEF TypeOK
    <2> QED
        BY <1>2, <2>1
<1> QED
    BY <1>1, <1>2, <1>3, <1>4 DEF Budget

LEMMA AheadNat ==
    ASSUME NEW l \in Logs, BudgetAt(l)
    PROVE  /\ Cardinality(MessageRuns(l)) \in Nat
           /\ Cardinality(WorkerRuns(l)) \in Nat
           /\ Cardinality(HandlerRuns(l)) \in Nat
           /\ RunsAhead(l) \in Nat
BY FS_CardinalityType DEF BudgetAt, RunsAhead

\* The record of one worker changes, and perhaps the queue.
LEMMA AheadOfWorker ==
    ASSUME TypeOK, TypeOK', NEW l \in Logs, BudgetAt(l), NEW w \in Workers,
           \A v \in Workers : v # w => worker'[v] = worker[v],
           IsFiniteSet(MessageRuns(l))', request' = request
    PROVE  /\ IsFiniteSet(WorkerRuns(l))' /\ IsFiniteSet(HandlerRuns(l))'
           /\ RunsAhead(l)' \in Nat
           /\ RunsAhead(l)' + Cardinality(MessageRuns(l)) + FirstRun(worker'[w], l)
                = RunsAhead(l) + Cardinality(MessageRuns(l))' + FirstRun(worker[w], l)
<1>1. HandlerRuns(l)' = HandlerRuns(l)
    BY DEF HandlerRuns, FirstsOwed
<1>2. /\ IsFiniteSet(WorkerRuns(l))' /\ Cardinality(WorkerRuns(l))' \in Nat
      /\ Cardinality(WorkerRuns(l))' + FirstRun(worker'[w], l)
           = Cardinality(WorkerRuns(l)) + FirstRun(worker[w], l)
    BY WorkerRunsChange DEF BudgetAt
<1>3. Cardinality(MessageRuns(l))' \in Nat
    BY FS_CardinalityType
<1>4. FirstRun(worker[w], l) \in Nat /\ FirstRun(worker'[w], l) \in Nat
    <2>1. worker[w] \in Worker /\ worker'[w] \in Worker
        BY DEF TypeOK
    <2>2. \A n \in 0..(MaxRetries + 1) : n \in Nat
        BY BoundsAssumption
    <2> QED
        BY <2>1, <2>2, FirstTypes
<1>5. IsFiniteSet(HandlerRuns(l))'
    BY <1>1 DEF BudgetAt
<1> QED
    BY <1>1, <1>2, <1>3, <1>4, <1>5, AheadNat DEF RunsAhead

\* The record of one handler changes, and perhaps the queue.
LEMMA AheadOfHandler ==
    ASSUME TypeOK, TypeOK', NEW l \in Logs, BudgetAt(l), NEW r \in Requests,
           \A s \in Requests : s # r => request'[s] = request[s],
           IsFiniteSet(MessageRuns(l))', worker' = worker
    PROVE  /\ IsFiniteSet(WorkerRuns(l))' /\ IsFiniteSet(HandlerRuns(l))'
           /\ RunsAhead(l)' \in Nat
           /\ RunsAhead(l)' + Cardinality(MessageRuns(l)) + FirstOwed(request'[r], l)
                = RunsAhead(l) + Cardinality(MessageRuns(l))' + FirstOwed(request[r], l)
<1>1. WorkerRuns(l)' = WorkerRuns(l)
    BY DEF WorkerRuns, FirstRuns
<1>2. /\ IsFiniteSet(HandlerRuns(l))' /\ Cardinality(HandlerRuns(l))' \in Nat
      /\ Cardinality(HandlerRuns(l))' + FirstOwed(request'[r], l)
           = Cardinality(HandlerRuns(l)) + FirstOwed(request[r], l)
    BY HandlerRunsChange DEF BudgetAt
<1>3. Cardinality(MessageRuns(l))' \in Nat
    BY FS_CardinalityType
<1>4. FirstOwed(request[r], l) \in Nat /\ FirstOwed(request'[r], l) \in Nat
    BY BoundsAssumption DEF FirstOwed
<1>5. IsFiniteSet(WorkerRuns(l))'
    BY <1>1 DEF BudgetAt
<1> QED
    BY <1>1, <1>2, <1>3, <1>4, <1>5, AheadNat DEF RunsAhead

\* A step that counts no attempt and adds no run stays within the budget.
LEMMA BudgetKept ==
    ASSUME TypeOK, TypeOK', NEW l \in Logs, BudgetAt(l),
           IsFiniteSet(MessageRuns(l))', IsFiniteSet(WorkerRuns(l))',
           IsFiniteSet(HandlerRuns(l))', RunsAhead(l)' \in Nat,
           RunsAhead(l)' <= RunsAhead(l),
           retried'[l] = retried[l],
           log'[l].attempts \in {log[l].attempts, 0},
           l \notin born' => l \notin born,
           \A w \in Workers : worker'[w].pc = "mark" /\ worker'[w].log = l =>
              worker'[w] = worker[w] \/ worker'[w].seen = log[l]
    PROVE  BudgetAt(l)'
<1>1. Budget(l)' = Budget(l) /\ Budget(l) \in Nat
    BY BudgetNat DEF Budget
<1>2. log[l].attempts \in Nat /\ \A w \in Workers : worker[w].seen.attempts \in Nat
    BY DEF TypeOK, LogRow, Worker
<1>3. RunsAhead(l) \in Nat
    BY AheadNat
<1>4. l \notin born' => log'[l].attempts = 0
    BY DEF BudgetAt
<1>5. log'[l].attempts + RunsAhead(l)' <= Budget(l)'
    BY <1>1, <1>2, <1>3 DEF BudgetAt
<1>6. ASSUME NEW w \in Workers, worker'[w].pc = "mark", worker'[w].log = l
      PROVE  worker'[w].seen.attempts + RunsAhead(l)' <= Budget(l)'
    <2>1. CASE worker'[w] = worker[w]
        BY <1>1, <1>2, <1>3, <1>6, <2>1 DEF BudgetAt
    <2>2. CASE worker'[w].seen = log[l]
        BY <1>1, <1>2, <1>3, <2>2 DEF BudgetAt
    <2> QED
        BY <1>6, <2>1, <2>2
<1> QED
    BY <1>4, <1>5, <1>6 DEF BudgetAt

LEMMA BudgetFrame ==
    ASSUME NEW l \in Logs, BudgetAt(l), queue'[l] = queue[l], worker' = worker,
           request' = request, log' = log, retried' = retried, born' = born
    PROVE  BudgetAt(l)'
<1>1. /\ MessageRuns(l)' = MessageRuns(l) /\ WorkerRuns(l)' = WorkerRuns(l)
      /\ HandlerRuns(l)' = HandlerRuns(l)
    BY DEF MessageRuns, WorkerRuns, FirstRuns, HandlerRuns, FirstsOwed
<1>2. RunsAhead(l)' = RunsAhead(l) /\ Budget(l)' = Budget(l)
    BY <1>1 DEF RunsAhead, Budget
<1> QED
    BY <1>1, <1>2 DEF BudgetAt

LEMMA FirstIdle ==
    ASSUME NEW l \in Logs
    PROVE  /\ FirstRun(IdleWorker, l) = MaxRetries + 1
           /\ FirstOwed(IdleRequest, l) = MaxRetries + 1
BY IdleTypes, NoLogAssumption DEF FirstRun, FirstOwed

LEMMA FlushAttempts ==
    ASSUME NEW row, NEW seen, NEW new
    PROVE  /\ new.attempts = seen.attempts => Flush(row, seen, new).attempts = row.attempts
           /\ new.attempts # seen.attempts => Flush(row, seen, new).attempts = new.attempts
BY DEF Flush, Column

LEMMA NoRuns ==
    ASSUME TypeOK, NEW l \in Logs
    PROVE  /\ (~Queued(l) => MessageRuns(l) = {})
           /\ (\A w \in Workers : ~Running(w, l)) => WorkerRuns(l) = {}
           /\ (\A r \in Requests : request[r].log # l) => HandlerRuns(l) = {}
<1>1. ASSUME ~Queued(l) PROVE MessageRuns(l) = {}
    <2>1. \A k \in 0..MaxRetries : queue[l][k] = 0
        BY <1>1, NotQueued
    <2>2. \A i \in Nat : ~(i < 0)
        OBVIOUS
    <2> QED
        BY <2>1, <2>2 DEF MessageRuns
<1>2. \A b \in 0..MaxRetries : ~(MaxRetries + 1 <= b)
    BY BoundsAssumption
<1>3. ASSUME \A w \in Workers : ~Running(w, l) PROVE WorkerRuns(l) = {}
    <2>1. \A w \in Workers : FirstRun(worker[w], l) = MaxRetries + 1
        BY <1>3 DEF FirstRun, Running
    <2> QED
        BY <1>2, <2>1 DEF WorkerRuns, Runs, FirstRuns
<1>4. ASSUME \A r \in Requests : request[r].log # l PROVE HandlerRuns(l) = {}
    <2>1. \A r \in Requests : FirstOwed(request[r], l) = MaxRetries + 1
        BY <1>4 DEF FirstOwed
    <2> QED
        BY <1>2, <2>1 DEF HandlerRuns, Runs, FirstsOwed
<1> QED
    BY <1>1, <1>3, <1>4

LEMMA BudgetInit == Init => BudgetInv
<1> SUFFICES ASSUME Init, NEW l \in Logs PROVE BudgetAt(l)
    BY DEF BudgetInv
<1>1. TypeOK /\ NoTask(l)
    <2>1. l \notin born
        BY DEF Init
    <2> QED
        BY <2>1, TypeInit, AloneInit DEF AloneInv
<1>2. MessageRuns(l) = {} /\ WorkerRuns(l) = {} /\ HandlerRuns(l) = {}
    BY <1>1, NoRuns DEF NoTask
<1>3. RunsAhead(l) = 0
    BY <1>2, FS_EmptySet DEF RunsAhead
<1>4. log[l].attempts = 0 /\ \A w \in Workers : worker[w].pc # "mark"
    BY DEF Init, NewRow, IdleWorker
<1>5. IsFiniteSet(MessageRuns(l)) /\ IsFiniteSet(WorkerRuns(l)) /\ IsFiniteSet(HandlerRuns(l))
    BY <1>2, FS_EmptySet
<1> QED
    BY <1>1, <1>3, <1>4, <1>5, BudgetNat DEF BudgetAt

\* What a handler's step does to the budget of an execution l, when the queue stays.
LEMMA HandlerStep ==
    ASSUME TypeOK, TypeOK', NEW l \in Logs, BudgetAt(l), NEW r \in Requests,
           \A s \in Requests : s # r => request'[s] = request[s],
           FirstOwed(request[r], l) <= FirstOwed(request'[r], l),
           queue' = queue, worker' = worker, retried'[l] = retried[l],
           l \notin born' => l \notin born,
           log'[l].attempts \in {log[l].attempts, 0}
    PROVE  BudgetAt(l)'
<1>1. MessageRuns(l)' = MessageRuns(l)
    BY DEF MessageRuns
<1>2. IsFiniteSet(MessageRuns(l))'
    BY <1>1 DEF BudgetAt
<1>3. /\ IsFiniteSet(WorkerRuns(l))' /\ IsFiniteSet(HandlerRuns(l))'
      /\ RunsAhead(l)' \in Nat
      /\ RunsAhead(l)' + Cardinality(MessageRuns(l)) + FirstOwed(request'[r], l)
           = RunsAhead(l) + Cardinality(MessageRuns(l))' + FirstOwed(request[r], l)
    BY <1>2, AheadOfHandler
<1>4. FirstOwed(request[r], l) \in Nat /\ FirstOwed(request'[r], l) \in Nat
    BY BoundsAssumption DEF FirstOwed
<1>5. RunsAhead(l)' <= RunsAhead(l)
    BY <1>1, <1>3, <1>4, AheadNat
<1> QED
    BY <1>2, <1>3, <1>5, BudgetKept

\* What a worker's step does to it when no attempt is counted.
LEMMA WorkerStep ==
    ASSUME TypeOK, TypeOK', NEW l \in Logs, BudgetAt(l), NEW w \in Workers,
           \A v \in Workers : v # w => worker'[v] = worker[v],
           IsFiniteSet(MessageRuns(l))',
           Cardinality(MessageRuns(l))' + FirstRun(worker[w], l)
              <= Cardinality(MessageRuns(l)) + FirstRun(worker'[w], l),
           request' = request, retried' = retried, born' = born,
           log'[l].attempts = log[l].attempts,
           worker'[w].pc = "mark" /\ worker'[w].log = l =>
              worker'[w] = worker[w] \/ worker'[w].seen = log[l]
    PROVE  BudgetAt(l)'
<1>1. /\ IsFiniteSet(WorkerRuns(l))' /\ IsFiniteSet(HandlerRuns(l))'
      /\ RunsAhead(l)' \in Nat
      /\ RunsAhead(l)' + Cardinality(MessageRuns(l)) + FirstRun(worker'[w], l)
           = RunsAhead(l) + Cardinality(MessageRuns(l))' + FirstRun(worker[w], l)
    BY AheadOfWorker
<1>2. FirstRun(worker[w], l) \in Nat /\ FirstRun(worker'[w], l) \in Nat
    <2>1. worker[w] \in Worker /\ worker'[w] \in Worker
        BY DEF TypeOK
    <2>2. \A n \in 0..(MaxRetries + 1) : n \in Nat
        BY BoundsAssumption
    <2> QED
        BY <2>1, <2>2, FirstTypes
<1>3. Cardinality(MessageRuns(l))' \in Nat
    BY FS_CardinalityType
<1>4. RunsAhead(l)' <= RunsAhead(l)
    BY <1>1, <1>2, <1>3, AheadNat
<1>5. \A v \in Workers : worker'[v].pc = "mark" /\ worker'[v].log = l =>
         worker'[v] = worker[v] \/ worker'[v].seen = log[l]
    OBVIOUS
<1> QED
    BY <1>1, <1>4, <1>5, BudgetKept

\* The steps of one handler.
LEMMA BudgetHandlers ==
    ASSUME TypeOK, TypeOK', AloneInv, BudgetInv, NEW x \in Logs, NEW r \in Requests,
           \/ \E l \in Logs : StartWebhook(r, l) \/ StartRetry(r, l) \/ StartCancel(r, l)
           \/ Serve(r)
           \/ CrashRequest(r)
    PROVE  BudgetAt(x)'
<1> USE DEF db, history
<1>0. /\ BudgetAt(x) /\ FirstOwed(IdleRequest, x) = MaxRetries + 1
      /\ FirstOwed(request[r], x) <= MaxRetries + 1
      /\ MaxRetries + 1 <= MaxRetries + 1
    BY FirstIdle, BoundsAssumption DEF BudgetInv, FirstOwed
<1>1. ASSUME Reply(r), queue' = queue, worker' = worker, retried' = retried, born' = born,
             log'[x].attempts = log[x].attempts
      PROVE  BudgetAt(x)'
    <2>1. /\ request'[r] = IdleRequest
          /\ \A s \in Requests : s # r => request'[s] = request[s]
        BY <1>1, HandlerSteps
    <2>2. FirstOwed(request[r], x) <= FirstOwed(request'[r], x)
        BY <1>0, <2>1
    <2> QED
        BY <1>0, <1>1, <2>1, <2>2, HandlerStep
<1>2. ASSUME Advance(r), queue' = queue, worker' = worker, retried' = retried, born' = born,
             log'[x].attempts \in {log[x].attempts, 0}
      PROVE  BudgetAt(x)'
    <2>1. /\ request'[r].op = request[r].op /\ request'[r].log = request[r].log
          /\ \A s \in Requests : s # r => request'[s] = request[s]
        BY <1>2, HandlerSteps
    <2>2. FirstOwed(request[r], x) <= FirstOwed(request'[r], x)
        BY <2>1, BoundsAssumption DEF FirstOwed
    <2> QED
        BY <1>0, <1>2, <2>1, <2>2, HandlerStep
<1>3. ASSUME NEW l \in Logs, NEW op \in {"webhook", "retry", "cancel"}, Handle(r, op, l),
             x # l \/ op = "cancel", queue' = queue, worker' = worker, log' = log,
             retried'[x] = retried[x], x \notin born' => x \notin born
      PROVE  BudgetAt(x)'
    <2>1. /\ request'[r].op = op /\ request'[r].log = l
          /\ \A s \in Requests : s # r => request'[s] = request[s]
        BY <1>3, HandlerSteps
    <2>2. FirstOwed(request'[r], x) = MaxRetries + 1
        BY <1>3, <2>1 DEF FirstOwed
    <2>3. FirstOwed(request[r], x) <= FirstOwed(request'[r], x)
        BY <1>0, <2>2
    <2> QED
        BY <1>0, <1>3, <2>1, <2>3, HandlerStep
<1>4. ASSUME NEW l \in Logs, StartWebhook(r, l) PROVE BudgetAt(x)'
    <2>1. CASE x # l
        BY <1>3, <1>4, <2>1 DEF StartWebhook, TypeOK
    <2>2. CASE x = l
        <3>1. NoTask(x) /\ log[x].attempts = 0
            BY <1>0, <1>4, <2>2 DEF StartWebhook, AloneInv, BudgetAt
        <3>2. MessageRuns(x) = {} /\ WorkerRuns(x) = {} /\ HandlerRuns(x) = {}
            BY <3>1, NoRuns DEF NoTask
        <3>3. RunsAhead(x) = 0
            BY <3>2, FS_EmptySet DEF RunsAhead
        <3>4. MessageRuns(x)' = MessageRuns(x)
            BY <1>4, MessagesKept DEF StartWebhook
        <3>5. IsFiniteSet(MessageRuns(x))'
            BY <3>2, <3>4, FS_EmptySet
        <3>6. \A s \in Requests : s # r => request'[s] = request[s]
            BY <1>4, HandlerSteps DEF StartWebhook
        <3>7. worker' = worker
            BY <1>4 DEF StartWebhook
        <3>8. /\ IsFiniteSet(WorkerRuns(x))' /\ IsFiniteSet(HandlerRuns(x))'
              /\ RunsAhead(x)' \in Nat
              /\ RunsAhead(x)' + Cardinality(MessageRuns(x)) + FirstOwed(request'[r], x)
                   = RunsAhead(x) + Cardinality(MessageRuns(x))' + FirstOwed(request[r], x)
            BY <1>0, <3>5, <3>6, <3>7, AheadOfHandler
        <3>9. /\ FirstOwed(request[r], x) \in Nat /\ FirstOwed(request'[r], x) \in Nat
              /\ FirstOwed(request[r], x) <= MaxRetries + 1
            BY BoundsAssumption DEF FirstOwed
        <3>10. RunsAhead(x)' <= MaxRetries + 1
            BY <3>3, <3>4, <3>8, <3>9, BoundsAssumption, <1>0, AheadNat
        <3>11. Budget(x)' = MaxRetries + 1
            <4>1. retried'[x] = 0
                BY <1>4, <3>1 DEF StartWebhook, NoTask
            <4> QED
                BY <4>1, BoundsAssumption DEF Budget
        <3>12. log'[x].attempts = 0
            BY <1>4, <3>1 DEF StartWebhook
        <3>13. \A w \in Workers : worker'[w].log # x
            BY <3>1, <3>7 DEF NoTask, Running
        <3> QED
            BY <3>5, <3>8, <3>10, <3>11, <3>12, <3>13, BoundsAssumption DEF BudgetAt
    <2> QED
        BY <2>1, <2>2
<1>5. ASSUME NEW l \in Logs, StartRetry(r, l) PROVE BudgetAt(x)'
    <2>1. CASE x # l
        <3>1. retried'[x] = retried[x]
            BY <1>5, <2>1 DEF StartRetry, TypeOK
        <3> QED
            BY <1>3, <1>5, <2>1, <3>1 DEF StartRetry
    <2>2. CASE x = l
        <3>1. retried'[x] = retried[x] + 1
            BY <1>5, <2>2 DEF StartRetry, TypeOK
        <3>2. Budget(x)' = Budget(x) + (MaxRetries + 1) /\ Budget(x) \in Nat
            BY <3>1, BudgetRises, BudgetNat
        <3>3. MessageRuns(x)' = MessageRuns(x)
            BY <1>5, MessagesKept DEF StartRetry
        <3>4. IsFiniteSet(MessageRuns(x))'
            BY <1>0, <3>3 DEF BudgetAt
        <3>5. \A s \in Requests : s # r => request'[s] = request[s]
            BY <1>5, HandlerSteps DEF StartRetry
        <3>6. worker' = worker /\ log' = log /\ born' = born
            BY <1>5 DEF StartRetry
        <3>7. /\ IsFiniteSet(WorkerRuns(x))' /\ IsFiniteSet(HandlerRuns(x))'
              /\ RunsAhead(x)' \in Nat
              /\ RunsAhead(x)' + Cardinality(MessageRuns(x)) + FirstOwed(request'[r], x)
                   = RunsAhead(x) + Cardinality(MessageRuns(x))' + FirstOwed(request[r], x)
            BY <1>0, <3>4, <3>5, <3>6, AheadOfHandler
        <3>8. /\ FirstOwed(request[r], x) \in Nat /\ FirstOwed(request'[r], x) \in Nat
              /\ FirstOwed(request[r], x) <= MaxRetries + 1
            BY BoundsAssumption DEF FirstOwed
        <3>9. RunsAhead(x)' <= RunsAhead(x) + (MaxRetries + 1)
            BY <1>0, <3>3, <3>7, <3>8, BoundsAssumption, AheadNat
        <3>10. RunsAhead(x) \in Nat /\ log[x].attempts \in Nat
               /\ \A w \in Workers : worker[w].seen.attempts \in Nat
            BY <1>0, AheadNat DEF TypeOK, LogRow, Worker
        <3>11. log'[x].attempts + RunsAhead(x)' <= Budget(x)'
            BY <1>0, <3>2, <3>6, <3>7, <3>9, <3>10, BoundsAssumption DEF BudgetAt
        <3>12. ASSUME NEW w \in Workers, worker'[w].pc = "mark", worker'[w].log = x
               PROVE  worker'[w].seen.attempts + RunsAhead(x)' <= Budget(x)'
            <4>1. worker[w].seen.attempts + RunsAhead(x) <= Budget(x)
                BY <1>0, <3>6, <3>12 DEF BudgetAt
            <4> QED
                BY <3>2, <3>6, <3>7, <3>9, <3>10, <4>1, BoundsAssumption
        <3>13. x \notin born' => log'[x].attempts = 0
            BY <1>0, <3>6 DEF BudgetAt
        <3> QED
            BY <3>4, <3>7, <3>11, <3>12, <3>13 DEF BudgetAt
    <2> QED
        BY <2>1, <2>2
<1>6. ASSUME NEW l \in Logs, StartCancel(r, l) PROVE BudgetAt(x)'
    BY <1>3, <1>6 DEF StartCancel
<1>7. CASE InsertLog(r)
    <2>1. log'[x].attempts \in {log[x].attempts, 0}
        BY <1>7 DEF InsertLog, TypeOK, NewRow
    <2> QED
        BY <1>2, <1>7, <2>1 DEF InsertLog
<1>8. CASE CommitRetry(r)
    <2>1. log'[x].attempts = log[x].attempts
        <3>1. PICK l \in Logs, seen \in LogRow : l = request[r].log /\ seen = request[r].seen
            BY <1>8 DEF CommitRetry, TypeOK, Request
        <3>2. Flush(log[l], seen, AsRetried(seen)).attempts = log[l].attempts
            BY FlushAttempts DEF AsRetried
        <3>3. PICK row : row = Flush(log[l], seen, AsRetried(seen))
            OBVIOUS
        <3>4. log' = [log EXCEPT ![l] = IF l \in rows THEN row ELSE log[l]]
            BY <1>8, <3>1, <3>3 DEF CommitRetry
        <3>5. log'[x] = log[x] \/ (x = l /\ log'[x] = row)
            BY <3>4 DEF TypeOK
        <3> QED
            BY <3>2, <3>3, <3>5
    <2> QED
        BY <1>2, <1>8, <2>1 DEF CommitRetry
<1>9. CASE CommitCancel(r)
    <2>1. log'[x].attempts = log[x].attempts
        <3>1. PICK l \in Logs, seen \in LogRow : l = request[r].log /\ seen = request[r].seen
            BY <1>9 DEF CommitCancel, TypeOK, Request
        <3>2. Flush(log[l], seen, AsCancelled(seen)).attempts = log[l].attempts
            BY FlushAttempts DEF AsCancelled
        <3>3. PICK row : row = Flush(log[l], seen, AsCancelled(seen))
            OBVIOUS
        <3>4. log' = [log EXCEPT ![l] = row]
            BY <1>9, <3>1, <3>3 DEF CommitCancel
        <3>5. log'[x] = log[x] \/ (x = l /\ log'[x] = row)
            BY <3>4 DEF TypeOK
        <3> QED
            BY <3>2, <3>3, <3>5
    <2> QED
        BY <1>1, <1>9, <2>1 DEF CommitCancel
<1>10. CASE Publish(r)
    <2>1. PICK l \in Logs : l = request[r].log
        BY <1>10 DEF Publish, TypeOK
    <2>2. /\ request'[r] = IdleRequest
          /\ \A s \in Requests : s # r => request'[s] = request[s]
        BY <1>10, HandlerSteps DEF Publish
    <2>3. FirstOwed(request'[r], x) = MaxRetries + 1
        BY <1>0, <2>2
    <2>4. FirstOwed(request[r], x) = IF x = l THEN 0 ELSE MaxRetries + 1
        BY <1>10, <2>1 DEF Publish, AloneInv, FirstOwed
    <2>5. Enqueue(l, 0) /\ 0 \in 0..MaxRetries
        BY <1>10, <2>1, BoundsAssumption DEF Publish
    <2>6. IsFiniteSet(MessageRuns(l)) /\ IsFiniteSet(MessageRuns(x))
        BY <1>0 DEF BudgetInv, BudgetAt
    <2>7. /\ IsFiniteSet(MessageRuns(l))'
          /\ Cardinality(MessageRuns(l))' = Cardinality(MessageRuns(l)) + (MaxRetries + 1 - 0)
          /\ \A y \in Logs : y # l => MessageRuns(y)' = MessageRuns(y)
        BY <2>5, <2>6, MessagesMore
    <2>8. IsFiniteSet(MessageRuns(x))'
        BY <2>6, <2>7
    <2>9. /\ worker' = worker /\ log' = log /\ retried' = retried /\ born' = born
        BY <1>10 DEF Publish
    <2>10. /\ IsFiniteSet(WorkerRuns(x))' /\ IsFiniteSet(HandlerRuns(x))'
           /\ RunsAhead(x)' \in Nat
           /\ RunsAhead(x)' + Cardinality(MessageRuns(x)) + FirstOwed(request'[r], x)
                = RunsAhead(x) + Cardinality(MessageRuns(x))' + FirstOwed(request[r], x)
        BY <1>0, <2>2, <2>8, <2>9, AheadOfHandler
    <2>11. RunsAhead(x)' = RunsAhead(x)
        <3>1. CASE x = l
            BY <1>0, <2>3, <2>4, <2>7, <2>10, <3>1, AheadNat, BoundsAssumption
        <3>2. CASE x # l
            BY <1>0, <2>3, <2>4, <2>7, <2>10, <3>2, AheadNat, BoundsAssumption
        <3> QED
            BY <3>1, <3>2
    <2>12. RunsAhead(x)' <= RunsAhead(x)
        BY <2>10, <2>11
    <2> QED
        BY <1>0, <2>8, <2>9, <2>10, <2>12, BudgetKept
<1>11. CASE AbortRequest(r)
    BY <1>1, <1>11 DEF AbortRequest
<1>12. CASE CrashRequest(r)
    BY <1>1, <1>12 DEF CrashRequest
<1> QED
    BY <1>4, <1>5, <1>6, <1>7, <1>8, <1>9, <1>10, <1>11, <1>12 DEF Serve

\* The steps of one worker.
LEMMA BudgetWorkers ==
    ASSUME TypeOK, TypeOK', AloneInv, BudgetInv, NEW x \in Logs, NEW w \in Workers,
           Take(w) \/ Work(w) \/ CrashWorker(w)
    PROVE  BudgetAt(x)'
<1> USE DEF db, history
<1>0. /\ BudgetAt(x) /\ FirstRun(IdleWorker, x) = MaxRetries + 1
      /\ IsFiniteSet(MessageRuns(x)) /\ Cardinality(MessageRuns(x)) \in Nat
    BY FirstIdle, AheadNat DEF BudgetInv, BudgetAt
<1>1. /\ FirstRun(worker[w], x) \in Nat /\ FirstRun(worker'[w], x) \in Nat
      /\ FirstRun(worker[w], x) <= MaxRetries + 1
    <2>1. worker[w] \in Worker /\ worker'[w] \in Worker
        BY DEF TypeOK
    <2>2. \A n \in 0..(MaxRetries + 1) : n \in Nat /\ n <= MaxRetries + 1
        BY BoundsAssumption
    <2> QED
        BY <2>1, <2>2, FirstTypes
<1>2. worker[w].retries \in 0..MaxRetries
    BY DEF TypeOK, Worker
<1>3. ASSUME queue' = queue, request' = request, retried' = retried, born' = born,
             log'[x].attempts = log[x].attempts,
             \A v \in Workers : v # w => worker'[v] = worker[v],
             FirstRun(worker[w], x) <= FirstRun(worker'[w], x),
             worker'[w].pc # "mark"
      PROVE  BudgetAt(x)'
    <2>1. MessageRuns(x)' = MessageRuns(x)
        BY <1>3, MessagesKept
    <2>2. /\ IsFiniteSet(MessageRuns(x))'
          /\ Cardinality(MessageRuns(x))' + FirstRun(worker[w], x)
                <= Cardinality(MessageRuns(x)) + FirstRun(worker'[w], x)
        BY <1>0, <1>1, <1>3, <2>1
    <2> QED
        BY <1>0, <1>3, <2>2, WorkerStep
<1>4. ASSUME Rest(w), queue' = queue, request' = request, retried' = retried, born' = born,
             log'[x].attempts = log[x].attempts
      PROVE  BudgetAt(x)'
    <2>1. /\ worker'[w] = IdleWorker
          /\ \A v \in Workers : v # w => worker'[v] = worker[v]
        BY <1>4, WorkerSteps
    <2>2. FirstRun(worker[w], x) <= FirstRun(worker'[w], x)
        BY <1>0, <1>1, <2>1
    <2>3. worker'[w].pc # "mark"
        BY <2>1, IdleTypes
    <2> QED
        BY <1>3, <1>4, <2>1, <2>2, <2>3
<1>5. ASSUME NEW l \in Logs, NEW k \in 0..MaxRetries, Fetch(w, l, k) PROVE BudgetAt(x)'
    <2>1. /\ worker'[w].pc = "mark" /\ worker'[w].log = l
          /\ worker'[w].retries = k /\ worker'[w].seen = log[l]
          /\ \A v \in Workers : v # w => worker'[v] = worker[v]
        BY <1>5, WorkerSteps
    <2>2. FirstRun(worker'[w], x) = IF x = l THEN k ELSE MaxRetries + 1
        BY <2>1 DEF FirstRun
    <2>3. Dequeue(l, k)
        BY <1>5 DEF Fetch
    <2>4. IsFiniteSet(MessageRuns(l))
        BY DEF BudgetInv, BudgetAt
    <2>5. /\ IsFiniteSet(MessageRuns(l))'
          /\ Cardinality(MessageRuns(l))' + (MaxRetries + 1 - k) = Cardinality(MessageRuns(l))
          /\ \A y \in Logs : y # l => MessageRuns(y)' = MessageRuns(y)
        BY <2>3, <2>4, MessagesFewer
    <2>6. /\ IsFiniteSet(MessageRuns(x))' /\ Cardinality(MessageRuns(x))' \in Nat
        <3>1. IsFiniteSet(MessageRuns(x))'
            BY <1>0, <2>5
        <3> QED
            BY <3>1, FS_CardinalityType
    <2>7. Cardinality(MessageRuns(x))' + FirstRun(worker[w], x)
             <= Cardinality(MessageRuns(x)) + FirstRun(worker'[w], x)
        <3>1. CASE x = l
            BY <1>0, <1>1, <2>2, <2>5, <2>6, <3>1, BoundsAssumption
        <3>2. CASE x # l
            BY <1>0, <1>1, <2>2, <2>5, <2>6, <3>2, BoundsAssumption
        <3> QED
            BY <3>1, <3>2
    <2>8. /\ request' = request /\ retried' = retried /\ born' = born /\ log' = log
        BY <1>5 DEF Fetch
    <2>9. worker'[w].log = x => worker'[w].seen = log[x]
        BY <2>1
    <2> QED
        BY <1>0, <2>1, <2>6, <2>7, <2>8, <2>9, WorkerStep
<1>6. ASSUME NEW l \in Logs, NEW k \in 0..MaxRetries, Discard(w, l, k) PROVE BudgetAt(x)'
    <2>1. Dequeue(l, k) /\ worker' = worker
        BY <1>6 DEF Discard
    <2>2. IsFiniteSet(MessageRuns(l))
        BY DEF BudgetInv, BudgetAt
    <2>3. /\ IsFiniteSet(MessageRuns(l))'
          /\ Cardinality(MessageRuns(l))' + (MaxRetries + 1 - k) = Cardinality(MessageRuns(l))
          /\ \A y \in Logs : y # l => MessageRuns(y)' = MessageRuns(y)
        BY <2>1, <2>2, MessagesFewer
    <2>4. /\ IsFiniteSet(MessageRuns(x))' /\ Cardinality(MessageRuns(x))' \in Nat
        <3>1. IsFiniteSet(MessageRuns(x))'
            BY <1>0, <2>3
        <3> QED
            BY <3>1, FS_CardinalityType
    <2>5. Cardinality(MessageRuns(x))' <= Cardinality(MessageRuns(x))
        <3>1. CASE x = l
            BY <1>0, <2>3, <2>4, <3>1, BoundsAssumption
        <3>2. CASE x # l
            BY <1>0, <2>3, <2>4, <3>2
        <3> QED
            BY <3>1, <3>2
    <2>6. Cardinality(MessageRuns(x))' + FirstRun(worker[w], x)
             <= Cardinality(MessageRuns(x)) + FirstRun(worker'[w], x)
        BY <1>0, <1>1, <2>1, <2>4, <2>5
    <2>7. /\ request' = request /\ retried' = retried /\ born' = born /\ log' = log
        BY <1>6 DEF Discard
    <2> QED
        BY <1>0, <2>1, <2>4, <2>6, <2>7, WorkerStep
<1>7. CASE Mark(w)
    <2>1. PICK l \in Logs, seen \in LogRow : l = worker[w].log /\ seen = worker[w].seen
        BY <1>7 DEF Mark, TypeOK, Worker
    <2>2. /\ worker'[w].pc = "load" /\ worker'[w].log = l
          /\ worker'[w].retries = worker[w].retries
          /\ \A v \in Workers : v # w => worker'[v] = worker[v]
        BY <1>7, <2>1, WorkerSteps
    <2>3. PICK row : row = Flush(log[l], seen, AsMarked(seen))
        OBVIOUS
    <2>4. log' = [log EXCEPT ![l] = row] /\ worker[w].pc = "mark" /\ l \in rows
        BY <1>7, <2>1, <2>3 DEF Mark
    <2>5. queue' = queue /\ request' = request /\ retried' = retried /\ born' = born
        BY <1>7 DEF Mark
    <2>6. CASE x # l
        <3>1. log'[x] = log[x]
            BY <2>4, <2>6 DEF TypeOK
        <3>2. FirstRun(worker[w], x) = MaxRetries + 1 /\ FirstRun(worker'[w], x) = MaxRetries + 1
            BY <2>1, <2>2, <2>6 DEF FirstRun
        <3>3. FirstRun(worker[w], x) <= FirstRun(worker'[w], x)
            BY <1>1, <3>2
        <3> QED
            BY <1>3, <2>2, <2>5, <3>1, <3>3
    <2>7. CASE x = l
        <3>1. /\ FirstRun(worker[w], x) = worker[w].retries
              /\ FirstRun(worker'[w], x) = worker[w].retries + 1
            BY <2>1, <2>2, <2>4, <2>7 DEF FirstRun
        <3>2. seen.attempts \in Nat /\ AsMarked(seen).attempts = seen.attempts + 1
            BY DEF LogRow, AsMarked
        <3>3. row.attempts = seen.attempts + 1
            <4>1. AsMarked(seen).attempts # seen.attempts
                BY <3>2
            <4> QED
                BY <2>3, <3>2, <4>1, FlushAttempts
        <3>4. log'[x].attempts = seen.attempts + 1
            BY <2>4, <2>7, <3>3 DEF TypeOK
        <3>5. MessageRuns(x)' = MessageRuns(x)
            BY <2>5, MessagesKept
        <3>6. IsFiniteSet(MessageRuns(x))'
            BY <1>0, <3>5
        <3>7. /\ IsFiniteSet(WorkerRuns(x))' /\ IsFiniteSet(HandlerRuns(x))'
              /\ RunsAhead(x)' \in Nat
              /\ RunsAhead(x)' + Cardinality(MessageRuns(x)) + FirstRun(worker'[w], x)
                   = RunsAhead(x) + Cardinality(MessageRuns(x))' + FirstRun(worker[w], x)
            BY <1>0, <2>2, <2>5, <3>6, AheadOfWorker
        <3>8. RunsAhead(x)' + 1 = RunsAhead(x)
            BY <1>0, <1>2, <3>1, <3>5, <3>7, AheadNat, BoundsAssumption
        <3>9. Budget(x)' = Budget(x) /\ Budget(x) \in Nat
            BY <2>5, BudgetNat DEF Budget
        <3>10. seen.attempts + RunsAhead(x) <= Budget(x)
            BY <1>0, <2>1, <2>4, <2>7 DEF BudgetAt
        <3>11. log'[x].attempts + RunsAhead(x)' <= Budget(x)'
            BY <3>2, <3>4, <3>7, <3>8, <3>9, <3>10
        <3>12. ASSUME NEW v \in Workers, worker'[v].pc = "mark", worker'[v].log = x
               PROVE  worker'[v].seen.attempts + RunsAhead(x)' <= Budget(x)'
            <4>1. worker'[v] = worker[v]
                BY <2>2, <3>12
            <4>2. worker[v].seen.attempts + RunsAhead(x) <= Budget(x)
                BY <1>0, <3>12, <4>1 DEF BudgetAt
            <4>3. worker[v].seen.attempts \in Nat
                BY DEF TypeOK, Worker, LogRow
            <4> QED
                BY <3>7, <3>8, <3>9, <4>1, <4>2, <4>3
        <3>13. x \in born'
            BY <2>4, <2>5, <2>7 DEF TypeOK
        <3> QED
            BY <3>6, <3>7, <3>11, <3>12, <3>13 DEF BudgetAt
    <2> QED
        BY <2>6, <2>7
<1>8. CASE Load(w)
    <2>1. /\ worker'[w].pc = "run" /\ worker'[w].log = worker[w].log
          /\ worker'[w].retries = worker[w].retries /\ worker[w].pc = "load"
          /\ \A v \in Workers : v # w => worker'[v] = worker[v]
        BY <1>8, WorkerSteps DEF Load
    <2>2. FirstRun(worker[w], x) = FirstRun(worker'[w], x)
        BY <2>1 DEF FirstRun
    <2>3. FirstRun(worker[w], x) <= FirstRun(worker'[w], x)
        BY <1>1, <2>2
    <2> QED
        BY <1>3, <1>8, <2>1, <2>3 DEF Load
<1>9. CASE Tally(w)
    <2>1. /\ worker'[w].pc = "commit"
          /\ \A v \in Workers : v # w => worker'[v] = worker[v]
        BY <1>9, WorkerSteps
    <2>2. FirstRun(worker'[w], x) = MaxRetries + 1
        BY <2>1 DEF FirstRun
    <2>3. FirstRun(worker[w], x) <= FirstRun(worker'[w], x)
        BY <1>1, <2>2
    <2> QED
        BY <1>3, <1>9, <2>1, <2>3 DEF Tally
<1>10. CASE Republish(w)
    <2>1. PICK l \in Logs : l = worker[w].log
        BY <1>10 DEF Republish, TypeOK
    <2>2. PICK k \in 0..MaxRetries : k = worker[w].retries + 1
        BY <1>2, <1>10, BoundsAssumption DEF Republish
    <2>3. Enqueue(l, k) /\ Rest(w) /\ worker[w].pc = "run"
        BY <1>10, <2>1, <2>2 DEF Republish
    <2>4. /\ worker'[w] = IdleWorker
          /\ \A v \in Workers : v # w => worker'[v] = worker[v]
        BY <2>3, WorkerSteps
    <2>5. IsFiniteSet(MessageRuns(l))
        BY DEF BudgetInv, BudgetAt
    <2>6. /\ IsFiniteSet(MessageRuns(l))'
          /\ Cardinality(MessageRuns(l))' = Cardinality(MessageRuns(l)) + (MaxRetries + 1 - k)
          /\ \A y \in Logs : y # l => MessageRuns(y)' = MessageRuns(y)
        BY <2>3, <2>5, MessagesMore
    <2>7. FirstRun(worker[w], x) = IF x = l THEN k ELSE MaxRetries + 1
        BY <2>1, <2>2, <2>3 DEF FirstRun
    <2>8. FirstRun(worker'[w], x) = MaxRetries + 1
        BY <1>0, <2>4
    <2>9. IsFiniteSet(MessageRuns(x))'
        BY <1>0, <2>6
    <2>10. Cardinality(MessageRuns(x))' + FirstRun(worker[w], x)
              <= Cardinality(MessageRuns(x)) + FirstRun(worker'[w], x)
        <3>1. CASE x = l
            BY <1>0, <2>6, <2>7, <2>8, <3>1, BoundsAssumption
        <3>2. CASE x # l
            BY <1>0, <2>6, <2>7, <2>8, <3>2, BoundsAssumption
        <3> QED
            BY <3>1, <3>2
    <2>11. request' = request /\ retried' = retried /\ born' = born /\ log' = log
        BY <1>10 DEF Republish
    <2>12. worker'[w].pc # "mark"
        BY <2>4, IdleTypes
    <2> QED
        BY <1>0, <2>4, <2>9, <2>10, <2>11, <2>12, WorkerStep
<1>11. CASE Commit(w)
    <2>1. PICK l \in Logs, seen \in LogRow, success \in BOOLEAN :
             l = worker[w].log /\ seen = worker[w].seen /\ success = worker[w].runs
        BY <1>11 DEF Commit, TypeOK, Worker
    <2>2. PICK row : row = Flush(log[l], seen, AsSettled(seen, success))
        OBVIOUS
    <2>3. row.attempts = log[l].attempts
        BY <2>2, FlushAttempts DEF AsSettled
    <2>4. log' = [log EXCEPT ![l] = row]
        BY <1>11, <2>1, <2>2 DEF Commit
    <2>5. log'[x].attempts = log[x].attempts
        BY <2>3, <2>4 DEF TypeOK
    <2> QED
        BY <1>4, <1>11, <2>5 DEF Commit
<1>12. CASE Abandon(w)
    BY <1>4, <1>12 DEF Abandon
<1>13. CASE CrashWorker(w)
    BY <1>4, <1>13 DEF CrashWorker
<1> QED
    BY <1>5, <1>6, <1>7, <1>8, <1>9, <1>10, <1>11, <1>12, <1>13 DEF Take, Work

LEMMA BudgetNext ==
    ASSUME TypeOK, TypeOK', AloneInv, BudgetInv, [Next]_vars
    PROVE  BudgetInv'
<1> USE DEF db, history
<1> SUFFICES ASSUME NEW x \in Logs PROVE BudgetAt(x)'
    BY DEF BudgetInv
<1>1. BudgetAt(x)
    BY DEF BudgetInv
<1>2. CASE Administer
    <2>1. /\ queue' = queue /\ worker' = worker /\ request' = request /\ log' = log
          /\ retried' = retried /\ born' = born
        BY <1>2 DEF Administer, CreateWorkflow, UpdateWorkflow, DeleteWorkflow, GetUsage
    <2> QED
        BY <1>1, <2>1, BudgetFrame
<1>3. ASSUME NEW r \in Requests, Arrive(r) \/ Serve(r) PROVE BudgetAt(x)'
    BY <1>3, BudgetHandlers DEF Arrive
<1>4. ASSUME NEW w \in Workers, Take(w) \/ Work(w) PROVE BudgetAt(x)'
    BY <1>4, BudgetWorkers
<1>5. CASE Fault
    BY <1>5, BudgetHandlers, BudgetWorkers DEF Fault
<1>6. CASE UNCHANGED vars
    BY <1>1, <1>6, BudgetFrame DEF vars
<1> QED
    BY <1>2, <1>3, <1>4, <1>5, <1>6 DEF Next

\* Every webhook call and every call of the retry endpoint pays for at most
\* max_retries + 1 attempts, however messages, workers with stale rows, faults and
\* deletions interleave (tasks.py, enqueue_webhook, executions.py).
THEOREM AttemptsBudget == Spec => []AttemptsWithinBudget
<1>1. TypeOK /\ AloneInv /\ BudgetInv /\ [Next]_vars => BudgetInv'
    BY TypeNext, BudgetNext
<1>2. TypeOK /\ BudgetInv => AttemptsWithinBudget
    <2> SUFFICES ASSUME TypeOK, BudgetInv, NEW l \in rows
                 PROVE  log[l].attempts <= Budget(l)
        BY DEF AttemptsWithinBudget, Budget
    <2>1. l \in Logs
        BY DEF TypeOK
    <2>2. BudgetAt(l)
        BY <2>1 DEF BudgetInv
    <2>3. log[l].attempts \in Nat /\ Budget(l) \in Nat /\ RunsAhead(l) \in Nat
        BY <2>1, <2>2, BudgetNat, AheadNat DEF TypeOK, LogRow
    <2> QED
        BY <2>2, <2>3 DEF BudgetAt
<1> QED
    BY <1>1, <1>2, TypeInit, TypeNext, AloneInit, AloneNext, BudgetInit, PTL DEF Spec
=============================================================================
