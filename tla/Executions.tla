----------------------------- MODULE Executions -----------------------------
(***************************************************************************)
(* The execution pipeline of the FastAPI backend: a webhook call inserts a  *)
(* row of the table logs and publishes a Celery task message; a worker      *)
(* process takes the message, runs the workflow definition and records the  *)
(* result in the row and in the tenant's usage_summary; API clients retry   *)
(* and cancel executions, and change, disable and delete workflows, at the  *)
(* same time.                                                               *)
(*                                                                         *)
(* A step is one database round trip: a SELECT, or the flush and COMMIT of  *)
(* a session.  Sessions run at READ COMMITTED, so a row may change between  *)
(* a session's SELECT and its UPDATE, and an UPDATE names only the columns  *)
(* whose value differs from the one the session has loaded.                 *)
(***************************************************************************)
EXTENDS Naturals, FiniteSets

CONSTANTS
    Tenants, Workflows,     \* organisations, and every workflow ever created
    Logs,                   \* the ids of every execution ever inserted
    TenantOf,               \* workflow -> tenant
    WorkflowOf,             \* execution -> workflow
    Registered,             \* tenants that auth_service.register created, with a usage row
    Workers,                \* Celery worker processes
    Requests,               \* API handlers that may be in progress at once
    NoLog,                  \* "no execution": the log of an idle worker or handler
    Operations,             \* what clients do besides calling webhooks
    MaxRetries,             \* max_retries of process_log_task
    FreePlanLimit,          \* settings.free_plan_limit
    MaxManualRetries,       \* bound: calls of the retry endpoint per execution
    MaxFaults               \* bound: crashes and broker failures

AllOperations == {"retry", "cancel", "update", "delete"}

ASSUME TenantOfAssumption == TenantOf \in [Workflows -> Tenants]
ASSUME WorkflowOfAssumption == WorkflowOf \in [Logs -> Workflows]
ASSUME RegisteredAssumption == Registered \subseteq Tenants
ASSUME NoLogAssumption == NoLog \notin Logs
ASSUME WorkersAssumption == IsFiniteSet(Workers)
ASSUME OperationsAssumption == Operations \subseteq AllOperations
ASSUME BoundsAssumption ==
    /\ MaxRetries \in Nat
    /\ FreePlanLimit \in Nat
    /\ MaxManualRetries \in Nat
    /\ MaxFaults \in Nat

VARIABLES
    workflow,   \* table workflows: is_active, and what running the definition does
    born,       \* the log ids handed out so far
    rows,       \* the ids that are in table logs now
    log,        \* table logs: status, error_message, attempts
    usage,      \* table usage_summary
    queue,      \* the broker: task messages by execution and request.retries
    worker,     \* the worker processes
    request,    \* the API handlers in progress
    retried,    \* history: calls of the retry endpoint, by execution
    finished,   \* history: results committed, by tenant
    lost,       \* history: executions whose task a fault has dropped
    faults      \* history: how many faults there were

db == <<workflow, born, rows, log, usage>>
history == <<retried, finished, lost, faults>>
vars == <<db, queue, worker, request, history>>

-----------------------------------------------------------------------------
(* The rows of the tables. *)

LogStatus == {"PENDING", "PROCESSING", "SUCCESS", "FAILED"}
Unfinished == {"PENDING", "PROCESSING"}

\* "raised" is str(exc) of the exception that the definition raises.
ErrorMessage == {"none", "cancelled", "raised"}

LogRow == [status : LogStatus, error : ErrorMessage, attempts : Nat]
NewRow == [status |-> "PENDING", error |-> "none", attempts |-> 0]

UsageRow == [present : BOOLEAN, total : Nat, successful : Nat, failed : Nat]
NewUsage(present) ==
    [present |-> present, total |-> 0, successful |-> 0, failed |-> 0]

\* runs: _run_definition returns a value.  It raises if a step is an http
\* step or an ai step whose operation is not "summarize".
WorkflowRow ==
    [state : {"absent", "active", "disabled", "deleted"}, runs : BOOLEAN]
InTable(w) == workflow[w].state \in {"active", "disabled"}

Worker ==
    [pc : {"idle", "mark", "load", "run", "commit"}, log : Logs \cup {NoLog},
     retries : 0..MaxRetries, seen : LogRow, runs : BOOLEAN, tally : UsageRow]
IdleWorker ==
    [pc |-> "idle", log |-> NoLog, retries |-> 0, seen |-> NewRow,
     runs |-> FALSE, tally |-> NewUsage(FALSE)]

Request ==
    [op : {"none", "webhook", "retry", "cancel"}, pc : {"idle", "commit", "publish"},
     log : Logs \cup {NoLog}, seen : LogRow]
IdleRequest == [op |-> "none", pc |-> "idle", log |-> NoLog, seen |-> NewRow]

LogTenant(l) == TenantOf[WorkflowOf[l]]

\* The row after a session that loaded `seen` and assigned `new` flushes.
Column(current, seen, new) == IF new = seen THEN current ELSE new
Flush(row, seen, new) ==
    [status   |-> Column(row.status, seen.status, new.status),
     error    |-> Column(row.error, seen.error, new.error),
     attempts |-> Column(row.attempts, seen.attempts, new.attempts)]

\* Mutant: only successful runs are counted.
IncrementOnSuccessOnly(row, tally, success) ==
    IF ~tally.present \/ ~success THEN row
    ELSE [row EXCEPT !.total = tally.total + 1, !.successful = tally.successful + 1]

\* _increment_usage on the counters `tally` the session has loaded.  The UPDATE
\* names total_executions and one of the two other counters.
IncrementUsage(row, tally, success) ==
    IF ~tally.present THEN row
    ELSE [present    |-> row.present,
          total      |-> tally.total + 1,
          successful |-> IF success THEN tally.successful + 1 ELSE row.successful,
          failed     |-> IF success THEN row.failed ELSE tally.failed + 1]

\* No code sets the plan of a usage row to anything but FREE.
OverQuota(t) == usage[t].present /\ usage[t].total >= FreePlanLimit

Enqueue(l, k) == queue' = [queue EXCEPT ![l][k] = @ + 1]
Dequeue(l, k) == queue[l][k] > 0 /\ queue' = [queue EXCEPT ![l][k] = @ - 1]

TypeOK ==
    /\ workflow \in [Workflows -> WorkflowRow]
    /\ born \subseteq Logs
    /\ rows \subseteq born
    /\ log \in [Logs -> LogRow]
    /\ usage \in [Tenants -> UsageRow]
    /\ queue \in [Logs -> [0..MaxRetries -> Nat]]
    /\ worker \in [Workers -> Worker]
    /\ \A w \in Workers : worker[w].pc # "idle" => worker[w].log \in Logs
    /\ request \in [Requests -> Request]
    /\ \A r \in Requests : request[r].pc # "idle" => request[r].log \in born
    /\ retried \in [Logs -> Nat]
    /\ finished \in [Tenants -> [ok : Nat, failed : Nat]]
    /\ lost \subseteq Logs
    /\ faults \in Nat

Init ==
    /\ workflow = [w \in Workflows |-> [state |-> "absent", runs |-> TRUE]]
    /\ born = {}
    /\ rows = {}
    /\ log = [l \in Logs |-> NewRow]
    /\ usage = [t \in Tenants |-> NewUsage(t \in Registered)]
    /\ queue = [l \in Logs |-> [k \in 0..MaxRetries |-> 0]]
    /\ worker = [w \in Workers |-> IdleWorker]
    /\ request = [r \in Requests |-> IdleRequest]
    /\ retried = [l \in Logs |-> 0]
    /\ finished = [t \in Tenants |-> [ok |-> 0, failed |-> 0]]
    /\ lost = {}
    /\ faults = 0

-----------------------------------------------------------------------------
(* Workflows and usage. *)

CreateWorkflow(w, runs) ==
    /\ workflow[w].state = "absent"
    /\ workflow' = [workflow EXCEPT ![w] = [state |-> "active", runs |-> runs]]
    /\ UNCHANGED <<born, rows, log, usage, queue, worker, request, history>>

\* PATCH of a workflow, which activate and deactivate call as well.
UpdateWorkflow(w, state, runs) ==
    /\ "update" \in Operations
    /\ InTable(w)
    /\ workflow' = [workflow EXCEPT ![w] = [state |-> state, runs |-> runs]]
    /\ UNCHANGED <<born, rows, log, usage, queue, worker, request, history>>

\* The ORM and the foreign key both cascade to the workflow's logs.
DeleteWorkflow(w) ==
    /\ "delete" \in Operations
    /\ InTable(w)
    /\ workflow' = [workflow EXCEPT ![w].state = "deleted"]
    /\ rows' = {l \in rows : WorkflowOf[l] # w}
    /\ UNCHANGED <<born, log, usage, queue, worker, request, history>>

\* Mutant: get_usage writes a fresh row without looking for one.
GetUsageUnchecked(t) ==
    /\ usage' = [usage EXCEPT ![t] = NewUsage(TRUE)]
    /\ UNCHANGED <<workflow, born, rows, log, queue, worker, request, history>>

\* get_usage creates the usage row of a tenant that has none.
GetUsage(t) ==
    /\ ~usage[t].present
    /\ usage' = [usage EXCEPT ![t] = NewUsage(TRUE)]
    /\ UNCHANGED <<workflow, born, rows, log, queue, worker, request, history>>

-----------------------------------------------------------------------------
(* API handlers.  pc = "commit": the SELECTs and checks are done and the    *)
(* session has unwritten changes; pc = "publish": they are committed and    *)
(* process_log_task.delay is yet to be called.                              *)

Handle(r, op, l) ==
    request' = [request EXCEPT ![r] =
                   [op |-> op, pc |-> "commit", log |-> l, seen |-> log[l]]]
Advance(r) == request' = [request EXCEPT ![r].pc = "publish"]
Reply(r) == request' = [request EXCEPT ![r] = IdleRequest]

\* enqueue_webhook up to the INSERT: the key names an active workflow and the
\* usage row, read here, is below the limit.
StartWebhook(r, l) ==
    /\ request[r].pc = "idle"
    /\ l \notin born
    /\ workflow[WorkflowOf[l]].state = "active"
    /\ ~OverQuota(LogTenant(l))
    /\ born' = born \cup {l}
    /\ Handle(r, "webhook", l)
    /\ UNCHANGED <<workflow, rows, log, usage, queue, worker, history>>

InsertLog(r) ==
    LET l == request[r].log IN
    /\ request[r].op = "webhook" /\ request[r].pc = "commit"
    /\ InTable(WorkflowOf[l])
    /\ rows' = rows \cup {l}
    /\ log' = [log EXCEPT ![l] = NewRow]
    /\ Advance(r)
    /\ UNCHANGED <<workflow, born, usage, queue, worker, history>>

\* The retry endpoint looks at no status.
StartRetry(r, l) ==
    /\ "retry" \in Operations
    /\ request[r].pc = "idle"
    /\ l \in rows
    /\ retried[l] < MaxManualRetries
    /\ retried' = [retried EXCEPT ![l] = @ + 1]
    /\ Handle(r, "retry", l)
    /\ UNCHANGED <<db, queue, worker, finished, lost, faults>>

AsRetried(row) == [status |-> "PENDING", error |-> "none", attempts |-> row.attempts]

CommitRetry(r) ==
    LET l == request[r].log
        seen == request[r].seen
    IN
    /\ request[r].op = "retry" /\ request[r].pc = "commit"
    /\ l \in rows \/ AsRetried(seen) = seen
    /\ log' = [log EXCEPT ![l] = IF l \in rows THEN Flush(@, seen, AsRetried(seen)) ELSE @]
    /\ Advance(r)
    /\ UNCHANGED <<workflow, born, rows, usage, queue, worker, history>>

\* The cancel endpoint refuses a SUCCESS it reads; it does not touch the queue.
StartCancel(r, l) ==
    /\ "cancel" \in Operations
    /\ request[r].pc = "idle"
    /\ l \in rows
    /\ log[l].status # "SUCCESS"
    /\ Handle(r, "cancel", l)
    /\ UNCHANGED <<db, queue, worker, history>>

\* Mutant: the status that the older TypeScript API writes.
AsCancelledThere(row) ==
    [status |-> "CANCELLED", error |-> "cancelled", attempts |-> row.attempts]

AsCancelled(row) == [status |-> "FAILED", error |-> "cancelled", attempts |-> row.attempts]

CommitCancel(r) ==
    LET l == request[r].log
        seen == request[r].seen
    IN
    /\ request[r].op = "cancel" /\ request[r].pc = "commit"
    /\ l \in rows
    /\ log' = [log EXCEPT ![l] = Flush(@, seen, AsCancelled(seen))]
    /\ Reply(r)
    /\ UNCHANGED <<workflow, born, rows, usage, queue, worker, history>>

\* A fresh message.  From here on the execution is in the broker's hands again.
Publish(r) ==
    LET l == request[r].log IN
    /\ request[r].pc = "publish"
    /\ l \in rows
    /\ Enqueue(l, 0)
    /\ lost' = lost \ {l}
    /\ Reply(r)
    /\ UNCHANGED <<db, worker, retried, finished, faults>>

\* A handler ends with an error when its row is gone: a foreign key violation
\* on INSERT, StaleDataError on UPDATE, ObjectDeletedError on reading log.id.
AbortRequest(r) ==
    /\ \/ /\ request[r].op = "webhook" /\ request[r].pc = "commit"
          /\ ~InTable(WorkflowOf[request[r].log])
       \/ /\ request[r].op \in {"retry", "cancel"} /\ request[r].pc = "commit"
          /\ request[r].log \notin rows
       \/ /\ request[r].pc = "publish"
          /\ request[r].log \notin rows
    /\ Reply(r)
    /\ UNCHANGED <<db, queue, worker, history>>

-----------------------------------------------------------------------------
(* process_log_task. *)

Rest(w) == worker' = [worker EXCEPT ![w] = IdleWorker]

\* Mutant: the message stays with the broker while the task runs.
FetchUnacknowledged(w, l, k) ==
    /\ worker[w].pc = "idle"
    /\ l \in rows
    /\ queue[l][k] > 0
    /\ worker' = [worker EXCEPT ![w] =
                     [IdleWorker EXCEPT !.pc = "mark", !.log = l, !.retries = k, !.seen = log[l]]]
    /\ UNCHANGED <<db, queue, request, history>>

\* The worker acknowledges a message as it starts the task, and reads the row.
Fetch(w, l, k) ==
    /\ worker[w].pc = "idle"
    /\ l \in rows
    /\ Dequeue(l, k)
    /\ worker' = [worker EXCEPT ![w] =
                     [IdleWorker EXCEPT !.pc = "mark", !.log = l, !.retries = k, !.seen = log[l]]]
    /\ UNCHANGED <<db, request, history>>

\* Mutant: a task returns as well when its execution is not PENDING.
DiscardUnlessPending(w, l, k) ==
    /\ worker[w].pc = "idle"
    /\ l \notin rows \/ log[l].status # "PENDING"
    /\ Dequeue(l, k)
    /\ UNCHANGED <<db, worker, request, history>>

\* `if not log: return'
Discard(w, l, k) ==
    /\ worker[w].pc = "idle"
    /\ l \notin rows
    /\ Dequeue(l, k)
    /\ UNCHANGED <<db, worker, request, history>>

AsMarked(row) ==
    [status |-> "PROCESSING", error |-> row.error, attempts |-> row.attempts + 1]

Mark(w) ==
    LET l == worker[w].log
        seen == worker[w].seen
    IN
    /\ worker[w].pc = "mark"
    /\ l \in rows
    /\ log' = [log EXCEPT ![l] = Flush(@, seen, AsMarked(seen))]
    /\ worker' = [worker EXCEPT ![w].pc = "load"]
    /\ UNCHANGED <<workflow, born, rows, usage, queue, request, history>>

\* commit() expired the row, so log.workflow_id loads it anew; then the
\* workflow is read, with the definition that will run.
Load(w) ==
    LET l == worker[w].log IN
    /\ worker[w].pc = "load"
    /\ l \in rows
    /\ worker' = [worker EXCEPT ![w] =
                     [@ EXCEPT !.pc = "run", !.seen = log[l],
                               !.runs = workflow[WorkflowOf[l]].runs]]
    /\ UNCHANGED <<db, queue, request, history>>

\* Mutant: gives up one attempt early.
TallyEarly(w) ==
    LET l == worker[w].log IN
    /\ worker[w].pc = "run"
    /\ worker[w].runs \/ (worker[w].retries + 1 >= MaxRetries /\ l \in rows)
    /\ worker' = [worker EXCEPT ![w] =
                     [@ EXCEPT !.pc = "commit", !.tally = usage[LogTenant(l)]]]
    /\ UNCHANGED <<db, queue, request, history>>

\* The definition has run, or has raised for the last time: read the usage row.
Tally(w) ==
    LET l == worker[w].log IN
    /\ worker[w].pc = "run"
    /\ worker[w].runs \/ (worker[w].retries = MaxRetries /\ l \in rows)
    /\ worker' = [worker EXCEPT ![w] =
                     [@ EXCEPT !.pc = "commit", !.tally = usage[LogTenant(l)]]]
    /\ UNCHANGED <<db, queue, request, history>>

\* Mutants: request.retries is not counted up; every failed attempt is counted
\* as a failed execution.
RepublishUncounted(w) ==
    /\ worker[w].pc = "run" /\ ~worker[w].runs
    /\ worker[w].log \in rows
    /\ Enqueue(worker[w].log, worker[w].retries)
    /\ Rest(w)
    /\ UNCHANGED <<db, request, history>>

RepublishBilled(w) ==
    LET l == worker[w].log
        t == LogTenant(l)
    IN
    /\ worker[w].pc = "run" /\ ~worker[w].runs /\ worker[w].retries < MaxRetries
    /\ l \in rows
    /\ usage' = [usage EXCEPT ![t] = IncrementUsage(@, @, FALSE)]
    /\ Enqueue(l, worker[w].retries + 1)
    /\ Rest(w)
    /\ UNCHANGED <<workflow, born, rows, log, request, history>>

\* The definition has raised and request.retries < max_retries: self.retry
\* publishes the task again, with a countdown, and ends this one.
Republish(w) ==
    LET l == worker[w].log IN
    /\ worker[w].pc = "run"
    /\ ~worker[w].runs
    /\ worker[w].retries < MaxRetries
    /\ l \in rows
    /\ Enqueue(l, worker[w].retries + 1)
    /\ Rest(w)
    /\ UNCHANGED <<db, request, history>>

AsSettled(row, success) ==
    [status   |-> IF success THEN "SUCCESS" ELSE "FAILED",
     error    |-> IF success THEN "none" ELSE "raised",
     attempts |-> row.attempts]

Commit(w) ==
    LET l == worker[w].log
        t == LogTenant(l)
        seen == worker[w].seen
        success == worker[w].runs
    IN
    /\ worker[w].pc = "commit"
    /\ l \in rows
    /\ log' = [log EXCEPT ![l] = Flush(@, seen, AsSettled(seen, success))]
    /\ usage' = [usage EXCEPT ![t] = IncrementUsage(@, worker[w].tally, success)]
    /\ finished' = IF success THEN [finished EXCEPT ![t].ok = @ + 1]
                              ELSE [finished EXCEPT ![t].failed = @ + 1]
    /\ Rest(w)
    /\ UNCHANGED <<workflow, born, rows, queue, request, retried, lost, faults>>

\* The row is gone: the UPDATE or the reload raises, and so does the except
\* branch.  Nothing is written and nothing published.
Abandon(w) ==
    /\ worker[w].pc # "idle"
    /\ worker[w].log \notin rows
    /\ ~(worker[w].pc = "run" /\ worker[w].runs)
    /\ Rest(w)
    /\ UNCHANGED <<db, queue, request, history>>

-----------------------------------------------------------------------------
(* Faults. *)

\* The worker process dies.  Its message is acknowledged, so nobody has it.
CrashWorker(w) ==
    /\ worker[w].pc # "idle"
    /\ faults < MaxFaults
    /\ faults' = faults + 1
    /\ lost' = lost \cup {worker[w].log}
    /\ Rest(w)
    /\ UNCHANGED <<db, queue, request, retried, finished>>

\* The API process dies, or the broker refuses the message.
CrashRequest(r) ==
    /\ request[r].pc # "idle"
    /\ faults < MaxFaults
    /\ faults' = faults + 1
    /\ lost' = IF request[r].pc = "publish" THEN lost \cup {request[r].log} ELSE lost
    /\ Reply(r)
    /\ UNCHANGED <<db, queue, worker, retried, finished>>

-----------------------------------------------------------------------------

Take(w) == \E l \in Logs, k \in 0..MaxRetries : Fetch(w, l, k) \/ Discard(w, l, k)

Work(w) ==
    \/ Mark(w)
    \/ Load(w)
    \/ Tally(w)
    \/ Republish(w)
    \/ Commit(w)
    \/ Abandon(w)

Serve(r) ==
    \/ InsertLog(r)
    \/ CommitRetry(r)
    \/ CommitCancel(r)
    \/ Publish(r)
    \/ AbortRequest(r)

Arrive(r) ==
    \E l \in Logs : StartWebhook(r, l) \/ StartRetry(r, l) \/ StartCancel(r, l)

Administer ==
    \/ \E w \in Workflows, runs \in BOOLEAN : CreateWorkflow(w, runs)
    \/ \E w \in Workflows, state \in {"active", "disabled"}, runs \in BOOLEAN :
          UpdateWorkflow(w, state, runs)
    \/ \E w \in Workflows : DeleteWorkflow(w)
    \/ \E t \in Tenants : GetUsage(t)

Fault ==
    \/ \E w \in Workers : CrashWorker(w)
    \/ \E r \in Requests : CrashRequest(r)

Next ==
    \/ Administer
    \/ \E r \in Requests : Arrive(r) \/ Serve(r)
    \/ \E w \in Workers : Take(w) \/ Work(w)
    \/ Fault

Spec == Init /\ [][Next]_vars

\* Worker processes keep consuming and finish what they start; a handler that
\* has begun runs to its reply.  Clients and faults owe nothing.
Fairness ==
    /\ \A w \in Workers : WF_vars(Take(w)) /\ WF_vars(Work(w))
    /\ \A r \in Requests : WF_vars(Serve(r))

FairSpec == Spec /\ Fairness

-----------------------------------------------------------------------------
(* Properties. *)

Queued(l) == \E k \in 0..MaxRetries : queue[l][k] > 0

\* Some message or handler will have a PENDING execution run: a message, the
\* handler that is about to publish one, or the worker that is starting it.
PendingIsOwned(l) ==
    \/ Queued(l)
    \/ \E r \in Requests : request[r].pc = "publish" /\ request[r].log = l
    \/ \E w \in Workers : /\ worker[w].pc = "mark"
                          /\ worker[w].log = l
                          /\ worker[w].seen.status = "PENDING"

\* Some worker will write the result of a PROCESSING execution: one that has
\* it and either will load the row again, or has loaded PROCESSING from it (a
\* worker that has loaded SUCCESS writes no status when it succeeds).
ProcessingIsOwned(l) ==
    \/ Queued(l)
    \/ \E w \in Workers :
          /\ worker[w].log = l
          /\ \/ worker[w].pc \in {"mark", "load"}
             \/ worker[w].pc \in {"run", "commit"} /\ worker[w].seen.status = "PROCESSING"

\* An execution that shows PENDING or PROCESSING is in somebody's hands, however
\* retries, cancellations, stale writes and deletions interleave, unless a fault
\* has dropped its task and it has not been published again (tasks.py,
\* executions.py, enqueue_webhook).
UnfinishedIsOwned ==
    \A l \in rows \ lost :
        /\ log[l].status = "PENDING" => PendingIsOwned(l)
        /\ log[l].status = "PROCESSING" => ProcessingIsOwned(l)

\* A tenant is never billed for more than the results that were committed:
\* the read-modify-write of _increment_usage loses updates and never invents one.
UsageNeverOvercounts ==
    \A t \in Tenants :
        /\ usage[t].total <= finished[t].ok + finished[t].failed
        /\ usage[t].successful <= finished[t].ok
        /\ usage[t].failed <= finished[t].failed

\* With one worker process the counters of a registered tenant are exact, also
\* after crashes, for no other session writes between _increment_usage's read
\* and its commit.
SerialUsageIsExact ==
    Cardinality(Workers) = 1 =>
        \A t \in Registered :
            /\ usage[t].total = finished[t].ok + finished[t].failed
            /\ usage[t].successful = finished[t].ok
            /\ usage[t].failed = finished[t].failed

\* Every webhook call and every call of the retry endpoint pays for at most
\* max_retries + 1 runs of the definition, whatever messages overtake whichever.
AttemptsWithinBudget ==
    \A l \in rows : log[l].attempts <= (MaxRetries + 1) * (1 + retried[l])

\* Without a call of the retry endpoint an execution is run by one worker at a
\* time: self.retry hands the task over, it never forks it.
AloneUnlessRetried ==
    \A l \in Logs : retried[l] = 0 =>
        \A v, w \in Workers : worker[v].log = l /\ worker[w].log = l => v = w

\* A SUCCESS is final for an execution that nobody retries and nobody was
\* cancelling when it was reached; only the row's deletion ends it.
SuccessIsFinal ==
    [][\A l \in rows :
          \/ log[l].status # "SUCCESS"
          \/ retried[l] > 0
          \/ \E r \in Requests : request[r].log = l /\ request[r].op = "cancel"
          \/ log'[l] = log[l]]_vars

\* Without faults every accepted execution reaches SUCCESS or FAILED, or goes
\* with its workflow; with faults it does unless its task was dropped.
EveryExecutionSettles ==
    \A l \in Logs :
        (l \in rows /\ log[l].status \in Unfinished)
            ~> (l \notin rows \/ log[l].status \notin Unfinished \/ l \in lost)

\* With one worker process a quota that is used up stays used up.  (With two, a
\* stale write of usage_summary can take total_executions below the limit again.)
SerialQuotaStaysClosed ==
    [][Cardinality(Workers) = 1 =>
          \A t \in Tenants : OverQuota(t) => OverQuota(t)']_vars

(* What the documentation and the comments say, and the code does not do. *)

\* README: "Each execution increments usage."
EachExecutionIncrementsUsage ==
    \A t \in Registered : usage[t].total = finished[t].ok + finished[t].failed

\* README: "Execution is updated to SUCCESS or FAILED."
ExecutionIsUpdated ==
    \A l \in Logs :
        (l \in rows /\ log[l].status \in Unfinished)
            ~> (l \notin rows \/ log[l].status \notin Unfinished)
=============================================================================
