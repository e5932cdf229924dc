-------------------------- MODULE LegacyExecutions --------------------------
(***************************************************************************)
(* The execution pipeline of the TypeScript back end: a webhook inserts a   *)
(* row of the table executions and adds a BullMQ job; the worker process    *)
(* runs up to five jobs at once, each of them action by action, and records *)
(* status and usage; clients cancel and retry executions, and change,       *)
(* disable and delete workflows, at the same time.                          *)
(*                                                                         *)
(* A step is one Prisma call (one statement) or one call of BullMQ.         *)
(***************************************************************************)
EXTENDS Naturals, FiniteSets

CONSTANTS
    Workflows,          \* every workflow ever created
    Executions,         \* the ids of every execution ever inserted
    WorkflowOf,         \* execution -> workflow
    Slots,              \* the jobs the worker runs concurrently
    Requests,           \* API handlers that may be in progress at once
    NoExecution,        \* the execution of an idle slot or handler
    MaxActions,         \* bound: actions of a workflow
    Attempts,           \* defaultJobOptions.attempts
    MaxStalledCount,    \* BullMQ's default: how often a job may be taken back
    Operations,         \* what clients do besides calling webhooks
    Disruptions,        \* the kinds of trouble that may occur
    MaxDisruptions      \* bound: how often

AllOperations == {"cancel", "retry", "update", "delete"}
AllDisruptions == {"crash", "shutdown", "database", "api"}

ASSUME WorkflowOfAssumption == WorkflowOf \in [Executions -> Workflows]
ASSUME NoExecutionAssumption == NoExecution \notin Executions
ASSUME KindsAssumption ==
    /\ Operations \subseteq AllOperations
    /\ Disruptions \subseteq AllDisruptions
ASSUME BoundsAssumption ==
    /\ MaxActions \in Nat \ {0}
    /\ Attempts \in Nat \ {0}
    /\ MaxStalledCount \in Nat
    /\ MaxDisruptions \in Nat

VARIABLES
    workflow,       \* table workflows: isEnabled, and how many actions
    born,           \* the execution ids handed out so far
    rows,           \* the ids that are in table executions now
    events,         \* executions whose webhook_events row is there (never marked processed)
    status,         \* table executions: status
    metered,        \* increments of workflowRuns in usage_metrics, by execution
    job,            \* the BullMQ jobs; the job id is the execution id
    slot,           \* the worker's jobs in progress
    stragglers,     \* actions that lost against their time-out and still run
    connected,      \* the worker process's Redis connection: FALSE after SIGTERM
    request,        \* the API handlers in progress
    started,        \* history: calls of executeWorkflow, by execution
    copied,         \* history: executions that the retry endpoint inserted
    trouble,        \* history: failed statements and lost handlers, by execution
    disruptions     \* history: how many disruptions there were

tables == <<workflow, born, rows, events, status, metered>>
process == <<slot, stragglers, connected>>
history == <<started, copied, trouble, disruptions>>
vars == <<tables, job, process, request, history>>

-----------------------------------------------------------------------------

Status == {"PENDING", "RUNNING", "SUCCESS", "FAILED", "CANCELLED"}
Cancellable == {"PENDING", "RUNNING"}

WorkflowRow ==
    [state : {"absent", "enabled", "disabled", "deleted"}, actions : 1..MaxActions]
InTable(w) == workflow[w].state \in {"enabled", "disabled"}

\* "waiting" stands for BullMQ's waiting and delayed.  actions: job.data.actions.
Job ==
    [state : {"none", "waiting", "active", "completed", "failed"},
     attempts : 0..Attempts, stalls : Nat, actions : 1..MaxActions]
NewJob(state, actions) ==
    [state |-> state, attempts |-> 0, stalls |-> 0, actions |-> actions]

\* Where executeWorkflow is: about to write RUNNING, in an action (`done` are
\* finished), about to write SUCCESS, to meter, to return, to write FAILED, to throw.
Slot ==
    [pc : {"idle", "mark", "act", "succeed", "meter", "return", "record", "throw"},
     execution : Executions \cup {NoExecution}, done : 0..MaxActions]
IdleSlot == [pc |-> "idle", execution |-> NoExecution, done |-> 0]

Request ==
    [pc : {"idle", "event", "insert", "enqueue", "copy", "cancel"},
     execution : Executions \cup {NoExecution}, actions : 1..MaxActions]
IdleRequest == [pc |-> "idle", execution |-> NoExecution, actions |-> 1]

TypeOK ==
    /\ workflow \in [Workflows -> WorkflowRow]
    /\ born \subseteq Executions
    /\ rows \subseteq born
    /\ events \subseteq born
    /\ status \in [Executions -> Status]
    /\ metered \in [Executions -> Nat]
    /\ job \in [Executions -> Job]
    /\ slot \in [Slots -> Slot]
    /\ \A s \in Slots : slot[s].pc # "idle" => slot[s].execution \in Executions
    /\ stragglers \in [Executions -> Nat]
    /\ connected \in BOOLEAN
    /\ request \in [Requests -> Request]
    /\ \A r \in Requests : request[r].pc # "idle" => request[r].execution \in born
    /\ started \in [Executions -> Nat]
    /\ copied \subseteq born
    /\ trouble \in [Executions -> Nat]
    /\ disruptions \in Nat

Init ==
    /\ workflow = [w \in Workflows |-> [state |-> "absent", actions |-> 1]]
    /\ born = {}
    /\ rows = {}
    /\ events = {}
    /\ status = [e \in Executions |-> "PENDING"]
    /\ metered = [e \in Executions |-> 0]
    /\ job = [e \in Executions |-> NewJob("none", 1)]
    /\ slot = [s \in Slots |-> IdleSlot]
    /\ stragglers = [e \in Executions |-> 0]
    /\ connected = TRUE
    /\ request = [r \in Requests |-> IdleRequest]
    /\ started = [e \in Executions |-> 0]
    /\ copied = {}
    /\ trouble = [e \in Executions |-> 0]
    /\ disruptions = 0

-----------------------------------------------------------------------------
(* Workflows. *)

\* isEnabled is FALSE until somebody toggles it.
CreateWorkflow(w, n) ==
    /\ workflow[w].state = "absent"
    /\ workflow' = [workflow EXCEPT ![w] = [state |-> "disabled", actions |-> n]]
    /\ UNCHANGED <<born, rows, events, status, metered, job, process, request, history>>

\* Jobs in the queue keep the actions they were added with.
UpdateWorkflow(w, n) ==
    /\ "update" \in Operations
    /\ InTable(w)
    /\ workflow' = [workflow EXCEPT ![w].actions = n]
    /\ UNCHANGED <<born, rows, events, status, metered, job, process, request, history>>

ToggleWorkflow(w, state) ==
    /\ InTable(w)
    /\ workflow' = [workflow EXCEPT ![w].state = state]
    /\ UNCHANGED <<born, rows, events, status, metered, job, process, request, history>>

\* Executions and webhook events go with the workflow; jobs stay.
DeleteWorkflow(w) ==
    /\ "delete" \in Operations
    /\ InTable(w)
    /\ workflow' = [workflow EXCEPT ![w].state = "deleted"]
    /\ rows' = {e \in rows : WorkflowOf[e] # w}
    /\ events' = {e \in events : WorkflowOf[e] # w}
    /\ UNCHANGED <<born, status, metered, job, process, request, history>>

-----------------------------------------------------------------------------
(* API handlers.  pc names the statement the handler is about to issue. *)

Goto(r, pc) == request' = [request EXCEPT ![r].pc = pc]
Handle(r, pc, e, n) ==
    request' = [request EXCEPT ![r] = [pc |-> pc, execution |-> e, actions |-> n]]
Reply(r) == request' = [request EXCEPT ![r] = IdleRequest]

\* getWorkflowByWebhookToken, and the signature is right.
StartWebhook(r, e) ==
    /\ request[r].pc = "idle"
    /\ e \notin born
    /\ workflow[WorkflowOf[e]].state = "enabled"
    /\ born' = born \cup {e}
    /\ Handle(r, "event", e, workflow[WorkflowOf[e]].actions)
    /\ UNCHANGED <<workflow, rows, events, status, metered, job, process, history>>

InsertEvent(r) ==
    /\ request[r].pc = "event"
    /\ InTable(WorkflowOf[request[r].execution])
    /\ events' = events \cup {request[r].execution}
    /\ Goto(r, "insert")
    /\ UNCHANGED <<workflow, born, rows, status, metered, job, process, history>>

InsertExecution(r) ==
    /\ request[r].pc = "insert"
    /\ InTable(WorkflowOf[request[r].execution])
    /\ rows' = rows \cup {request[r].execution}
    /\ status' = [status EXCEPT ![request[r].execution] = "PENDING"]
    /\ Goto(r, "enqueue")
    /\ UNCHANGED <<workflow, born, events, metered, job, process, history>>

Enqueue(r) ==
    /\ request[r].pc = "enqueue"
    /\ job' = [job EXCEPT ![request[r].execution] = NewJob("waiting", request[r].actions)]
    /\ Reply(r)
    /\ UNCHANGED <<tables, process, history>>

\* retryExecution looks at no status; the new row gets the original's workflow.
StartRetry(r, original, e) ==
    /\ "retry" \in Operations
    /\ request[r].pc = "idle"
    /\ original \in rows
    /\ e \notin born
    /\ WorkflowOf[e] = WorkflowOf[original]
    /\ born' = born \cup {e}
    /\ Handle(r, "copy", e, 1)
    /\ UNCHANGED <<workflow, rows, events, status, metered, job, process, history>>

\* "TODO: Add to queue for processing"
InsertCopy(r) ==
    /\ request[r].pc = "copy"
    /\ InTable(WorkflowOf[request[r].execution])
    /\ rows' = rows \cup {request[r].execution}
    /\ status' = [status EXCEPT ![request[r].execution] = "PENDING"]
    /\ copied' = copied \cup {request[r].execution}
    /\ Reply(r)
    /\ UNCHANGED <<workflow, born, events, metered, job, process, started, trouble, disruptions>>

StartCancel(r, e) ==
    /\ "cancel" \in Operations
    /\ request[r].pc = "idle"
    /\ e \in rows
    /\ status[e] \in Cancellable
    /\ Handle(r, "cancel", e, 1)
    /\ UNCHANGED <<tables, job, process, history>>

\* The job is not removed from the queue.
CommitCancel(r) ==
    /\ request[r].pc = "cancel"
    /\ request[r].execution \in rows
    /\ status' = [status EXCEPT ![request[r].execution] = "CANCELLED"]
    /\ Reply(r)
    /\ UNCHANGED <<workflow, born, rows, events, metered, job, process, history>>

\* A foreign key violation on INSERT, "record to update not found" on UPDATE.
AbortRequest(r) ==
    /\ \/ /\ request[r].pc \in {"event", "insert", "copy"}
          /\ ~InTable(WorkflowOf[request[r].execution])
       \/ request[r].pc = "cancel" /\ request[r].execution \notin rows
    /\ Reply(r)
    /\ UNCHANGED <<tables, job, process, history>>

-----------------------------------------------------------------------------
(* executeWorkflow. *)

Leave(s) == slot' = [slot EXCEPT ![s] = IdleSlot]
Continue(s, pc) == slot' = [slot EXCEPT ![s].pc = pc]

\* Mutant: a job in progress is not locked.
BeginUnlocked(s, e) ==
    /\ connected
    /\ slot[s].pc = "idle"
    /\ job[e].state \in {"waiting", "active"}
    /\ job' = [job EXCEPT ![e].state = "active"]
    /\ slot' = [slot EXCEPT ![s] = [pc |-> "mark", execution |-> e, done |-> 0]]
    /\ started' = [started EXCEPT ![e] = @ + 1]
    /\ UNCHANGED <<tables, stragglers, connected, request, copied, trouble, disruptions>>

\* BullMQ hands the worker a waiting job.
Begin(s, e) ==
    /\ connected
    /\ slot[s].pc = "idle"
    /\ job[e].state = "waiting"
    /\ job' = [job EXCEPT ![e].state = "active"]
    /\ slot' = [slot EXCEPT ![s] = [pc |-> "mark", execution |-> e, done |-> 0]]
    /\ started' = [started EXCEPT ![e] = @ + 1]
    /\ UNCHANGED <<tables, stragglers, connected, request, copied, trouble, disruptions>>

\* An UPDATE of the execution by primary key; no status is looked at.
Update(s, new) ==
    /\ slot[s].execution \in rows
    /\ status' = [status EXCEPT ![slot[s].execution] = new]
    /\ UNCHANGED <<workflow, born, rows, events, metered>>

MarkRunning(s) ==
    /\ slot[s].pc = "mark"
    /\ Update(s, "RUNNING")
    /\ Continue(s, "act")
    /\ UNCHANGED <<job, stragglers, connected, request, history>>

\* An action ends in time and the progress is reported; the next one begins.
FinishAction(s) ==
    LET done == slot[s].done + 1
        all == job[slot[s].execution].actions
    IN
    /\ slot[s].pc = "act"
    /\ connected
    /\ slot' = [slot EXCEPT ![s] =
                   [@ EXCEPT !.pc = IF done = all THEN "succeed" ELSE "act", !.done = done]]
    /\ UNCHANGED <<tables, job, stragglers, connected, request, history>>

\* An action throws, or updateProgress does because the connection is gone.
FailAction(s) ==
    /\ slot[s].pc = "act"
    /\ Continue(s, "record")
    /\ UNCHANGED <<tables, job, stragglers, connected, request, history>>

\* withTimeout rejects; nothing stops the action.
TimeOutAction(s) ==
    /\ slot[s].pc = "act"
    /\ Continue(s, "record")
    /\ stragglers' = [stragglers EXCEPT ![slot[s].execution] = @ + 1]
    /\ UNCHANGED <<tables, job, connected, request, history>>

\* Nobody looks at the straggler's result.
EndStraggler(e) ==
    /\ stragglers[e] > 0
    /\ stragglers' = [stragglers EXCEPT ![e] = @ - 1]
    /\ UNCHANGED <<tables, job, slot, connected, request, history>>

RecordSuccess(s) ==
    /\ slot[s].pc = "succeed"
    /\ Update(s, "SUCCESS")
    /\ Continue(s, "meter")
    /\ UNCHANGED <<job, stragglers, connected, request, history>>

\* updateUsageMetrics: one atomic upsert with increments.
Increment(s) ==
    /\ metered' = [metered EXCEPT ![slot[s].execution] = @ + 1]
    /\ UNCHANGED <<workflow, born, rows, events, status>>

Meter(s) ==
    /\ slot[s].pc = "meter"
    /\ Increment(s)
    /\ Continue(s, "return")
    /\ UNCHANGED <<job, stragglers, connected, request, history>>

\* Mutants of the catch block: no UPDATE; no rethrow; failures are metered too.
RecordFailureOmitted(s) ==
    /\ slot[s].pc = "record"
    /\ Continue(s, "throw")
    /\ UNCHANGED <<tables, job, stragglers, connected, request, history>>

RecordFailureSwallowed(s) ==
    /\ slot[s].pc = "record"
    /\ Update(s, "FAILED")
    /\ Continue(s, "return")
    /\ UNCHANGED <<job, stragglers, connected, request, history>>

RecordFailureMetered(s) ==
    /\ slot[s].pc = "record"
    /\ slot[s].execution \in rows
    /\ status' = [status EXCEPT ![slot[s].execution] = "FAILED"]
    /\ metered' = [metered EXCEPT ![slot[s].execution] = @ + 1]
    /\ Continue(s, "throw")
    /\ UNCHANGED <<workflow, born, rows, events, job, stragglers, connected, request, history>>

RecordFailure(s) ==
    /\ slot[s].pc = "record"
    /\ Update(s, "FAILED")
    /\ Continue(s, "throw")
    /\ UNCHANGED <<job, stragglers, connected, request, history>>

\* A failed statement: in the try block the catch block runs, which throws too
\* if its own statement fails.
Catch(s) == Continue(s, IF slot[s].pc = "record" THEN "throw" ELSE "record")

RowIsGone(s) ==
    /\ slot[s].pc \in {"mark", "succeed", "record"}
    /\ slot[s].execution \notin rows
    /\ Catch(s)
    /\ UNCHANGED <<tables, job, stragglers, connected, request, history>>

Complete(s) ==
    /\ slot[s].pc = "return"
    /\ connected
    /\ job' = [job EXCEPT ![slot[s].execution].state = "completed"]
    /\ Leave(s)
    /\ UNCHANGED <<tables, stragglers, connected, request, history>>

\* Mutant: one attempt too many.
AfterFailureOneMore(j) ==
    [j EXCEPT !.attempts = j.attempts + 1,
              !.state = IF j.attempts + 1 <= Attempts THEN "waiting" ELSE "failed"]

\* BullMQ puts a job that threw back, with a delay, until its attempts are used up.
AfterFailure(j) ==
    [j EXCEPT !.attempts = j.attempts + 1,
              !.state = IF j.attempts + 1 < Attempts THEN "waiting" ELSE "failed"]

Fail(s) ==
    /\ slot[s].pc = "throw"
    /\ connected
    /\ job' = [job EXCEPT ![slot[s].execution] = AfterFailure(@)]
    /\ Leave(s)
    /\ UNCHANGED <<tables, stragglers, connected, request, history>>

\* After SIGTERM the handler of redis.ts has closed the connection that the
\* worker shares, so Redis does not learn how the job ended.
LeaveActive(s) ==
    /\ slot[s].pc \in {"return", "throw"}
    /\ ~connected
    /\ Leave(s)
    /\ UNCHANGED <<tables, job, stragglers, connected, request, history>>

\* BullMQ takes back a job whose lock is not renewed any more, or fails it
\* without running it.
AfterStall(j) ==
    [j EXCEPT !.stalls = j.stalls + 1,
              !.state = IF j.stalls < MaxStalledCount THEN "waiting" ELSE "failed"]

Orphaned(e) == job[e].state = "active" /\ \A s \in Slots : slot[s].execution # e

Stall(e) ==
    /\ connected
    /\ Orphaned(e)
    /\ job' = [job EXCEPT ![e] = AfterStall(@)]
    /\ UNCHANGED <<tables, process, request, history>>

\* Mutant: worker.close() waits for stragglers too.
RestartAfterStragglers ==
    /\ ~connected
    /\ \A s \in Slots : slot[s].pc = "idle"
    /\ \A e \in Executions : stragglers[e] = 0
    /\ connected' = TRUE
    /\ UNCHANGED <<tables, job, slot, stragglers, request, history>>

\* worker.close() has waited for the jobs in progress; the process exits and the
\* next one starts.
Restart ==
    /\ ~connected
    /\ \A s \in Slots : slot[s].pc = "idle"
    /\ connected' = TRUE
    /\ stragglers' = [e \in Executions |-> 0]
    /\ UNCHANGED <<tables, job, slot, request, history>>

-----------------------------------------------------------------------------
(* Disruptions. *)

Disrupt(kind) ==
    /\ kind \in Disruptions
    /\ disruptions < MaxDisruptions
    /\ disruptions' = disruptions + 1

\* SIGTERM to the worker process.
Terminate ==
    /\ Disrupt("shutdown")
    /\ connected
    /\ connected' = FALSE
    /\ UNCHANGED <<tables, job, slot, stragglers, request, started, copied, trouble>>

CrashWorker ==
    /\ Disrupt("crash")
    /\ slot' = [s \in Slots |-> IdleSlot]
    /\ stragglers' = [e \in Executions |-> 0]
    /\ connected' = TRUE
    /\ UNCHANGED <<tables, job, request, started, copied, trouble>>

\* A statement of the worker fails; whether the database has executed it or not.
FailStatement(s) ==
    /\ Disrupt("database")
    /\ slot[s].pc \in {"mark", "succeed", "meter", "record"}
    /\ \/ UNCHANGED tables
       \/ slot[s].pc = "mark" /\ Update(s, "RUNNING")
       \/ slot[s].pc = "succeed" /\ Update(s, "SUCCESS")
       \/ slot[s].pc = "meter" /\ Increment(s)
       \/ slot[s].pc = "record" /\ Update(s, "FAILED")
    /\ Catch(s)
    /\ trouble' = [trouble EXCEPT ![slot[s].execution] = @ + 1]
    /\ UNCHANGED <<job, stragglers, connected, request, started, copied>>

\* The API process ends, or loses its connections.
CrashRequest(r) ==
    /\ Disrupt("api")
    /\ request[r].pc # "idle"
    /\ trouble' = [trouble EXCEPT ![request[r].execution] = @ + 1]
    /\ Reply(r)
    /\ UNCHANGED <<tables, job, process, started, copied>>

-----------------------------------------------------------------------------

Administer ==
    \/ \E w \in Workflows, n \in 1..MaxActions : CreateWorkflow(w, n) \/ UpdateWorkflow(w, n)
    \/ \E w \in Workflows, state \in {"enabled", "disabled"} : ToggleWorkflow(w, state)
    \/ \E w \in Workflows : DeleteWorkflow(w)

Arrive(r) ==
    \/ \E e \in Executions : StartWebhook(r, e) \/ StartCancel(r, e)
    \/ \E original, e \in Executions : StartRetry(r, original, e)

Serve(r) ==
    \/ InsertEvent(r)
    \/ InsertExecution(r)
    \/ Enqueue(r)
    \/ InsertCopy(r)
    \/ CommitCancel(r)
    \/ AbortRequest(r)

Work(s) ==
    \/ \E e \in Executions : Begin(s, e)
    \/ MarkRunning(s)
    \/ FinishAction(s)
    \/ FailAction(s)
    \/ TimeOutAction(s)
    \/ RecordSuccess(s)
    \/ Meter(s)
    \/ RecordFailure(s)
    \/ RowIsGone(s)
    \/ Complete(s)
    \/ Fail(s)
    \/ LeaveActive(s)

Disruption ==
    \/ Terminate
    \/ CrashWorker
    \/ \E s \in Slots : FailStatement(s)
    \/ \E r \in Requests : CrashRequest(r)

Next ==
    \/ Administer
    \/ \E r \in Requests : Arrive(r) \/ Serve(r)
    \/ \E s \in Slots : Work(s)
    \/ \E e \in Executions : EndStraggler(e) \/ Stall(e)
    \/ Restart
    \/ Disruption

Spec == Init /\ [][Next]_vars

\* The worker consumes and, thanks to withTimeout, ends every action; it is
\* started again after it stops; BullMQ checks for stalled jobs periodically.
\* Clients and disruptions owe nothing, and a straggler may hang for ever.
Fairness ==
    /\ \A s \in Slots : WF_vars(Work(s))
    /\ \A r \in Requests : WF_vars(Serve(r))
    /\ \A e \in Executions : WF_vars(Stall(e))
    /\ WF_vars(Restart)

FairSpec == Spec /\ Fairness

-----------------------------------------------------------------------------
(* Properties. *)

\* BullMQ gave the job up because it stalled too often, not because it threw.
StalledOut(e) == job[e].state = "failed" /\ job[e].attempts < Attempts

\* An execution that shows PENDING or RUNNING is in the queue, in the worker or
\* about to be queued, whatever cancellation, deletion and shutdown do; except
\* the rows of the retry endpoint, stalled-out jobs and failed statements.
UnfinishedIsOwned ==
    \A e \in rows : status[e] \in Cancellable =>
        \/ job[e].state \in {"waiting", "active"}
        \/ \E r \in Requests : request[r].pc = "enqueue" /\ request[r].execution = e
        \/ e \in copied
        \/ StalledOut(e)
        \/ trouble[e] > 0

\* A job's end and the row's status agree: a completed job's execution is
\* SUCCESS, one out of attempts is FAILED, or somebody cancelled it (worker 89-139).
EndedJobIsRecorded ==
    \A e \in rows : trouble[e] = 0 =>
        /\ job[e].state = "completed" => status[e] \in {"SUCCESS", "CANCELLED"}
        /\ job[e].state = "failed" /\ ~StalledOut(e) => status[e] \in {"FAILED", "CANCELLED"}

\* An organisation is charged once for a completed execution and not for a failed
\* one, apart from a charge per stall or failed statement (updateUsageMetrics).
ChargedOnce ==
    \A e \in Executions :
        /\ metered[e] <= 1 + job[e].stalls + trouble[e]
        /\ job[e].state = "completed" => metered[e] > 0
        /\ job[e].state = "failed" => metered[e] <= job[e].stalls + trouble[e]

\* BullMQ's attempts bound the runs of executeWorkflow, but for one run for every
\* time that the job was taken back from a process that ended; and no run leaves
\* more than one straggler behind.
AttemptsAreBounded ==
    \A e \in Executions :
        /\ started[e] <= Attempts + job[e].stalls
        /\ stragglers[e] <= started[e]

\* A SUCCESS stays, unless a cancellation that began before overwrites it, a
\* statement failed after it, or the job runs again because Redis did not hear of it.
SuccessIsFinal ==
    [][\A e \in rows :
          \/ status[e] # "SUCCESS"
          \/ status'[e] = "SUCCESS"
          \/ \E r \in Requests : request[r].pc = "cancel" /\ request[r].execution = e
          \/ trouble'[e] > 0
          \/ job[e].stalls > 0]_vars

\* Every job ends, completed or failed, however often actions fail and time out
\* and processes end.
EveryJobEnds ==
    \A e \in Executions :
        job[e].state = "waiting" ~> job[e].state \in {"completed", "failed"}

(* What the documentation and the comments say, and the code does not do. *)

\* WORKFLOW_SCHEMA.md: "Actions are executed sequentially"
ActionsAreSequential ==
    \A s \in Slots : slot[s].pc = "act" => stragglers[slot[s].execution] = 0
=============================================================================
