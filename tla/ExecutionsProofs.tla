-------------------------- MODULE ExecutionsProofs --------------------------
(***************************************************************************)
(* Proofs about Executions, for every number of tenants, workflows,         *)
(* executions, workers and handlers, and every bound.                       *)
(***************************************************************************)
EXTENDS Executions, FiniteSetTheorems, TLAPS

(***************************************************************************)
(* Type correctness.                                                        *)
(***************************************************************************)

\* Flushing well-typed rows gives a well-typed row.
LEMMA FlushType ==
    ASSUME NEW row \in LogRow, NEW seen \in LogRow, NEW new \in LogRow
    PROVE  Flush(row, seen, new) \in LogRow
BY DEF Flush, Column, LogRow

\* Each change that a session makes to a row keeps it well-typed.
LEMMA ChangeType ==
    ASSUME NEW row \in LogRow
    PROVE  /\ AsRetried(row) \in LogRow
           /\ AsCancelled(row) \in LogRow
           /\ AsMarked(row) \in LogRow
           /\ \A success \in BOOLEAN : AsSettled(row, success) \in LogRow
<1>1. AsRetried(row) \in LogRow
    BY DEF AsRetried, LogRow, LogStatus, ErrorMessage
<1>2. AsCancelled(row) \in LogRow
    BY DEF AsCancelled, LogRow, LogStatus, ErrorMessage
<1>3. AsMarked(row) \in LogRow
    <2>1. row.attempts + 1 \in Nat
        BY DEF LogRow
    <2> QED
        BY <2>1 DEF AsMarked, LogRow, LogStatus
<1>4. ASSUME NEW success \in BOOLEAN PROVE AsSettled(row, success) \in LogRow
    <2>1. CASE success
        BY <2>1 DEF AsSettled, LogRow, LogStatus, ErrorMessage
    <2>2. CASE ~success
        BY <2>2 DEF AsSettled, LogRow, LogStatus, ErrorMessage
    <2> QED
        BY <2>1, <2>2
<1> QED
    BY <1>1, <1>2, <1>3, <1>4

LEMMA IncrementType ==
    ASSUME NEW row \in UsageRow, NEW tally \in UsageRow, NEW success \in BOOLEAN
    PROVE  IncrementUsage(row, tally, success) \in UsageRow
BY DEF IncrementUsage, UsageRow

LEMMA TenantType ==
    ASSUME NEW l \in Logs
    PROVE  LogTenant(l) \in Tenants
BY TenantOfAssumption, WorkflowOfAssumption DEF LogTenant

LEMMA QueueType ==
    ASSUME queue \in [Logs -> [0..MaxRetries -> Nat]],
           NEW l \in Logs, NEW k \in 0..MaxRetries
    PROVE  /\ Enqueue(l, k) => queue' \in [Logs -> [0..MaxRetries -> Nat]]
           /\ Dequeue(l, k) => queue' \in [Logs -> [0..MaxRetries -> Nat]]
<1>1. queue[l] \in [0..MaxRetries -> Nat]
    OBVIOUS
<1>2. queue[l][k] \in Nat
    BY <1>1
<1>3. ASSUME Enqueue(l, k) PROVE queue' \in [Logs -> [0..MaxRetries -> Nat]]
    <2>1. [queue[l] EXCEPT ![k] = queue[l][k] + 1] \in [0..MaxRetries -> Nat]
        BY <1>1, <1>2
    <2>2. queue' = [queue EXCEPT ![l] = [queue[l] EXCEPT ![k] = queue[l][k] + 1]]
        BY <1>3 DEF Enqueue
    <2> QED
        BY <2>1, <2>2
<1>4. ASSUME Dequeue(l, k) PROVE queue' \in [Logs -> [0..MaxRetries -> Nat]]
    <2>1. queue[l][k] - 1 \in Nat
        BY <1>2, <1>4 DEF Dequeue
    <2>2. [queue[l] EXCEPT ![k] = queue[l][k] - 1] \in [0..MaxRetries -> Nat]
        BY <1>1, <2>1
    <2>3. queue' = [queue EXCEPT ![l] = [queue[l] EXCEPT ![k] = queue[l][k] - 1]]
        BY <1>4 DEF Dequeue
    <2> QED
        BY <2>2, <2>3
<1> QED
    BY <1>3, <1>4

LEMMA IdleTypes ==
    /\ IdleWorker \in Worker /\ IdleWorker.pc = "idle" /\ IdleWorker.log = NoLog
    /\ IdleRequest \in Request /\ IdleRequest.pc = "idle" /\ IdleRequest.log = NoLog
    /\ NewRow \in LogRow
    /\ \A b \in BOOLEAN : NewUsage(b) \in UsageRow
<1>1. NewRow \in LogRow
    BY DEF NewRow, LogRow, LogStatus, ErrorMessage
<1>2. \A b \in BOOLEAN : NewUsage(b) \in UsageRow
    BY DEF NewUsage, UsageRow
<1>3. IdleWorker \in Worker
    <2>1. 0 \in 0..MaxRetries
        BY BoundsAssumption
    <2> QED
        BY <1>1, <1>2, <2>1 DEF IdleWorker, Worker
<1>4. IdleRequest \in Request
    BY <1>1 DEF IdleRequest, Request
<1> QED
    BY <1>1, <1>2, <1>3, <1>4 DEF IdleWorker, IdleRequest

LEMMA TypeInit == Init => TypeOK
<1> SUFFICES ASSUME Init PROVE TypeOK
    OBVIOUS
<1>1. \A w \in Workers : worker[w].pc = "idle"
    BY DEF Init, IdleWorker
<1>2. \A r \in Requests : request[r].pc = "idle"
    BY DEF Init, IdleRequest
<1>3. workflow \in [Workflows -> WorkflowRow]
    BY DEF Init, WorkflowRow
<1>4. log \in [Logs -> LogRow] /\ usage \in [Tenants -> UsageRow]
    <2>1. ASSUME NEW t \in Tenants PROVE NewUsage(t \in Registered) \in UsageRow
        BY DEF NewUsage, UsageRow
    <2> QED
        BY IdleTypes, <2>1 DEF Init
<1>5. queue \in [Logs -> [0..MaxRetries -> Nat]]
    BY DEF Init
<1>6. worker \in [Workers -> Worker] /\ request \in [Requests -> Request]
    BY IdleTypes DEF Init
<1>7. /\ born \subseteq Logs /\ rows \subseteq born /\ lost \subseteq Logs
       /\ retried \in [Logs -> Nat]
       /\ finished \in [Tenants -> [ok : Nat, failed : Nat]]
       /\ faults \in Nat
    BY DEF Init
<1> QED
    BY <1>1, <1>2, <1>3, <1>4, <1>5, <1>6, <1>7 DEF TypeOK

\* A worker's step leaves the other tables alone: only its record is checked.
LEMMA WorkerType ==
    ASSUME TypeOK, NEW w \in Workers, NEW new \in Worker,
           new.pc # "idle" => new.log \in Logs,
           worker' = [worker EXCEPT ![w] = new]
    PROVE  /\ worker' \in [Workers -> Worker]
           /\ \A v \in Workers : worker'[v].pc # "idle" => worker'[v].log \in Logs
BY DEF TypeOK

LEMMA RequestType ==
    ASSUME TypeOK, NEW r \in Requests, NEW new \in Request, born \subseteq born',
           new.pc # "idle" => new.log \in born',
           request' = [request EXCEPT ![r] = new]
    PROVE  /\ request' \in [Requests -> Request]
           /\ \A v \in Requests : request'[v].pc # "idle" => request'[v].log \in born'
BY DEF TypeOK

LEMMA RestType ==
    ASSUME TypeOK, NEW w \in Workers, Rest(w)
    PROVE  /\ worker' \in [Workers -> Worker]
           /\ \A v \in Workers : worker'[v].pc # "idle" => worker'[v].log \in Logs
BY IdleTypes, WorkerType DEF Rest

LEMMA ReplyType ==
    ASSUME TypeOK, NEW r \in Requests, Reply(r), born' = born
    PROVE  /\ request' \in [Requests -> Request]
           /\ \A v \in Requests : request'[v].pc # "idle" => request'[v].log \in born'
BY IdleTypes, RequestType DEF Reply

LEMMA HandleType ==
    ASSUME TypeOK, NEW r \in Requests, NEW l \in Logs,
           born \subseteq born', l \in born', NEW op \in {"webhook", "retry", "cancel"}, Handle(r, op, l)
    PROVE  /\ request' \in [Requests -> Request]
           /\ \A v \in Requests : request'[v].pc # "idle" => request'[v].log \in born'
<1> DEFINE new == [op |-> op, pc |-> "commit", log |-> l, seen |-> log[l]]
<1>1. new \in Request
    BY DEF TypeOK, Request
<1> QED
    BY <1>1, RequestType DEF Handle

LEMMA AdvanceType ==
    ASSUME TypeOK, NEW r \in Requests, request[r].pc # "idle", Advance(r),
           born' = born
    PROVE  /\ request' \in [Requests -> Request]
           /\ \A v \in Requests : request'[v].pc # "idle" => request'[v].log \in born'
<1> DEFINE new == [request[r] EXCEPT !.pc = "publish"]
<1>1. new \in Request /\ new.log = request[r].log
    BY DEF TypeOK, Request
<1>2. request' = [request EXCEPT ![r] = new]
    BY DEF Advance
<1>3. new.log \in born'
    BY <1>1 DEF TypeOK
<1> HIDE DEF new
<1> QED
    BY <1>1, <1>2, <1>3, RequestType

LEMMA TypeNext == TypeOK /\ [Next]_vars => TypeOK'
<1> SUFFICES ASSUME TypeOK, [Next]_vars PROVE TypeOK'
    OBVIOUS
<1> USE DEF history, db
<1>1. ASSUME NEW w \in Workflows, NEW runs \in BOOLEAN, CreateWorkflow(w, runs)
      PROVE  TypeOK'
    BY <1>1 DEF TypeOK, CreateWorkflow, WorkflowRow
<1>2. ASSUME NEW w \in Workflows, NEW state \in {"active", "disabled"}, NEW runs \in BOOLEAN,
             UpdateWorkflow(w, state, runs)
      PROVE  TypeOK'
    BY <1>2 DEF TypeOK, UpdateWorkflow, WorkflowRow
<1>3. ASSUME NEW w \in Workflows, DeleteWorkflow(w) PROVE TypeOK'
    <2>1. [workflow[w] EXCEPT !.state = "deleted"] \in WorkflowRow
        BY DEF TypeOK, WorkflowRow
    <2>2. workflow' \in [Workflows -> WorkflowRow]
        BY <1>3, <2>1 DEF TypeOK, DeleteWorkflow
    <2> QED
        BY <1>3, <2>2 DEF TypeOK, DeleteWorkflow
<1>4. ASSUME NEW t \in Tenants, GetUsage(t) PROVE TypeOK'
    BY <1>4, IdleTypes DEF TypeOK, GetUsage
<1>5. ASSUME NEW r \in Requests, NEW l \in Logs, StartWebhook(r, l) PROVE TypeOK'
    BY <1>5, HandleType DEF TypeOK, StartWebhook
<1>6. ASSUME NEW r \in Requests, NEW l \in Logs, StartRetry(r, l) PROVE TypeOK'
    <2>1. retried' \in [Logs -> Nat]
        BY <1>6 DEF TypeOK, StartRetry
    <2> QED
        BY <1>6, <2>1, HandleType DEF TypeOK, StartRetry
<1>7. ASSUME NEW r \in Requests, NEW l \in Logs, StartCancel(r, l) PROVE TypeOK'
    BY <1>7, HandleType DEF TypeOK, StartCancel
<1>8. ASSUME NEW r \in Requests, InsertLog(r) PROVE TypeOK'
    <2>1. request[r].pc # "idle" /\ request[r].log \in born
        BY <1>8 DEF TypeOK, InsertLog
    <2>2. log' \in [Logs -> LogRow] /\ rows' \subseteq born'
        BY <1>8, <2>1, IdleTypes DEF TypeOK, InsertLog
    <2> QED
        BY <1>8, <2>1, <2>2, AdvanceType DEF TypeOK, InsertLog
<1>9. ASSUME NEW r \in Requests, CommitRetry(r) PROVE TypeOK'
    <2> DEFINE l == request[r].log
    <2>1. request[r].pc # "idle" /\ l \in Logs /\ request[r].seen \in LogRow
        BY <1>9 DEF TypeOK, CommitRetry, Request
    <2>2. Flush(log[l], request[r].seen, AsRetried(request[r].seen)) \in LogRow
        BY <2>1, FlushType, ChangeType DEF TypeOK
    <2>3. log' \in [Logs -> LogRow]
        BY <1>9, <2>1, <2>2 DEF TypeOK, CommitRetry
    <2> QED
        BY <1>9, <2>1, <2>3, AdvanceType DEF TypeOK, CommitRetry
<1>10. ASSUME NEW r \in Requests, CommitCancel(r) PROVE TypeOK'
    <2> DEFINE l == request[r].log
    <2>1. l \in Logs /\ request[r].seen \in LogRow
        BY <1>10 DEF TypeOK, CommitCancel, Request
    <2>2. Flush(log[l], request[r].seen, AsCancelled(request[r].seen)) \in LogRow
        BY <2>1, FlushType, ChangeType DEF TypeOK
    <2>3. log' \in [Logs -> LogRow]
        BY <1>10, <2>1, <2>2 DEF TypeOK, CommitCancel
    <2> QED
        BY <1>10, <2>3, ReplyType DEF TypeOK, CommitCancel
<1>11. ASSUME NEW r \in Requests, Publish(r) PROVE TypeOK'
    <2>1. request[r].log \in Logs /\ 0 \in 0..MaxRetries
        BY <1>11, BoundsAssumption DEF TypeOK, Publish
    <2>2. queue' \in [Logs -> [0..MaxRetries -> Nat]]
        BY <1>11, <2>1, QueueType DEF TypeOK, Publish
    <2> QED
        BY <1>11, <2>2, ReplyType DEF TypeOK, Publish
<1>12. ASSUME NEW r \in Requests, AbortRequest(r) PROVE TypeOK'
    BY <1>12, ReplyType DEF TypeOK, AbortRequest
<1>13. ASSUME NEW w \in Workers, NEW l \in Logs, NEW k \in 0..MaxRetries, Fetch(w, l, k)
       PROVE  TypeOK'
    <2> DEFINE new == [IdleWorker EXCEPT !.pc = "mark", !.log = l, !.retries = k,
                                         !.seen = log[l]]
    <2>1. new \in Worker /\ new.log = l
        BY IdleTypes DEF TypeOK, Worker
    <2>2. worker' = [worker EXCEPT ![w] = new]
        BY <1>13 DEF Fetch
    <2>3. /\ worker' \in [Workers -> Worker]
          /\ \A v \in Workers : worker'[v].pc # "idle" => worker'[v].log \in Logs
        <3> HIDE DEF new
        <3> QED
            BY <2>1, <2>2, WorkerType
    <2>4. queue' \in [Logs -> [0..MaxRetries -> Nat]]
        BY <1>13, QueueType DEF TypeOK, Fetch
    <2> QED
        BY <1>13, <2>3, <2>4 DEF TypeOK, Fetch
<1>14. ASSUME NEW w \in Workers, NEW l \in Logs, NEW k \in 0..MaxRetries, Discard(w, l, k)
       PROVE  TypeOK'
    BY <1>14, QueueType DEF TypeOK, Discard
<1>15. ASSUME NEW w \in Workers, Mark(w) PROVE TypeOK'
    <2> DEFINE l == worker[w].log
               new == [worker[w] EXCEPT !.pc = "load"]
    <2>1. l \in Logs /\ worker[w].seen \in LogRow
        BY <1>15 DEF TypeOK, Mark, Worker
    <2>2. log' \in [Logs -> LogRow]
        BY <1>15, <2>1, FlushType, ChangeType DEF TypeOK, Mark
    <2>3. new \in Worker /\ new.log = l
        BY DEF TypeOK, Worker
    <2>4. worker' = [worker EXCEPT ![w] = new]
        BY <1>15 DEF Mark
    <2>5. /\ worker' \in [Workers -> Worker]
          /\ \A v \in Workers : worker'[v].pc # "idle" => worker'[v].log \in Logs
        <3> HIDE DEF new
        <3> QED
            BY <2>1, <2>3, <2>4, WorkerType
    <2> QED
        BY <1>15, <2>2, <2>5 DEF TypeOK, Mark
<1>16. ASSUME NEW w \in Workers, Load(w) PROVE TypeOK'
    <2> DEFINE l == worker[w].log
               runs == workflow[WorkflowOf[l]].runs
               new == [worker[w] EXCEPT !.pc = "run", !.seen = log[l], !.runs = runs]
    <2>1. l \in Logs /\ log[l] \in LogRow /\ runs \in BOOLEAN
        BY <1>16, WorkflowOfAssumption DEF TypeOK, Load, WorkflowRow
    <2>2. new \in Worker /\ new.log = l
        BY <2>1 DEF TypeOK, Worker
    <2>3. worker' = [worker EXCEPT ![w] = new]
        BY <1>16 DEF Load
    <2>4. /\ worker' \in [Workers -> Worker]
          /\ \A v \in Workers : worker'[v].pc # "idle" => worker'[v].log \in Logs
        <3> HIDE DEF new
        <3> QED
            BY <2>1, <2>2, <2>3, WorkerType
    <2> QED
        BY <1>16, <2>4 DEF TypeOK, Load
<1>17. ASSUME NEW w \in Workers, Tally(w) PROVE TypeOK'
    <2> DEFINE l == worker[w].log
               new == [worker[w] EXCEPT !.pc = "commit", !.tally = usage[LogTenant(l)]]
    <2>1. l \in Logs /\ usage[LogTenant(l)] \in UsageRow
        BY <1>17, TenantType DEF TypeOK, Tally
    <2>2. new \in Worker /\ new.log = l
        BY <2>1 DEF TypeOK, Worker
    <2>3. worker' = [worker EXCEPT ![w] = new]
        BY <1>17 DEF Tally
    <2>4. /\ worker' \in [Workers -> Worker]
          /\ \A v \in Workers : worker'[v].pc # "idle" => worker'[v].log \in Logs
        <3> HIDE DEF new
        <3> QED
            BY <2>1, <2>2, <2>3, WorkerType
    <2> QED
        BY <1>17, <2>4 DEF TypeOK, Tally
<1>18. ASSUME NEW w \in Workers, Republish(w) PROVE TypeOK'
    <2>1. worker[w].log \in Logs /\ worker[w].retries + 1 \in 0..MaxRetries
        BY <1>18, BoundsAssumption DEF TypeOK, Republish, Worker
    <2>2. queue' \in [Logs -> [0..MaxRetries -> Nat]]
        BY <1>18, <2>1, QueueType DEF TypeOK, Republish
    <2> QED
        BY <1>18, <2>2, RestType DEF TypeOK, Republish
<1>19. ASSUME NEW w \in Workers, Commit(w) PROVE TypeOK'
    <2> DEFINE l == worker[w].log
               t == LogTenant(l)
    <2>1. /\ l \in Logs /\ t \in Tenants /\ worker[w].seen \in LogRow
          /\ worker[w].tally \in UsageRow /\ worker[w].runs \in BOOLEAN
        BY <1>19, TenantType DEF TypeOK, Commit, Worker
    <2>2. log' \in [Logs -> LogRow]
        BY <1>19, <2>1, FlushType, ChangeType DEF TypeOK, Commit
    <2>3. usage' \in [Tenants -> UsageRow]
        BY <1>19, <2>1, IncrementType DEF TypeOK, Commit
    <2>4. finished' \in [Tenants -> [ok : Nat, failed : Nat]]
        BY <1>19, <2>1 DEF TypeOK, Commit
    <2> QED
        BY <1>19, <2>2, <2>3, <2>4, RestType DEF TypeOK, Commit
<1>20. ASSUME NEW w \in Workers, Abandon(w) PROVE TypeOK'
    BY <1>20, RestType DEF TypeOK, Abandon
<1>21. ASSUME NEW w \in Workers, CrashWorker(w) PROVE TypeOK'
    BY <1>21, RestType DEF TypeOK, CrashWorker
<1>22. ASSUME NEW r \in Requests, CrashRequest(r) PROVE TypeOK'
    BY <1>22, ReplyType DEF TypeOK, CrashRequest
<1>23. CASE UNCHANGED vars
    BY <1>23 DEF TypeOK, vars
<1> QED
    BY <1>1, <1>2, <1>3, <1>4, <1>5, <1>6, <1>7, <1>8, <1>9, <1>10, <1>11, <1>12,
       <1>13, <1>14, <1>15, <1>16, <1>17, <1>18, <1>19, <1>20, <1>21, <1>22, <1>23
       DEF Next, Administer, Arrive, Serve, Take, Work, Fault

\* The tables, the messages and the processes keep their types.
THEOREM TypeCorrect == Spec => []TypeOK
BY TypeInit, TypeNext, PTL DEF Spec

(***************************************************************************)
(* Unfinished executions are owned.                                         *)
(***************************************************************************)

\* What UnfinishedIsOwned says of one execution.
Owned(l) ==
    /\ log[l].status = "PENDING" => PendingIsOwned(l)
    /\ log[l].status = "PROCESSING" => ProcessingIsOwned(l)

\* An execution stays owned when its status stays, no message of it is taken,
\* and every handler and worker that owns it goes on owning it.
LEMMA OwnedFrame ==
    ASSUME NEW l \in Logs, Owned(l),
           log'[l].status = log[l].status,
           Queued(l) => Queued(l)',
           \A r \in Requests :
              request[r].pc = "publish" /\ request[r].log = l =>
                 (request'[r].pc = "publish" /\ request'[r].log = l) \/ Queued(l)',
           \A w \in Workers : worker[w].pc # "idle" /\ worker[w].log = l =>
              worker'[w] = worker[w]
    PROVE  Owned(l)'
BY DEF Owned, PendingIsOwned, ProcessingIsOwned

LEMMA OwnedInit == Init => UnfinishedIsOwned
BY DEF Init, UnfinishedIsOwned

LEMMA OwnedNext == TypeOK /\ UnfinishedIsOwned /\ [Next]_vars => UnfinishedIsOwned'
<1> SUFFICES ASSUME TypeOK, UnfinishedIsOwned, [Next]_vars,
                    NEW x \in rows', x \notin lost'
             PROVE  Owned(x)'
    BY DEF UnfinishedIsOwned, Owned
<1> USE DEF db, history
<1>0. x \in rows /\ x \notin lost => x \in Logs /\ Owned(x)
    BY DEF TypeOK, UnfinishedIsOwned, Owned
<1>1. ASSUME NEW w \in Workflows, NEW runs \in BOOLEAN, CreateWorkflow(w, runs)
      PROVE  Owned(x)'
    BY <1>0, <1>1, OwnedFrame DEF CreateWorkflow, Queued
<1>2. ASSUME NEW w \in Workflows, NEW state \in {"active", "disabled"}, NEW runs \in BOOLEAN,
             UpdateWorkflow(w, state, runs)
      PROVE  Owned(x)'
    BY <1>0, <1>2, OwnedFrame DEF UpdateWorkflow, Queued
<1>3. ASSUME NEW w \in Workflows, DeleteWorkflow(w) PROVE Owned(x)'
    BY <1>0, <1>3, OwnedFrame DEF DeleteWorkflow, Queued
<1>4. ASSUME NEW t \in Tenants, GetUsage(t) PROVE Owned(x)'
    BY <1>0, <1>4, OwnedFrame DEF GetUsage, Queued
<1>5. ASSUME NEW r \in Requests, NEW l \in Logs, StartWebhook(r, l) PROVE Owned(x)'
    BY <1>0, <1>5, OwnedFrame DEF StartWebhook, Handle, Queued, TypeOK
<1>6. ASSUME NEW r \in Requests, NEW l \in Logs, StartRetry(r, l) PROVE Owned(x)'
    BY <1>0, <1>6, OwnedFrame DEF StartRetry, Handle, Queued, TypeOK
<1>7. ASSUME NEW r \in Requests, NEW l \in Logs, StartCancel(r, l) PROVE Owned(x)'
    BY <1>0, <1>7, OwnedFrame DEF StartCancel, Handle, Queued, TypeOK
<1>8. ASSUME NEW r \in Requests, InsertLog(r) PROVE Owned(x)'
    <2>1. CASE x = request[r].log
        <3>1. log'[x].status = "PENDING"
            BY <1>8, <2>1 DEF InsertLog, TypeOK, NewRow
        <3>2. request'[r].pc = "publish" /\ request'[r].log = x
            BY <1>8, <2>1 DEF InsertLog, Advance, TypeOK, Request
        <3> QED
            BY <3>1, <3>2 DEF Owned, PendingIsOwned
    <2>2. CASE x # request[r].log
        BY <1>0, <1>8, <2>2, OwnedFrame DEF InsertLog, Advance, Queued, TypeOK
    <2> QED
        BY <2>1, <2>2
<1>9. ASSUME NEW r \in Requests, CommitRetry(r) PROVE Owned(x)'
    <2>1. CASE x = request[r].log
        <3>1. request'[r].pc = "publish" /\ request'[r].log = x
            BY <1>9, <2>1 DEF CommitRetry, Advance, TypeOK, Request
        <3>2. log'[x].status = "PENDING" \/ log'[x].status = log[x].status
            BY <1>0, <1>9, <2>1
               DEF CommitRetry, AsRetried, Flush, Column, TypeOK
        <3>3. log[x].status = "PROCESSING" => ProcessingIsOwned(x)'
            BY <1>0, <1>9 DEF CommitRetry, Owned, ProcessingIsOwned, Queued
        <3> QED
            BY <3>1, <3>2, <3>3 DEF Owned, PendingIsOwned
    <2>2. CASE x # request[r].log
        BY <1>0, <1>9, <2>2, OwnedFrame DEF CommitRetry, Advance, Queued, TypeOK
    <2> QED
        BY <2>1, <2>2
<1>10. ASSUME NEW r \in Requests, CommitCancel(r) PROVE Owned(x)'
    <2>1. request'[r] = IdleRequest /\ request[r].pc = "commit"
        BY <1>10 DEF CommitCancel, Reply, TypeOK
    <2>2. log'[x].status = "FAILED" \/ log'[x].status = log[x].status
        BY <1>0, <1>10 DEF CommitCancel, AsCancelled, Flush, Column, TypeOK
    <2>3. CASE log'[x].status = log[x].status
        BY <1>0, <1>10, <2>1, <2>3, OwnedFrame DEF CommitCancel, Reply, Queued
    <2> QED
        BY <2>2, <2>3 DEF Owned
<1>11. ASSUME NEW r \in Requests, Publish(r) PROVE Owned(x)'
    <2>1. CASE x = request[r].log
        <3>1. Queued(x)'
            BY <1>11, <2>1, BoundsAssumption DEF Publish, Enqueue, Queued, TypeOK
        <3> QED
            BY <3>1 DEF Owned, PendingIsOwned, ProcessingIsOwned
    <2>2. CASE x # request[r].log
        <3>1. Queued(x) => Queued(x)'
            BY <1>11, <2>2 DEF Publish, Enqueue, Queued, TypeOK
        <3> QED
            BY <1>0, <1>11, <2>2, <3>1, OwnedFrame DEF Publish, Reply
    <2> QED
        BY <2>1, <2>2
<1>12. ASSUME NEW r \in Requests, AbortRequest(r) PROVE Owned(x)'
    BY <1>0, <1>12, OwnedFrame DEF AbortRequest, Reply, Queued
<1>13. ASSUME NEW w \in Workers, NEW l \in Logs, NEW k \in 0..MaxRetries, Fetch(w, l, k)
       PROVE  Owned(x)'
    <2>1. worker'[w].pc = "mark" /\ worker'[w].log = l /\ worker'[w].seen = log[l]
        BY <1>13 DEF Fetch, IdleWorker, TypeOK
    <2>2. CASE x = l
        BY <1>13, <2>1, <2>2 DEF Fetch, Owned, PendingIsOwned, ProcessingIsOwned
    <2>3. CASE x # l
        <3>1. Queued(x) => Queued(x)'
            BY <1>13, <2>3 DEF Fetch, Dequeue, Queued, TypeOK
        <3> QED
            BY <1>0, <1>13, <2>3, <3>1, OwnedFrame DEF Fetch
    <2> QED
        BY <2>2, <2>3
<1>14. ASSUME NEW w \in Workers, NEW l \in Logs, NEW k \in 0..MaxRetries, Discard(w, l, k)
       PROVE  Owned(x)'
    <2>1. Queued(x) => Queued(x)'
        BY <1>14 DEF Discard, Dequeue, Queued, TypeOK
    <2> QED
        BY <1>0, <1>14, <2>1, OwnedFrame DEF Discard
<1>15. ASSUME NEW w \in Workers, Mark(w) PROVE Owned(x)'
    <2>1. CASE x = worker[w].log
        <3>1. worker'[w].pc = "load" /\ worker'[w].log = x
            BY <1>15, <2>1 DEF Mark, TypeOK, Worker
        <3>2. log'[x].status = "PROCESSING"
              \/ (worker[w].seen.status = "PROCESSING" /\ log'[x].status = log[x].status)
            BY <1>0, <1>15, <2>1 DEF Mark, AsMarked, Flush, Column, TypeOK
        <3>3. ASSUME worker[w].seen.status = "PROCESSING", log[x].status = "PENDING"
              PROVE  PendingIsOwned(x)'
            BY <1>0, <1>15, <3>3 DEF Mark, Owned, PendingIsOwned, Queued
        <3> QED
            BY <3>1, <3>2, <3>3 DEF Owned, ProcessingIsOwned
    <2>2. CASE x # worker[w].log
        BY <1>0, <1>15, <2>2, OwnedFrame DEF Mark, Queued, TypeOK
    <2> QED
        BY <2>1, <2>2
<1>16. ASSUME NEW w \in Workers, Load(w) PROVE Owned(x)'
    <2>1. CASE x = worker[w].log
        <3>1. worker'[w].pc = "run" /\ worker'[w].log = x /\ worker'[w].seen = log[x]
            BY <1>16, <2>1 DEF Load, TypeOK, Worker
        <3>2. log[x].status = "PENDING" => PendingIsOwned(x)'
            BY <1>0, <1>16 DEF Load, Owned, PendingIsOwned, Queued
        <3> QED
            BY <1>16, <3>1, <3>2 DEF Load, Owned, ProcessingIsOwned
    <2>2. CASE x # worker[w].log
        BY <1>0, <1>16, <2>2, OwnedFrame DEF Load, Queued
    <2> QED
        BY <2>1, <2>2
<1>17. ASSUME NEW w \in Workers, Tally(w) PROVE Owned(x)'
    <2>1. CASE x = worker[w].log
        <3>1. /\ worker'[w].pc = "commit" /\ worker'[w].log = x
              /\ worker'[w].seen = worker[w].seen
            BY <1>17, <2>1 DEF Tally, TypeOK, Worker
        <3>2. log[x].status = "PENDING" => PendingIsOwned(x)'
            BY <1>0, <1>17 DEF Tally, Owned, PendingIsOwned, Queued
        <3>3. log[x].status = "PROCESSING" => ProcessingIsOwned(x)'
            BY <1>0, <1>17, <3>1 DEF Tally, Owned, ProcessingIsOwned, Queued
        <3> QED
            BY <1>17, <3>2, <3>3 DEF Tally, Owned
    <2>2. CASE x # worker[w].log
        BY <1>0, <1>17, <2>2, OwnedFrame DEF Tally, Queued
    <2> QED
        BY <2>1, <2>2
<1>18. ASSUME NEW w \in Workers, Republish(w) PROVE Owned(x)'
    <2>1. CASE x = worker[w].log
        <3>1. worker[w].retries + 1 \in 0..MaxRetries
            BY <1>18, BoundsAssumption DEF Republish, TypeOK, Worker
        <3>2. queue[x][worker[w].retries + 1] + 1 > 0
            <4>1. queue[x] \in [0..MaxRetries -> Nat]
                BY <1>0, <1>18, <2>1 DEF Republish, TypeOK
            <4>2. queue[x][worker[w].retries + 1] \in Nat
                BY <3>1, <4>1
            <4> QED
                BY <4>2
        <3>3. queue'[x][worker[w].retries + 1] = queue[x][worker[w].retries + 1] + 1
            BY <1>0, <1>18, <2>1, <3>1 DEF Republish, Enqueue, TypeOK
        <3>4. Queued(x)'
            BY <3>1, <3>2, <3>3 DEF Queued
        <3> QED
            BY <3>4 DEF Owned, PendingIsOwned, ProcessingIsOwned
    <2>2. CASE x # worker[w].log
        <3>1. Queued(x) => Queued(x)'
            BY <1>18, <2>2 DEF Republish, Enqueue, Queued, TypeOK
        <3> QED
            BY <1>0, <1>18, <2>2, <3>1, OwnedFrame DEF Republish, Rest
    <2> QED
        BY <2>1, <2>2
<1>19. ASSUME NEW w \in Workers, Commit(w) PROVE Owned(x)'
    <2>1. CASE x = worker[w].log
        <3>1. log'[x].status \in {"SUCCESS", "FAILED"}
              \/ (worker[w].seen.status # "PROCESSING" /\ log'[x].status = log[x].status)
            BY <1>0, <1>19, <2>1 DEF Commit, AsSettled, Flush, Column, TypeOK
        <3>2. log[x].status = "PENDING" => PendingIsOwned(x)'
            BY <1>0, <1>19 DEF Commit, Rest, Owned, PendingIsOwned, Queued
        <3>3. worker[w].seen.status # "PROCESSING" /\ log[x].status = "PROCESSING"
                => ProcessingIsOwned(x)'
            BY <1>0, <1>19 DEF Commit, Rest, Owned, ProcessingIsOwned, Queued
        <3> QED
            BY <3>1, <3>2, <3>3 DEF Owned
    <2>2. CASE x # worker[w].log
        BY <1>0, <1>19, <2>2, OwnedFrame DEF Commit, Rest, Queued, TypeOK
    <2> QED
        BY <2>1, <2>2
<1>20. ASSUME NEW w \in Workers, Abandon(w) PROVE Owned(x)'
    BY <1>0, <1>20, OwnedFrame DEF Abandon, Rest, Queued
<1>21. ASSUME NEW w \in Workers, CrashWorker(w) PROVE Owned(x)'
    BY <1>0, <1>21, OwnedFrame DEF CrashWorker, Rest, Queued
<1>22. ASSUME NEW r \in Requests, CrashRequest(r) PROVE Owned(x)'
    BY <1>0, <1>22, OwnedFrame DEF CrashRequest, Reply, Queued
<1>23. CASE UNCHANGED vars
    BY <1>0, <1>23, OwnedFrame DEF vars, Queued
<1> QED
    BY <1>1, <1>2, <1>3, <1>4, <1>5, <1>6, <1>7, <1>8, <1>9, <1>10, <1>11, <1>12,
       <1>13, <1>14, <1>15, <1>16, <1>17, <1>18, <1>19, <1>20, <1>21, <1>22, <1>23
       DEF Next, Administer, Arrive, Serve, Take, Work, Fault

\* No execution that shows PENDING or PROCESSING is forgotten, unless a fault
\* dropped its task after it was last published.
THEOREM NoExecutionIsForgotten == Spec => []UnfinishedIsOwned
BY TypeInit, TypeNext, OwnedInit, OwnedNext, PTL DEF Spec

(***************************************************************************)
(* Usage.                                                                   *)
(***************************************************************************)

AtMost(row, done) ==
    /\ row.total <= done.ok + done.failed
    /\ row.successful <= done.ok
    /\ row.failed <= done.failed

\* UsageNeverOvercounts holds of the counters a worker has read as well, since
\* finished only grows: a stale read is written back one higher, as finished is.
UsageInv ==
    /\ UsageNeverOvercounts
    /\ \A w \in Workers : worker[w].pc = "commit" =>
          AtMost(worker[w].tally, finished[LogTenant(worker[w].log)])

LEMMA AtMostGrows ==
    ASSUME NEW row \in UsageRow,
           NEW done \in [ok : Nat, failed : Nat], NEW later \in [ok : Nat, failed : Nat],
           AtMost(row, done), done.ok <= later.ok, done.failed <= later.failed
    PROVE  AtMost(row, later)
BY DEF AtMost, UsageRow

LEMMA AtMostIncrement ==
    ASSUME NEW row \in UsageRow, NEW tally \in UsageRow, NEW success \in BOOLEAN,
           NEW done \in [ok : Nat, failed : Nat], NEW later \in [ok : Nat, failed : Nat],
           AtMost(row, done), AtMost(tally, done),
           later.ok = IF success THEN done.ok + 1 ELSE done.ok,
           later.failed = IF success THEN done.failed ELSE done.failed + 1
    PROVE  AtMost(IncrementUsage(row, tally, success), later)
BY DEF AtMost, UsageRow, IncrementUsage

LEMMA UsageInit == Init => UsageInv
<1> SUFFICES ASSUME Init PROVE UsageInv
    OBVIOUS
<1>1. ASSUME NEW t \in Tenants PROVE AtMost(usage[t], finished[t])
    BY DEF Init, AtMost, NewUsage
<1>2. \A w \in Workers : worker[w].pc = "idle"
    BY DEF Init, IdleWorker
<1> QED
    BY <1>1, <1>2 DEF UsageInv, UsageNeverOvercounts, AtMost

\* Steps that neither write usage nor finished, and bring no worker to commit.
LEMMA UsageFrame ==
    ASSUME UsageInv, usage' = usage, finished' = finished,
           \A w \in Workers : worker'[w].pc = "commit" =>
              /\ worker[w].pc = "commit"
              /\ worker'[w].tally = worker[w].tally
              /\ worker'[w].log = worker[w].log
    PROVE  UsageInv'
BY DEF UsageInv, UsageNeverOvercounts, AtMost, LogTenant

LEMMA UsageNext == TypeOK /\ UsageInv /\ [Next]_vars => UsageInv'
<1> SUFFICES ASSUME TypeOK, UsageInv, [Next]_vars PROVE UsageInv'
    OBVIOUS
<1> USE DEF db, history
<1>1. CASE Administer
    <2>1. ASSUME NEW t \in Tenants, GetUsage(t) PROVE UsageInv'
        <3>1. AtMost(NewUsage(TRUE), finished[t])
            BY DEF AtMost, NewUsage, TypeOK
        <3>2. ASSUME NEW u \in Tenants PROVE AtMost(usage'[u], finished'[u])
            BY <2>1, <3>1 DEF GetUsage, UsageInv, UsageNeverOvercounts, AtMost, TypeOK
        <3>3. UsageNeverOvercounts'
            BY <3>2 DEF UsageNeverOvercounts, AtMost
        <3> QED
            BY <2>1, <3>3 DEF GetUsage, UsageInv, LogTenant, AtMost
    <2> QED
        BY <1>1, <2>1, UsageFrame
           DEF Administer, CreateWorkflow, UpdateWorkflow, DeleteWorkflow
<1>2. ASSUME NEW r \in Requests, Arrive(r) PROVE UsageInv'
    BY <1>2, UsageFrame DEF Arrive, StartWebhook, StartRetry, StartCancel
<1>3. ASSUME NEW r \in Requests, Serve(r) PROVE UsageInv'
    BY <1>3, UsageFrame
       DEF Serve, InsertLog, CommitRetry, CommitCancel, Publish, AbortRequest
<1>4. ASSUME NEW w \in Workers, Take(w) PROVE UsageInv'
    <2>1. ASSUME NEW l \in Logs, NEW k \in 0..MaxRetries, Fetch(w, l, k)
          PROVE  UsageInv'
        <3>1. worker'[w].pc = "mark"
            BY <2>1 DEF Fetch, IdleWorker, TypeOK
        <3> QED
            BY <2>1, <3>1, UsageFrame DEF Fetch
    <2>2. ASSUME NEW l \in Logs, NEW k \in 0..MaxRetries, Discard(w, l, k)
          PROVE  UsageInv'
        BY <2>2, UsageFrame DEF Discard
    <2> QED
        BY <1>4, <2>1, <2>2 DEF Take
<1>5. ASSUME NEW w \in Workers, Mark(w) PROVE UsageInv'
    <2>1. worker'[w].pc = "load"
        BY <1>5 DEF Mark, TypeOK, Worker
    <2> QED
        BY <1>5, <2>1, UsageFrame DEF Mark
<1>6. ASSUME NEW w \in Workers, Load(w) PROVE UsageInv'
    <2>1. worker'[w].pc = "run"
        BY <1>6 DEF Load, TypeOK, Worker
    <2> QED
        BY <1>6, <2>1, UsageFrame DEF Load
<1>7. ASSUME NEW w \in Workers, Tally(w) PROVE UsageInv'
    <2> DEFINE t == LogTenant(worker[w].log)
    <2>1. t \in Tenants
        BY <1>7, TenantType DEF Tally, TypeOK
    <2>2. worker'[w].tally = usage[t] /\ worker'[w].log = worker[w].log
        BY <1>7 DEF Tally, TypeOK, Worker
    <2>3. AtMost(usage[t], finished[t])
        BY <2>1 DEF UsageInv, UsageNeverOvercounts, AtMost
    <2>4. UsageNeverOvercounts'
        BY <1>7 DEF Tally, UsageInv, UsageNeverOvercounts
    <2>5. ASSUME NEW v \in Workers, worker'[v].pc = "commit"
          PROVE  AtMost(worker'[v].tally, finished'[LogTenant(worker'[v].log)])
        <3>1. finished' = finished
            BY <1>7 DEF Tally
        <3>2. CASE v = w
            BY <2>2, <2>3, <3>1, <3>2
        <3>3. CASE v # w
            <4>1. worker'[v] = worker[v]
                BY <1>7, <3>3 DEF Tally
            <4> QED
                BY <2>5, <3>1, <4>1 DEF UsageInv
        <3> QED
            BY <3>2, <3>3
    <2> QED
        BY <2>4, <2>5 DEF UsageInv, AtMost, LogTenant
<1>8. ASSUME NEW w \in Workers, Commit(w) PROVE UsageInv'
    <2> DEFINE t == LogTenant(worker[w].log)
    <2>1. /\ t \in Tenants /\ worker[w].runs \in BOOLEAN
          /\ worker[w].tally \in UsageRow /\ usage[t] \in UsageRow
          /\ finished[t] \in [ok : Nat, failed : Nat]
        BY <1>8, TenantType DEF Commit, TypeOK, Worker
    <2>2. finished' \in [Tenants -> [ok : Nat, failed : Nat]]
        BY TypeNext DEF TypeOK
    <2>3. /\ finished'[t].ok =
                IF worker[w].runs THEN finished[t].ok + 1 ELSE finished[t].ok
          /\ finished'[t].failed =
                IF worker[w].runs THEN finished[t].failed ELSE finished[t].failed + 1
        BY <1>8, <2>1 DEF Commit, TypeOK
    <2>4. \A u \in Tenants : u # t => finished'[u] = finished[u] /\ usage'[u] = usage[u]
        BY <1>8, <2>1 DEF Commit, TypeOK
    <2>5. \A u \in Tenants : /\ finished[u].ok <= finished'[u].ok
                             /\ finished[u].failed <= finished'[u].failed
        <3>1. ASSUME NEW u \in Tenants
              PROVE  /\ finished[u].ok <= finished'[u].ok
                     /\ finished[u].failed <= finished'[u].failed
            <4>1. finished[u].ok \in Nat /\ finished[u].failed \in Nat
                BY DEF TypeOK
            <4>2. CASE u = t
                BY <2>3, <4>1, <4>2
            <4>3. CASE u # t
                BY <2>4, <4>1, <4>3
            <4> QED
                BY <4>2, <4>3
        <3> QED
            BY <3>1
    <2>6. AtMost(usage[t], finished[t]) /\ AtMost(worker[w].tally, finished[t])
        BY <1>8, <2>1 DEF Commit, UsageInv, UsageNeverOvercounts, AtMost
    <2>7. usage'[t] = IncrementUsage(usage[t], worker[w].tally, worker[w].runs)
        BY <1>8, <2>1 DEF Commit, TypeOK
    <2>8. AtMost(usage'[t], finished'[t])
        BY <2>1, <2>2, <2>3, <2>6, <2>7, AtMostIncrement
    <2>9. UsageNeverOvercounts'
        BY <2>4, <2>8 DEF UsageInv, UsageNeverOvercounts, AtMost
    <2>10. ASSUME NEW v \in Workers, worker'[v].pc = "commit"
           PROVE  AtMost(worker'[v].tally, finished'[LogTenant(worker'[v].log)])
        <3>1. v # w
            BY <1>8, <2>10 DEF Commit, Rest, IdleWorker, TypeOK
        <3>2. worker'[v] = worker[v]
            BY <1>8, <3>1 DEF Commit, Rest
        <3>3. /\ LogTenant(worker[v].log) \in Tenants
              /\ worker[v].tally \in UsageRow
            BY <2>10, <3>2, TenantType DEF TypeOK, Worker
        <3>4. AtMost(worker[v].tally, finished[LogTenant(worker[v].log)])
            BY <2>10, <3>2 DEF UsageInv
        <3> QED
            BY <2>2, <2>5, <3>2, <3>3, <3>4, AtMostGrows DEF TypeOK
    <2>11. \A v \in Workers : worker'[v].pc = "commit" =>
              AtMost(worker'[v].tally, finished'[LogTenant(worker'[v].log)])
        BY <2>10
    <2> QED
        BY <2>9, <2>11 DEF UsageInv, AtMost, LogTenant
<1>9. ASSUME NEW w \in Workers, Rest(w), usage' = usage, finished' = finished
      PROVE  UsageInv'
    <2>1. worker'[w].pc = "idle"
        BY <1>9 DEF Rest, IdleWorker, TypeOK
    <2> QED
        BY <1>9, <2>1, UsageFrame DEF Rest
<1>10. CASE Fault
    BY <1>9, <1>10, UsageFrame DEF Fault, CrashWorker, CrashRequest
<1>11. ASSUME NEW w \in Workers, Republish(w) \/ Abandon(w) PROVE UsageInv'
    BY <1>9, <1>11 DEF Republish, Abandon
<1>12. CASE UNCHANGED vars
    BY <1>12, UsageFrame DEF vars
<1> QED
    BY <1>1, <1>2, <1>3, <1>4, <1>5, <1>6, <1>7, <1>8, <1>10, <1>11, <1>12
       DEF Next, Work

\* No interleaving of workers bills a tenant for a result that was not committed.
THEOREM UsageIsNeverInvented == Spec => []UsageNeverOvercounts
<1>1. UsageInv => UsageNeverOvercounts
    BY DEF UsageInv
<1> QED
    BY <1>1, TypeInit, TypeNext, UsageInit, UsageNext, PTL DEF Spec

(***************************************************************************)
(* With one worker the counters are exact.                                  *)
(***************************************************************************)

Exact(row, done) ==
    /\ row.present
    /\ row.total = done.ok + done.failed
    /\ row.successful = done.ok
    /\ row.failed = done.failed

\* The counters that the one worker has read are still those in the table.
SerialInv ==
    /\ \A t \in Registered : Exact(usage[t], finished[t])
    /\ \A w \in Workers :
          worker[w].pc = "commit" /\ LogTenant(worker[w].log) \in Registered =>
             worker[w].tally = usage[LogTenant(worker[w].log)]

LEMMA ExactIncrement ==
    ASSUME NEW row \in UsageRow, NEW success \in BOOLEAN,
           NEW done \in [ok : Nat, failed : Nat], NEW later \in [ok : Nat, failed : Nat],
           Exact(row, done),
           later.ok = IF success THEN done.ok + 1 ELSE done.ok,
           later.failed = IF success THEN done.failed ELSE done.failed + 1
    PROVE  Exact(IncrementUsage(row, row, success), later)
BY DEF Exact, UsageRow, IncrementUsage

LEMMA SerialInit == Init => SerialInv
<1> SUFFICES ASSUME Init PROVE SerialInv
    OBVIOUS
<1>1. ASSUME NEW t \in Registered PROVE Exact(usage[t], finished[t])
    <2>1. t \in Tenants /\ usage[t] = NewUsage(t \in Registered)
        BY RegisteredAssumption DEF Init
    <2>2. usage[t].total = 0 /\ usage[t].successful = 0 /\ usage[t].failed = 0
        BY <2>1 DEF NewUsage
    <2>3. (t \in Registered) = TRUE
        BY Zenon
    <2>4. usage[t] = NewUsage(TRUE)
        BY <2>1, <2>3, Zenon
    <2>5. usage[t].present
        BY <2>4 DEF NewUsage
    <2>6. finished[t].ok = 0 /\ finished[t].failed = 0
        BY <2>1 DEF Init
    <2> QED
        BY <2>2, <2>5, <2>6 DEF Exact
<1>2. \A w \in Workers : worker[w].pc = "idle"
    BY DEF Init, IdleWorker
<1> QED
    BY <1>1, <1>2 DEF SerialInv

LEMMA SerialFrame ==
    ASSUME SerialInv, usage' = usage, finished' = finished,
           \A w \in Workers : worker'[w].pc = "commit" =>
              /\ worker[w].pc = "commit"
              /\ worker'[w].tally = worker[w].tally
              /\ worker'[w].log = worker[w].log
    PROVE  SerialInv'
BY DEF SerialInv, Exact, LogTenant

LEMMA SerialNext ==
    ASSUME TypeOK, SerialInv, [Next]_vars, NEW one, Workers = {one}
    PROVE  SerialInv'
<1> USE DEF db, history
<1>1. CASE Administer
    <2>1. ASSUME NEW t \in Tenants, GetUsage(t) PROVE SerialInv'
        <3>1. t \notin Registered
            BY <2>1 DEF GetUsage, SerialInv, Exact
        <3>2. \A u \in Registered : usage'[u] = usage[u]
            BY <2>1, <3>1, RegisteredAssumption DEF GetUsage, TypeOK
        <3> QED
            BY <2>1, <3>2 DEF GetUsage, SerialInv, Exact, LogTenant
    <2> QED
        BY <1>1, <2>1, SerialFrame
           DEF Administer, CreateWorkflow, UpdateWorkflow, DeleteWorkflow
<1>2. ASSUME NEW r \in Requests, Arrive(r) PROVE SerialInv'
    BY <1>2, SerialFrame DEF Arrive, StartWebhook, StartRetry, StartCancel
<1>3. ASSUME NEW r \in Requests, Serve(r) PROVE SerialInv'
    BY <1>3, SerialFrame
       DEF Serve, InsertLog, CommitRetry, CommitCancel, Publish, AbortRequest
<1>4. ASSUME NEW w \in Workers, Take(w) PROVE SerialInv'
    <2>1. ASSUME NEW l \in Logs, NEW k \in 0..MaxRetries, Fetch(w, l, k)
          PROVE  SerialInv'
        <3>1. worker'[w].pc = "mark"
            BY <2>1 DEF Fetch, IdleWorker, TypeOK
        <3> QED
            BY <2>1, <3>1, SerialFrame DEF Fetch
    <2>2. ASSUME NEW l \in Logs, NEW k \in 0..MaxRetries, Discard(w, l, k)
          PROVE  SerialInv'
        BY <2>2, SerialFrame DEF Discard
    <2> QED
        BY <1>4, <2>1, <2>2 DEF Take
<1>5. ASSUME NEW w \in Workers, Mark(w) PROVE SerialInv'
    <2>1. worker'[w].pc = "load"
        BY <1>5 DEF Mark, TypeOK, Worker
    <2> QED
        BY <1>5, <2>1, SerialFrame DEF Mark
<1>6. ASSUME NEW w \in Workers, Load(w) PROVE SerialInv'
    <2>1. worker'[w].pc = "run"
        BY <1>6 DEF Load, TypeOK, Worker
    <2> QED
        BY <1>6, <2>1, SerialFrame DEF Load
<1>7. ASSUME NEW w \in Workers, Tally(w) PROVE SerialInv'
    <2>1. /\ worker'[w].tally = usage[LogTenant(worker[w].log)]
          /\ worker'[w].log = worker[w].log
        BY <1>7 DEF Tally, TypeOK, Worker
    <2>2. \A v \in Workers : v = w
        OBVIOUS
    <2> QED
        BY <1>7, <2>1, <2>2 DEF Tally, SerialInv, Exact, LogTenant
<1>8. ASSUME NEW w \in Workers, Commit(w) PROVE SerialInv'
    <2> DEFINE t == LogTenant(worker[w].log)
    <2>1. /\ t \in Tenants /\ worker[w].runs \in BOOLEAN
          /\ usage[t] \in UsageRow
          /\ finished[t] \in [ok : Nat, failed : Nat]
        BY <1>8, TenantType DEF Commit, TypeOK, Worker
    <2>2. finished' \in [Tenants -> [ok : Nat, failed : Nat]]
        BY TypeNext DEF TypeOK
    <2>3. /\ finished'[t].ok =
                IF worker[w].runs THEN finished[t].ok + 1 ELSE finished[t].ok
          /\ finished'[t].failed =
                IF worker[w].runs THEN finished[t].failed ELSE finished[t].failed + 1
        BY <1>8, <2>1 DEF Commit, TypeOK
    <2>4. \A u \in Tenants : u # t => finished'[u] = finished[u] /\ usage'[u] = usage[u]
        BY <1>8, <2>1 DEF Commit, TypeOK
    <2>5. ASSUME t \in Registered PROVE Exact(usage'[t], finished'[t])
        <3>1. worker[w].tally = usage[t] /\ Exact(usage[t], finished[t])
            BY <1>8, <2>5 DEF Commit, SerialInv
        <3>2. usage'[t] = IncrementUsage(usage[t], usage[t], worker[w].runs)
            BY <1>8, <2>1, <3>1 DEF Commit, TypeOK
        <3> QED
            BY <2>1, <2>2, <2>3, <3>1, <3>2, ExactIncrement
    <2>6. \A u \in Registered : Exact(usage'[u], finished'[u])
        BY <2>4, <2>5, RegisteredAssumption DEF SerialInv
    <2>7. \A v \in Workers : worker'[v].pc = "idle"
        BY <1>8 DEF Commit, Rest, IdleWorker, TypeOK
    <2> QED
        BY <2>6, <2>7 DEF SerialInv, Exact
<1>9. ASSUME NEW w \in Workers, Rest(w), usage' = usage, finished' = finished
      PROVE  SerialInv'
    <2>1. worker'[w].pc = "idle"
        BY <1>9 DEF Rest, IdleWorker, TypeOK
    <2> QED
        BY <1>9, <2>1, SerialFrame DEF Rest
<1>10. CASE Fault
    BY <1>9, <1>10, SerialFrame DEF Fault, CrashWorker, CrashRequest
<1>11. ASSUME NEW w \in Workers, Republish(w) \/ Abandon(w) PROVE SerialInv'
    BY <1>9, <1>11 DEF Republish, Abandon
<1>12. CASE UNCHANGED vars
    BY <1>12, SerialFrame DEF vars
<1> QED
    BY <1>1, <1>2, <1>3, <1>4, <1>5, <1>6, <1>7, <1>8, <1>10, <1>11, <1>12
       DEF Next, Work

\* With one worker process a registered tenant's counters are exact.
THEOREM SerialUsage == Spec => []SerialUsageIsExact
<1>1. CASE Cardinality(Workers) = 1
    <2>1. PICK one : Workers = {one}
        BY <1>1, WorkersAssumption, FS_Singleton
    <2>2. TypeOK /\ SerialInv /\ [Next]_vars => SerialInv'
        BY <2>1, SerialNext
    <2>3. SerialInv => SerialUsageIsExact
        BY DEF SerialInv, SerialUsageIsExact, Exact
    <2> QED
        BY <2>2, <2>3, TypeInit, TypeNext, SerialInit, PTL DEF Spec
<1>2. CASE Cardinality(Workers) # 1
    <2>1. SerialUsageIsExact
        BY <1>2 DEF SerialUsageIsExact
    <2> QED
        BY <2>1, PTL
<1> QED
    BY <1>1, <1>2

(***************************************************************************)
(* One task per execution that nobody retries.                              *)
(***************************************************************************)

Accepting(r, l) == request[r].op = "webhook" /\ request[r].log = l
Running(w, l) == worker[w].log = l

\* At most one of: the webhook handler, one message, one worker.
OneTask(l) ==
    /\ \A r \in Requests : Accepting(r, l) =>
          /\ ~Queued(l)
          /\ \A w \in Workers : ~Running(w, l)
          /\ \A s \in Requests : Accepting(s, l) => s = r
    /\ Queued(l) => \A w \in Workers : ~Running(w, l)
    /\ \A j, k \in 0..MaxRetries : queue[l][j] > 0 /\ queue[l][k] > 0 => j = k
    /\ \A k \in 0..MaxRetries : queue[l][k] <= 1
    /\ \A v, w \in Workers : Running(v, l) /\ Running(w, l) => v = w

NoTask(l) ==
    /\ retried[l] = 0
    /\ ~Queued(l)
    /\ \A w \in Workers : ~Running(w, l)
    /\ \A r \in Requests : request[r].log # l

AloneInv ==
    /\ \A l \in Logs : retried[l] = 0 => OneTask(l)
    /\ \A l \in Logs \ born : NoTask(l)
    /\ \A r \in Requests :
          /\ request[r].pc = "idle" => request[r].op = "none" /\ request[r].log = NoLog
          /\ request[r].op = "retry" => retried[request[r].log] > 0
          /\ request[r].pc = "publish" => request[r].op \in {"webhook", "retry"}
    /\ \A w \in Workers : worker[w].pc = "idle" => worker[w].log = NoLog

LEMMA QueueNat ==
    ASSUME TypeOK, NEW l \in Logs
    PROVE  /\ queue[l] \in [0..MaxRetries -> Nat]
           /\ \A k \in 0..MaxRetries : queue[l][k] \in Nat
<1>1. queue[l] \in [0..MaxRetries -> Nat]
    BY DEF TypeOK
<1> QED
    BY <1>1

LEMMA NotQueued ==
    ASSUME TypeOK, NEW l \in Logs, ~Queued(l)
    PROVE  \A k \in 0..MaxRetries : queue[l][k] = 0
BY QueueNat DEF Queued

\* What one message more, or one less, does to the counts.
LEMMA EnqueueAt ==
    ASSUME TypeOK, NEW l \in Logs, NEW k \in 0..MaxRetries, Enqueue(l, k)
    PROVE  \A j \in 0..MaxRetries :
              queue'[l][j] = IF j = k THEN queue[l][j] + 1 ELSE queue[l][j]
<1>1. queue'[l] = [queue[l] EXCEPT ![k] = queue[l][k] + 1]
    BY DEF Enqueue, TypeOK
<1> QED
    BY <1>1, QueueNat

LEMMA DequeueAt ==
    ASSUME TypeOK, NEW l \in Logs, NEW k \in 0..MaxRetries, Dequeue(l, k)
    PROVE  /\ queue[l][k] > 0
           /\ \A j \in 0..MaxRetries :
                 queue'[l][j] = IF j = k THEN queue[l][j] - 1 ELSE queue[l][j]
<1>1. queue'[l] = [queue[l] EXCEPT ![k] = queue[l][k] - 1]
    BY DEF Dequeue, TypeOK
<1> QED
    BY <1>1, QueueNat DEF Dequeue

LEMMA AloneInit == Init => AloneInv
<1> SUFFICES ASSUME Init PROVE AloneInv
    OBVIOUS
<1>1. \A w \in Workers : worker[w].pc = "idle" /\ worker[w].log = NoLog
    BY DEF Init, IdleWorker
<1>2. \A r \in Requests : request[r].pc = "idle" /\ request[r].op = "none"
                          /\ request[r].log = NoLog
    BY DEF Init, IdleRequest
<1>3. ASSUME NEW l \in Logs PROVE NoTask(l) /\ OneTask(l)
    <2>1. \A k \in 0..MaxRetries : queue[l][k] = 0
        BY DEF Init
    <2>2. retried[l] = 0 /\ l # NoLog
        BY NoLogAssumption DEF Init
    <2>3. NoTask(l)
        BY <1>1, <1>2, <2>1, <2>2 DEF NoTask, Queued, Running
    <2>4. OneTask(l)
        BY <1>1, <1>2, <2>1, <2>2 DEF OneTask, Accepting, Running, Queued
    <2> QED
        BY <2>3, <2>4
<1> QED
    BY <1>1, <1>2, <1>3 DEF AloneInv

\* An execution stays alone when it gets no new message, worker or handler.
LEMMA OneTaskFrame ==
    ASSUME TypeOK, NEW l \in Logs, OneTask(l), queue'[l] = queue[l],
           \A w \in Workers : Running(w, l)' => Running(w, l),
           \A r \in Requests : Accepting(r, l)' => Accepting(r, l)
    PROVE  OneTask(l)'
BY DEF OneTask, Queued

LEMMA NoTaskFrame ==
    ASSUME NEW l \in Logs, NoTask(l), queue'[l] = queue[l], retried'[l] = retried[l],
           \A w \in Workers : Running(w, l)' => Running(w, l),
           \A r \in Requests : request'[r].log = l => request[r].log = l
    PROVE  NoTask(l)'
BY DEF NoTask, Queued

\* Handlers that keep their operation, end, or do not start.
HandlersKeep ==
    \A r \in Requests :
        \/ request'[r] = IdleRequest
        \/ /\ request'[r].op = request[r].op
           /\ request'[r].log = request[r].log
           /\ request'[r].pc = "idle" => request[r].pc = "idle"
           /\ request'[r].pc = "publish" => request[r].op \in {"webhook", "retry"}

WorkersKeep ==
    \A w \in Workers :
        \/ worker'[w] = IdleWorker
        \/ /\ worker'[w].log = worker[w].log
           /\ worker'[w].pc = "idle" => worker[w].pc = "idle"

LEMMA AloneFrame ==
    ASSUME TypeOK, AloneInv, born' = born, retried' = retried, queue' = queue,
           HandlersKeep, WorkersKeep
    PROVE  AloneInv'
<1>1. ASSUME NEW l \in Logs
      PROVE  /\ \A w \in Workers : Running(w, l)' => Running(w, l)
             /\ \A r \in Requests : Accepting(r, l)' => Accepting(r, l)
             /\ \A r \in Requests : request'[r].log = l => request[r].log = l
    BY IdleTypes, NoLogAssumption DEF HandlersKeep, WorkersKeep, Running, Accepting
<1>2. \A l \in Logs : retried'[l] = 0 => OneTask(l)'
    BY <1>1, OneTaskFrame DEF AloneInv
<1>3. \A l \in Logs \ born' : NoTask(l)'
    BY <1>1, NoTaskFrame DEF AloneInv
<1>4. \A r \in Requests :
          /\ request'[r].pc = "idle" => request'[r].op = "none" /\ request'[r].log = NoLog
          /\ request'[r].op = "retry" => retried'[request'[r].log] > 0
          /\ request'[r].pc = "publish" => request'[r].op \in {"webhook", "retry"}
    BY DEF HandlersKeep, AloneInv, IdleRequest
<1>5. \A w \in Workers : worker'[w].pc = "idle" => worker'[w].log = NoLog
    BY IdleTypes DEF WorkersKeep, AloneInv
<1> QED
    BY <1>2, <1>3, <1>4, <1>5 DEF AloneInv

LEMMA AloneNext == TypeOK /\ AloneInv /\ [Next]_vars => AloneInv'
<1> SUFFICES ASSUME TypeOK, AloneInv, [Next]_vars PROVE AloneInv'
    OBVIOUS
<1> USE DEF db, history
<1>0. request' = request => HandlersKeep
    BY DEF HandlersKeep, AloneInv
<1>1. worker' = worker => WorkersKeep
    BY DEF WorkersKeep
<1>2. ASSUME NEW r \in Requests, Reply(r) PROVE HandlersKeep
    BY <1>2 DEF Reply, HandlersKeep, AloneInv, TypeOK
<1>3. ASSUME NEW w \in Workers, Rest(w) PROVE WorkersKeep
    BY <1>3 DEF Rest, WorkersKeep, TypeOK
<1>4. CASE Administer
    BY <1>0, <1>1, <1>4, AloneFrame
       DEF Administer, CreateWorkflow, UpdateWorkflow, DeleteWorkflow, GetUsage
<1>5. ASSUME NEW r \in Requests, NEW l \in Logs, StartWebhook(r, l) PROVE AloneInv'
    <2>1. NoTask(l) /\ OneTask(l) /\ born' = born \cup {l}
        BY <1>5 DEF StartWebhook, AloneInv, NoTask
    <2>2. /\ request'[r].op = "webhook" /\ request'[r].pc = "commit" /\ request'[r].log = l
          /\ \A s \in Requests : s # r => request'[s] = request[s]
        BY <1>5 DEF StartWebhook, Handle, TypeOK
    <2>3. queue' = queue /\ worker' = worker /\ retried' = retried
        BY <1>5 DEF StartWebhook
    <2>4. OneTask(l)'
        BY <2>1, <2>2, <2>3 DEF OneTask, NoTask, Accepting, Running, Queued
    <2>5. ASSUME NEW x \in Logs, x # l
          PROVE  /\ retried[x] = 0 => OneTask(x)'
                 /\ x \notin born => NoTask(x)'
        <3>1. /\ \A s \in Requests : Accepting(s, x)' => Accepting(s, x)
              /\ \A s \in Requests : request'[s].log = x => request[s].log = x
            BY <2>2, <2>5 DEF Accepting
        <3> QED
            BY <2>3, <3>1, OneTaskFrame, NoTaskFrame DEF AloneInv, Running
    <2> QED
        BY <2>1, <2>2, <2>3, <2>4, <2>5 DEF AloneInv
<1>6. ASSUME NEW r \in Requests, NEW l \in Logs, StartRetry(r, l) PROVE AloneInv'
    <2>1. /\ request'[r].op = "retry" /\ request'[r].pc = "commit" /\ request'[r].log = l
          /\ \A s \in Requests : s # r => request'[s] = request[s]
        BY <1>6 DEF StartRetry, Handle, TypeOK
    <2>2. /\ queue' = queue /\ worker' = worker /\ born' = born /\ l \in born
          /\ retried'[l] > 0
          /\ \A x \in Logs : retried'[x] >= retried[x] /\ (x # l => retried'[x] = retried[x])
        BY <1>6 DEF StartRetry, TypeOK
    <2>3. ASSUME NEW x \in Logs, x # l
          PROVE  /\ retried[x] = 0 => OneTask(x)'
                 /\ x \notin born => NoTask(x)'
        <3>1. /\ \A s \in Requests : Accepting(s, x)' => Accepting(s, x)
              /\ \A s \in Requests : request'[s].log = x => request[s].log = x
            BY <2>1, <2>3 DEF Accepting
        <3> QED
            BY <2>2, <2>3, <3>1, OneTaskFrame, NoTaskFrame DEF AloneInv, Running
    <2>4. \A s \in Requests : request'[s].op = "retry" => retried'[request'[s].log] > 0
        <3>1. ASSUME NEW s \in Requests, s # r, request[s].op = "retry"
              PROVE  retried'[request[s].log] > 0
            <4>1. request[s].log \in Logs /\ retried[request[s].log] > 0
                BY <3>1 DEF AloneInv, TypeOK
            <4>2. request[s].log = l \/ retried'[request[s].log] = retried[request[s].log]
                BY <2>2, <4>1
            <4> QED
                BY <2>2, <4>1, <4>2
        <3> QED
            BY <2>1, <2>2, <3>1
    <2>5. \A x \in Logs : retried'[x] = 0 => OneTask(x)'
        BY <2>2, <2>3
    <2>6. \A x \in Logs \ born' : NoTask(x)'
        BY <2>2, <2>3
    <2> QED
        BY <2>1, <2>2, <2>4, <2>5, <2>6 DEF AloneInv
<1>7. ASSUME NEW r \in Requests, NEW l \in Logs, StartCancel(r, l) PROVE AloneInv'
    <2>1. /\ request'[r].op = "cancel" /\ request'[r].pc = "commit" /\ request'[r].log = l
          /\ \A s \in Requests : s # r => request'[s] = request[s]
        BY <1>7 DEF StartCancel, Handle, TypeOK
    <2>2. /\ queue' = queue /\ worker' = worker /\ born' = born /\ l \in born
          /\ retried' = retried
        BY <1>7 DEF StartCancel, TypeOK
    <2>3. ASSUME NEW x \in Logs
          PROVE  /\ retried[x] = 0 => OneTask(x)'
                 /\ x \notin born => NoTask(x)'
        <3>1. /\ \A s \in Requests : Accepting(s, x)' => Accepting(s, x)
              /\ x # l => \A s \in Requests : request'[s].log = x => request[s].log = x
            BY <2>1 DEF Accepting
        <3> QED
            BY <2>2, <3>1, OneTaskFrame, NoTaskFrame DEF AloneInv, Running
    <2> QED
        BY <2>1, <2>2, <2>3 DEF AloneInv
<1>8. ASSUME NEW r \in Requests, InsertLog(r) \/ CommitRetry(r) PROVE AloneInv'
    <2>1. /\ request'[r].op = request[r].op /\ request'[r].log = request[r].log
          /\ request'[r].pc = "publish" /\ request[r].op \in {"webhook", "retry"}
          /\ \A s \in Requests : s # r => request'[s] = request[s]
        BY <1>8 DEF InsertLog, CommitRetry, Advance, TypeOK, Request
    <2>2. HandlersKeep
        BY <2>1 DEF HandlersKeep, AloneInv
    <2> QED
        BY <1>1, <1>8, <2>2, AloneFrame DEF InsertLog, CommitRetry
<1>9. ASSUME NEW r \in Requests, CommitCancel(r) \/ AbortRequest(r) \/ CrashRequest(r)
      PROVE  AloneInv'
    BY <1>1, <1>2, <1>9, AloneFrame DEF CommitCancel, AbortRequest, CrashRequest
<1>10. ASSUME NEW w \in Workers, Mark(w) \/ Load(w) \/ Tally(w) PROVE AloneInv'
    <2>1. /\ worker'[w].log = worker[w].log /\ worker'[w].pc # "idle"
          /\ \A v \in Workers : v # w => worker'[v] = worker[v]
        <3>1. CASE Mark(w)
            BY <3>1 DEF Mark, TypeOK, Worker
        <3>2. CASE Load(w)
            BY <3>2 DEF Load, TypeOK, Worker
        <3>3. CASE Tally(w)
            BY <3>3 DEF Tally, TypeOK, Worker
        <3> QED
            BY <1>10, <3>1, <3>2, <3>3
    <2>2. WorkersKeep
        BY <2>1 DEF WorkersKeep
    <2> QED
        BY <1>0, <1>10, <2>2, AloneFrame DEF Mark, Load, Tally
<1>11. ASSUME NEW w \in Workers, Commit(w) \/ Abandon(w) \/ CrashWorker(w) PROVE AloneInv'
    BY <1>0, <1>3, <1>11, AloneFrame DEF Commit, Abandon, CrashWorker
<1>12. ASSUME NEW r \in Requests, Publish(r) PROVE AloneInv'
    <2>0. PICK l \in Logs : l = request[r].log
        BY <1>12 DEF Publish, TypeOK
    <2>1. /\ l \in Logs /\ l \in born /\ request[r].op \in {"webhook", "retry"}
          /\ worker' = worker /\ born' = born /\ retried' = retried
        BY <1>12, <2>0 DEF Publish, AloneInv, TypeOK
    <2>2. HandlersKeep /\ request'[r] = IdleRequest
        BY <1>2, <1>12 DEF Publish, Reply, TypeOK
    <2>3. \A x \in Logs, s \in Requests : /\ Accepting(s, x)' => Accepting(s, x)
                                          /\ request'[s].log = x => request[s].log = x
        BY <2>2, NoLogAssumption, IdleTypes DEF HandlersKeep, Accepting
    <2>4. ASSUME NEW x \in Logs, x # l
          PROVE  /\ retried[x] = 0 => OneTask(x)'
                 /\ x \notin born => NoTask(x)'
        <3>1. queue'[x] = queue[x]
            BY <1>12, <2>0, <2>4 DEF Publish, Enqueue, TypeOK
        <3> QED
            BY <2>1, <2>3, <3>1, OneTaskFrame, NoTaskFrame DEF AloneInv, Running
    <2>5. ASSUME retried[l] = 0 PROVE OneTask(l)'
        <3>1. Accepting(r, l) /\ OneTask(l)
            BY <2>0, <2>1, <2>5 DEF AloneInv, Accepting
        <3>2. ~Queued(l) /\ (\A w \in Workers : ~Running(w, l))
            BY <3>1 DEF OneTask
        <3>3. \A s \in Requests : ~Accepting(s, l)'
            <4>1. ~Accepting(r, l)'
                BY <2>2, IdleTypes, NoLogAssumption DEF Accepting
            <4> QED
                BY <2>3, <3>1, <4>1, <2>1 DEF OneTask
        <3>4. \A k \in 0..MaxRetries : queue[l][k] = 0
            BY <3>2, NotQueued
        <3>5. Enqueue(l, 0) /\ 0 \in 0..MaxRetries
            BY <1>12, <2>0, BoundsAssumption DEF Publish
        <3>6. \A k \in 0..MaxRetries : queue'[l][k] = IF k = 0 THEN 1 ELSE 0
            BY <3>4, <3>5, EnqueueAt
        <3> QED
            BY <2>1, <3>2, <3>3, <3>6 DEF OneTask, Running
    <2>6. \A x \in Logs : retried'[x] = 0 => OneTask(x)'
        BY <2>1, <2>4, <2>5
    <2>7. \A x \in Logs \ born' : NoTask(x)'
        BY <2>1, <2>4
    <2>8. \A s \in Requests :
              /\ request'[s].pc = "idle" => request'[s].op = "none" /\ request'[s].log = NoLog
              /\ request'[s].op = "retry" => retried'[request'[s].log] > 0
              /\ request'[s].pc = "publish" => request'[s].op \in {"webhook", "retry"}
        BY <2>1, <2>2 DEF HandlersKeep, AloneInv, IdleRequest
    <2> QED
        BY <2>1, <2>6, <2>7, <2>8 DEF AloneInv
<1>13. ASSUME NEW w \in Workers, NEW l \in Logs, NEW k \in 0..MaxRetries, Fetch(w, l, k)
       PROVE  AloneInv'
    <2>1. /\ worker'[w].log = l /\ worker'[w].pc = "mark" /\ worker[w].log = NoLog
          /\ \A v \in Workers : v # w => worker'[v] = worker[v]
          /\ request' = request /\ born' = born /\ retried' = retried /\ l \in born
        BY <1>13 DEF Fetch, IdleWorker, AloneInv, TypeOK
    <2>2. ASSUME NEW x \in Logs, x # l
          PROVE  /\ retried[x] = 0 => OneTask(x)'
                 /\ x \notin born => NoTask(x)'
        <3>1. queue'[x] = queue[x]
            BY <1>13, <2>2 DEF Fetch, Dequeue, TypeOK
        <3> QED
            BY <2>1, <2>2, <3>1, OneTaskFrame, NoTaskFrame DEF AloneInv, Running, Accepting
    <2>3. ASSUME retried[l] = 0 PROVE OneTask(l)'
        <3>1. OneTask(l) /\ queue[l][k] > 0
            BY <1>13, <2>3 DEF Fetch, Dequeue, AloneInv
        <3>2. /\ \A v \in Workers : ~Running(v, l)
              /\ \A s \in Requests : ~Accepting(s, l)
              /\ Queued(l)
            BY <3>1 DEF OneTask, Queued
        <3>3. \A j \in 0..MaxRetries : queue[l][j] = IF j = k THEN 1 ELSE 0
            <4>1. \A j \in 0..MaxRetries : queue[l][j] \in Nat /\ queue[l][j] <= 1
                BY <3>1, QueueNat DEF OneTask
            <4>2. \A j \in 0..MaxRetries : queue[l][j] > 0 => j = k
                BY <3>1 DEF OneTask
            <4> QED
                BY <3>1, <4>1, <4>2
        <3>4. \A j \in 0..MaxRetries : queue'[l][j] = 0
            BY <1>13, <3>3, DequeueAt DEF Fetch
        <3>5. ~Queued(l)'
            BY <3>4 DEF Queued
        <3>6. \A v \in Workers : Running(v, l)' => v = w
            BY <2>1, <3>2 DEF Running
        <3> QED
            BY <2>1, <3>2, <3>4, <3>5, <3>6 DEF OneTask, Accepting
    <2>4. \A x \in Logs : retried'[x] = 0 => OneTask(x)'
        BY <2>1, <2>2, <2>3
    <2>5. \A x \in Logs \ born' : NoTask(x)'
        BY <2>1, <2>2
    <2>6. \A v \in Workers : worker'[v].pc = "idle" => worker'[v].log = NoLog
        BY <2>1 DEF AloneInv
    <2> QED
        BY <2>1, <2>4, <2>5, <2>6 DEF AloneInv
<1>14. ASSUME NEW w \in Workers, NEW l \in Logs, NEW k \in 0..MaxRetries, Discard(w, l, k)
       PROVE  AloneInv'
    <2>1. /\ request' = request /\ worker' = worker /\ born' = born /\ retried' = retried
          /\ \A x \in Logs : x # l => queue'[x] = queue[x]
        BY <1>14 DEF Discard, Dequeue, TypeOK
    <2>2. \A j \in 0..MaxRetries : queue[l][j] \in Nat /\ queue'[l][j] <= queue[l][j]
        BY <1>14, DequeueAt, QueueNat DEF Discard
    <2>3. \A j \in 0..MaxRetries : queue'[l][j] \in Nat
        BY <1>14, DequeueAt, QueueNat DEF Discard
    <2>4. \A j \in 0..MaxRetries : queue'[l][j] > 0 => queue[l][j] > 0
        BY <2>2, <2>3
    <2>5. Queued(l)' => Queued(l)
        BY <2>4 DEF Queued
    <2>6. OneTask(l) => OneTask(l)'
        <3>1. ASSUME OneTask(l) PROVE \A j \in 0..MaxRetries : queue'[l][j] <= 1
            BY <2>2, <2>3, <3>1 DEF OneTask
        <3> QED
            BY <2>1, <2>4, <2>5, <3>1 DEF OneTask, Accepting, Running
    <2>7. NoTask(l) => NoTask(l)'
        BY <2>1, <2>5 DEF NoTask, Running
    <2>8. ASSUME NEW x \in Logs, x # l
          PROVE  /\ OneTask(x) => OneTask(x)'
                 /\ NoTask(x) => NoTask(x)'
        BY <2>1, <2>8, OneTaskFrame, NoTaskFrame DEF Running, Accepting
    <2> QED
        BY <2>1, <2>6, <2>7, <2>8 DEF AloneInv
<1>15. ASSUME NEW w \in Workers, Republish(w) PROVE AloneInv'
    <2>0. PICK l \in Logs, k \in 0..MaxRetries :
             l = worker[w].log /\ k = worker[w].retries + 1
        BY <1>15, BoundsAssumption DEF Republish, TypeOK, Worker
    <2>1. /\ l \in Logs /\ l \in born /\ k \in 0..MaxRetries
          /\ request' = request /\ born' = born /\ retried' = retried
        BY <1>15, <2>0 DEF Republish, TypeOK
    <2>2. /\ worker'[w] = IdleWorker
          /\ \A v \in Workers : v # w => worker'[v] = worker[v]
        BY <1>15 DEF Republish, Rest, TypeOK
    <2>3. \A x \in Logs, v \in Workers : Running(v, x)' => Running(v, x)
        BY <2>2, IdleTypes, NoLogAssumption DEF Running
    <2>4. ASSUME NEW x \in Logs, x # l
          PROVE  /\ retried[x] = 0 => OneTask(x)'
                 /\ x \notin born => NoTask(x)'
        <3>1. queue'[x] = queue[x]
            BY <1>15, <2>0, <2>4 DEF Republish, Enqueue, TypeOK
        <3> QED
            BY <2>1, <2>3, <3>1, OneTaskFrame, NoTaskFrame DEF AloneInv, Accepting
    <2>5. ASSUME retried[l] = 0 PROVE OneTask(l)'
        <3>1. Running(w, l) /\ OneTask(l)
            BY <2>0, <2>1, <2>5 DEF AloneInv, Running
        <3>2. ~Queued(l) /\ (\A s \in Requests : ~Accepting(s, l))
            BY <3>1 DEF OneTask
        <3>3. \A v \in Workers : ~Running(v, l)'
            <4>1. ~Running(w, l)'
                BY <2>1, <2>2, IdleTypes, NoLogAssumption DEF Running
            <4> QED
                BY <2>1, <2>3, <3>1, <4>1 DEF OneTask
        <3>4. \A j \in 0..MaxRetries : queue[l][j] = 0
            BY <3>2, NotQueued
        <3>5. \A j \in 0..MaxRetries : queue'[l][j] = IF j = k THEN 1 ELSE 0
            <4>1. Enqueue(l, k)
                BY <1>15, <2>0 DEF Republish
            <4> QED
                BY <3>4, <4>1, EnqueueAt
        <3> QED
            BY <2>1, <3>2, <3>3, <3>5 DEF OneTask, Accepting
    <2>6. \A x \in Logs : retried'[x] = 0 => OneTask(x)'
        BY <2>1, <2>4, <2>5
    <2>7. \A x \in Logs \ born' : NoTask(x)'
        BY <2>1, <2>4
    <2>8. \A v \in Workers : worker'[v].pc = "idle" => worker'[v].log = NoLog
        BY <2>2, IdleTypes DEF AloneInv
    <2> QED
        BY <2>1, <2>6, <2>7, <2>8 DEF AloneInv
<1>16. CASE UNCHANGED vars
    BY <1>0, <1>1, <1>16, AloneFrame DEF vars
<1> QED
    BY <1>4, <1>5, <1>6, <1>7, <1>8, <1>9, <1>10, <1>11, <1>12, <1>13, <1>14, <1>15, <1>16
       DEF Next, Arrive, Serve, Take, Work, Fault

\* An execution that nobody retries is never run by two workers at once.
THEOREM NoDuplicateRun == Spec => []AloneUnlessRetried
<1>1. AloneInv => AloneUnlessRetried
    BY DEF AloneInv, AloneUnlessRetried, OneTask, Running
<1> QED
    BY <1>1, TypeInit, TypeNext, AloneInit, AloneNext, PTL DEF Spec

=============================================================================
