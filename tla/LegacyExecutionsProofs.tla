----------------------- MODULE LegacyExecutionsProofs -----------------------
(***************************************************************************)
(* Proofs about LegacyExecutions: types, the bound on attempts, charges, and *)
(* that rows and jobs agree.  One inductive invariant, IInv, carries all.    *)
(***************************************************************************)
EXTENDS LegacyExecutions, TLAPS

-----------------------------------------------------------------------------
(* The inductive invariant. *)

Busy(s) == slot[s].pc # "idle"

\* A busy slot holds a job that is active, and no other slot holds it.
SlotsInv ==
    /\ \A s \in Slots : ~Busy(s) => slot[s].execution = NoExecution
    /\ \A s \in Slots : Busy(s) => job[slot[s].execution].state = "active"
    /\ \A s, t \in Slots :
          Busy(s) /\ Busy(t) /\ slot[s].execution = slot[t].execution => s = t
    /\ \A s \in Slots : slot[s].pc = "mark" => slot[s].done = 0
    /\ \A s \in Slots :
          slot[s].pc = "act" => slot[s].done < job[slot[s].execution].actions

\* A handler that is inserting an execution is the only one, and there is no job yet.
Inserting(r) == request[r].pc \in {"event", "insert", "enqueue", "copy"}
HandlersInv ==
    /\ \A e \in Executions : e \notin born => job[e].state = "none"
    /\ \A r \in Requests : Inserting(r) => job[request[r].execution].state = "none"
    /\ \A q, r \in Requests :
          Inserting(q) /\ Inserting(r) /\ request[q].execution = request[r].execution => q = r

\* Each run of executeWorkflow is paid for by an attempt, a stall, or the run that
\* the job is in; each straggler by a run that is past its actions.
Ongoing(e) == IF job[e].state \in {"active", "completed"} THEN 1 ELSE 0
BudgetInv ==
    /\ \A e \in Executions :
          /\ started[e] <= job[e].attempts + job[e].stalls + Ongoing(e)
          /\ job[e].state \in {"none", "waiting", "active", "completed"} => job[e].attempts < Attempts
          /\ job[e].state = "none" => started[e] = 0 /\ job[e].stalls = 0
          /\ stragglers[e] <= started[e]
    /\ \A s \in Slots : slot[s].pc \in {"mark", "act"} =>
          stragglers[slot[s].execution] < started[slot[s].execution]

\* A charge that no stall and no failed statement explains is the one of a job
\* that completed, is about to, or was left active.
Explained(e) == metered[e] <= job[e].stalls + trouble[e]
ChargeInv ==
    /\ \A e \in Executions :
          /\ metered[e] <= 1 + job[e].stalls + trouble[e]
          /\ job[e].state = "none" => metered[e] = 0
          /\ job[e].state \in {"waiting", "failed"} => Explained(e)
          /\ job[e].state = "completed" => metered[e] > 0
    /\ \A s \in Slots : Busy(s) =>
          IF slot[s].pc = "return" THEN metered[slot[s].execution] > 0
                                   ELSE Explained(slot[s].execution)

\* The row of a job whose result is written shows it, or a cancellation.
RecordInv ==
    /\ EndedJobIsRecorded
    /\ \A s \in Slots :
          slot[s].execution \in rows /\ trouble[slot[s].execution] = 0 =>
              /\ slot[s].pc \in {"meter", "return"}
                    => status[slot[s].execution] \in {"SUCCESS", "CANCELLED"}
              /\ slot[s].pc = "throw"
                    => status[slot[s].execution] \in {"FAILED", "CANCELLED"}

\* An execution whose job was neither taken back nor disturbed shows SUCCESS only
\* from RecordSuccess on, and its id is inserted once.
Undisturbed(e) == job[e].stalls = 0 /\ trouble[e] = 0
FinalInv ==
    /\ \A r \in Requests :
          request[r].pc \in {"event", "insert", "copy"} => request[r].execution \notin rows
    /\ \A e \in rows :
          job[e].state \in {"none", "waiting"} /\ Undisturbed(e) => status[e] # "SUCCESS"
    /\ \A s \in Slots :
          /\ slot[s].pc \in {"mark", "act", "succeed", "record", "throw"}
          /\ slot[s].execution \in rows
          /\ Undisturbed(slot[s].execution)
          => status[slot[s].execution] # "SUCCESS"

IInv ==
    /\ TypeOK
    /\ SlotsInv
    /\ HandlersInv
    /\ BudgetInv
    /\ ChargeInv
    /\ RecordInv
    /\ FinalInv
    /\ UnfinishedIsOwned

(***************************************************************************)
(* Type correctness.                                                        *)
(***************************************************************************)

LEMMA IdleTypes ==
    /\ IdleSlot \in Slot /\ IdleSlot.pc = "idle" /\ IdleSlot.execution = NoExecution
    /\ IdleRequest \in Request /\ IdleRequest.pc = "idle" /\ IdleRequest.execution = NoExecution
BY BoundsAssumption DEF IdleSlot, Slot, IdleRequest, Request

LEMMA CountType ==
    ASSUME NEW f \in [Executions -> Nat], NEW e \in Executions
    PROVE  /\ [f EXCEPT ![e] = @ + 1] \in [Executions -> Nat]
           /\ f[e] > 0 => [f EXCEPT ![e] = @ - 1] \in [Executions -> Nat]
OBVIOUS

\* What BullMQ does to a job gives a job.
LEMMA JobType ==
    ASSUME NEW j \in Job
    PROVE  /\ \A n \in 1..MaxActions : NewJob("waiting", n) \in Job
           /\ [j EXCEPT !.state = "active"] \in Job
           /\ [j EXCEPT !.state = "completed"] \in Job
           /\ j.attempts < Attempts => AfterFailure(j) \in Job
           /\ AfterStall(j) \in Job
<1>1. \A n \in 1..MaxActions : NewJob("waiting", n) \in Job
    BY BoundsAssumption DEF Job, NewJob
<1>2. [j EXCEPT !.state = "active"] \in Job /\ [j EXCEPT !.state = "completed"] \in Job
    BY DEF Job
<1>3. ASSUME j.attempts < Attempts PROVE AfterFailure(j) \in Job
    <2>1. j.attempts + 1 \in 0..Attempts
        BY <1>3, BoundsAssumption DEF Job
    <2>2. CASE j.attempts + 1 < Attempts
        BY <2>1, <2>2 DEF Job, AfterFailure
    <2>3. CASE ~(j.attempts + 1 < Attempts)
        BY <2>1, <2>3 DEF Job, AfterFailure
    <2> QED
        BY <2>2, <2>3
<1>4. AfterStall(j) \in Job
    <2>1. j.stalls + 1 \in Nat
        BY DEF Job
    <2>2. CASE j.stalls < MaxStalledCount
        BY <2>1, <2>2 DEF Job, AfterStall
    <2>3. CASE ~(j.stalls < MaxStalledCount)
        BY <2>1, <2>3 DEF Job, AfterStall
    <2> QED
        BY <2>2, <2>3
<1> QED
    BY <1>1, <1>2, <1>3, <1>4

LEMMA TypeInit == Init => TypeOK
<1> SUFFICES ASSUME Init PROVE TypeOK
    OBVIOUS
<1>1. NewJob("none", 1) \in Job /\ [state |-> "absent", actions |-> 1] \in WorkflowRow
    BY BoundsAssumption DEF NewJob, Job, WorkflowRow
<1>2. connected \in BOOLEAN
    BY DEF Init
<1> QED
    BY <1>1, <1>2, IdleTypes DEF Init, TypeOK, Status

\* Every step keeps the types.  An attempt is counted only for an active job, and an
\* action only while some are left: that is why IInv is needed.
LEMMA TypeStep ==
    ASSUME IInv, [Next]_vars
    PROVE  TypeOK'
<1>0. CASE UNCHANGED vars
    BY <1>0 DEF IInv, TypeOK, vars, tables, process, history
<1>1. ASSUME NEW w \in Workflows, NEW n \in 1..MaxActions, CreateWorkflow(w, n)
      PROVE  TypeOK'
    BY <1>1, IdleTypes, BoundsAssumption, WorkflowOfAssumption DEF CreateWorkflow,
       process, history, IInv, TypeOK, WorkflowRow, Job, Slot, Request, Status
<1>2. ASSUME NEW w \in Workflows, NEW n \in 1..MaxActions, UpdateWorkflow(w, n)
      PROVE  TypeOK'
    BY <1>2, IdleTypes, BoundsAssumption, WorkflowOfAssumption DEF UpdateWorkflow,
       process, history, InTable, IInv, TypeOK, WorkflowRow, Job, Slot, Request, Status
<1>3. ASSUME NEW w \in Workflows, NEW state \in {"enabled", "disabled"}, ToggleWorkflow(w, state)
      PROVE  TypeOK'
    BY <1>3, IdleTypes, BoundsAssumption, WorkflowOfAssumption DEF ToggleWorkflow,
       process, history, InTable, IInv, TypeOK, WorkflowRow, Job, Slot, Request, Status
<1>4. ASSUME NEW w \in Workflows, DeleteWorkflow(w) PROVE TypeOK'
    BY <1>4, IdleTypes, BoundsAssumption, WorkflowOfAssumption DEF DeleteWorkflow,
       process, history, InTable, IInv, TypeOK, WorkflowRow, Job, Slot, Request, Status
<1>5. ASSUME NEW r \in Requests, NEW e \in Executions, StartWebhook(r, e) PROVE TypeOK'
    BY <1>5, IdleTypes, BoundsAssumption, WorkflowOfAssumption DEF StartWebhook, Handle,
       process, history, IInv, TypeOK, WorkflowRow, Job, Slot, Request, Status
<1>6. ASSUME NEW r \in Requests, InsertEvent(r) PROVE TypeOK'
    BY <1>6, IdleTypes, BoundsAssumption, WorkflowOfAssumption DEF InsertEvent, Goto,
       process, history, InTable, IInv, TypeOK, WorkflowRow, Job, Slot, Request, Status
<1>7. ASSUME NEW r \in Requests, InsertExecution(r) PROVE TypeOK'
    <2>1. request[r].execution \in Executions /\ request[r].execution \in born
        BY <1>7 DEF InsertExecution, IInv, TypeOK
    <2>2. status' \in [Executions -> Status] /\ rows' \subseteq born
        BY <1>7, <2>1 DEF InsertExecution, IInv, TypeOK, Status
    <2>3. request' \in [Requests -> Request]
        BY <1>7 DEF InsertExecution, Goto, IInv, TypeOK, Request
    <2>4. \A q \in Requests : request'[q].pc # "idle" => request'[q].execution \in born
        BY <1>7, <2>1 DEF InsertExecution, Goto, IInv, TypeOK
    <2> QED
        BY <1>7, <2>2, <2>3, <2>4 DEF InsertExecution, process, history, IInv, TypeOK
<1>8. ASSUME NEW r \in Requests, Enqueue(r) PROVE TypeOK'
    BY <1>8, IdleTypes, BoundsAssumption, WorkflowOfAssumption DEF Enqueue, Reply,
       IdleRequest, NewJob, tables, process, history, IInv, TypeOK, WorkflowRow, Job,
       Slot, Request, Status
<1>9. ASSUME NEW r \in Requests, NEW original \in Executions, NEW e \in Executions, StartRetry(r, original, e)
      PROVE  TypeOK'
    BY <1>9, IdleTypes, BoundsAssumption, WorkflowOfAssumption DEF StartRetry, Handle,
       process, history, IInv, TypeOK, WorkflowRow, Job, Slot, Request, Status
<1>10. ASSUME NEW r \in Requests, InsertCopy(r) PROVE TypeOK'
    BY <1>10, IdleTypes, BoundsAssumption, WorkflowOfAssumption DEF InsertCopy, Reply,
       IdleRequest, process, InTable, IInv, TypeOK, WorkflowRow, Job, Slot, Request,
       Status
<1>11. ASSUME NEW r \in Requests, NEW e \in Executions, StartCancel(r, e) PROVE TypeOK'
    BY <1>11, IdleTypes, BoundsAssumption, WorkflowOfAssumption DEF StartCancel, Handle,
       tables, process, history, Cancellable, IInv, TypeOK, WorkflowRow, Job, Slot,
       Request, Status
<1>12. ASSUME NEW r \in Requests, CommitCancel(r) PROVE TypeOK'
    BY <1>12, IdleTypes, BoundsAssumption, WorkflowOfAssumption DEF CommitCancel, Reply,
       IdleRequest, process, history, IInv, TypeOK, WorkflowRow, Job, Slot, Request,
       Status
<1>13. ASSUME NEW r \in Requests, AbortRequest(r) PROVE TypeOK'
    BY <1>13, IdleTypes, BoundsAssumption, WorkflowOfAssumption DEF AbortRequest, Reply,
       IdleRequest, tables, process, history, InTable, IInv, TypeOK, WorkflowRow, Job,
       Slot, Request, Status
<1>14. ASSUME NEW s \in Slots, NEW e \in Executions, Begin(s, e) PROVE TypeOK'
    <2>1. job' \in [Executions -> Job]
        BY <1>14, JobType DEF Begin, IInv, TypeOK
    <2>2. started' \in [Executions -> Nat]
        BY <1>14, CountType DEF Begin, IInv, TypeOK
    <2>3. slot' \in [Slots -> Slot]
        BY <1>14, BoundsAssumption DEF Begin, IInv, TypeOK, Slot
    <2>4. \A t \in Slots : slot'[t].pc # "idle" => slot'[t].execution \in Executions
        BY <1>14 DEF Begin, IInv, TypeOK
    <2>5. UNCHANGED <<tables, stragglers, connected, request, copied, trouble, disruptions>>
        BY <1>14 DEF Begin
    <2> QED
        BY <2>1, <2>2, <2>3, <2>4, <2>5 DEF tables, IInv, TypeOK
<1>15. ASSUME NEW s \in Slots, MarkRunning(s) PROVE TypeOK'
    BY <1>15, IdleTypes, BoundsAssumption, WorkflowOfAssumption DEF MarkRunning,
       Continue, Update, history, IInv, TypeOK, WorkflowRow, Job, Slot, Request, Status
<1>16. ASSUME NEW s \in Slots, FinishAction(s) PROVE TypeOK'
    <2> DEFINE done == slot[s].done + 1
    <2>1. slot[s].execution \in Executions /\ slot[s].done < job[slot[s].execution].actions
        BY <1>16 DEF FinishAction, IInv, TypeOK, SlotsInv
    <2>2. job[slot[s].execution] \in Job /\ slot[s] \in Slot
        BY <2>1 DEF IInv, TypeOK
    <2>3. done \in 0..MaxActions
        BY <2>1, <2>2, BoundsAssumption DEF Job, Slot
    <2>4. slot' \in [Slots -> Slot]
        <3>1. \A pc \in {"act", "succeed"} :
                 [slot[s] EXCEPT !.pc = pc, !.done = done] \in Slot
            BY <2>2, <2>3 DEF Slot
        <3>2. \E pc \in {"act", "succeed"} :
                 slot' = [slot EXCEPT ![s] = [slot[s] EXCEPT !.pc = pc, !.done = done]]
            BY <1>16 DEF FinishAction
        <3> QED
            BY <3>1, <3>2 DEF IInv, TypeOK
    <2>5. \A t \in Slots : slot'[t].pc # "idle" => slot'[t].execution \in Executions
        BY <1>16, <2>1 DEF FinishAction, IInv, TypeOK
    <2>6. UNCHANGED <<tables, job, stragglers, connected, request, history>>
        BY <1>16 DEF FinishAction
    <2> QED
        BY <2>4, <2>5, <2>6 DEF tables, history, IInv, TypeOK
<1>17. ASSUME NEW s \in Slots, FailAction(s) PROVE TypeOK'
    BY <1>17, IdleTypes, BoundsAssumption, WorkflowOfAssumption DEF FailAction,
       Continue, tables, history, IInv, TypeOK, WorkflowRow, Job, Slot, Request, Status
<1>18. ASSUME NEW s \in Slots, TimeOutAction(s) PROVE TypeOK'
    <2>1. slot[s].execution \in Executions
        BY <1>18 DEF TimeOutAction, IInv, TypeOK
    <2>2. stragglers' \in [Executions -> Nat]
        BY <1>18, <2>1, CountType DEF TimeOutAction, IInv, TypeOK
    <2> QED
        BY <1>18, <2>2 DEF TimeOutAction, Continue, tables, history, IInv, TypeOK, Slot
<1>19. ASSUME NEW e \in Executions, EndStraggler(e) PROVE TypeOK'
    <2>1. stragglers' \in [Executions -> Nat]
        BY <1>19, CountType DEF EndStraggler, IInv, TypeOK
    <2> QED
        BY <1>19, <2>1 DEF EndStraggler, tables, history, IInv, TypeOK
<1>20. ASSUME NEW s \in Slots, RecordSuccess(s) PROVE TypeOK'
    BY <1>20, IdleTypes, BoundsAssumption, WorkflowOfAssumption DEF RecordSuccess,
       Continue, Update, history, IInv, TypeOK, WorkflowRow, Job, Slot, Request, Status
<1>21. ASSUME NEW s \in Slots, Meter(s) PROVE TypeOK'
    <2>1. slot[s].execution \in Executions
        BY <1>21 DEF Meter, IInv, TypeOK
    <2>2. metered' \in [Executions -> Nat]
        BY <1>21, <2>1, CountType DEF Meter, Increment, IInv, TypeOK
    <2> QED
        BY <1>21, <2>2 DEF Meter, Increment, Continue, tables, history, IInv, TypeOK, Slot
<1>22. ASSUME NEW s \in Slots, RecordFailure(s) PROVE TypeOK'
    BY <1>22, IdleTypes, BoundsAssumption, WorkflowOfAssumption DEF RecordFailure,
       Continue, Update, history, IInv, TypeOK, WorkflowRow, Job, Slot, Request, Status
<1>23. ASSUME NEW s \in Slots, RowIsGone(s) PROVE TypeOK'
    BY <1>23, IdleTypes, BoundsAssumption, WorkflowOfAssumption DEF RowIsGone, Catch,
       Continue, tables, history, IInv, TypeOK, WorkflowRow, Job, Slot, Request, Status
<1>24. ASSUME NEW s \in Slots, Complete(s) PROVE TypeOK'
    <2>1. /\ slot[s].execution \in Executions
          /\ job[slot[s].execution] \in Job
          /\ job[slot[s].execution].attempts < Attempts
        BY <1>24 DEF Complete, IInv, TypeOK, SlotsInv, BudgetInv, Busy
    <2>2. job' \in [Executions -> Job]
        BY <1>24, <2>1, JobType DEF Complete, IInv, TypeOK
    <2>3. slot' \in [Slots -> Slot]
        BY <1>24, IdleTypes DEF Complete, Leave, IInv, TypeOK
    <2>4. \A t \in Slots : slot'[t].pc # "idle" => slot'[t].execution \in Executions
        BY <1>24, IdleTypes DEF Complete, Leave, IInv, TypeOK
    <2>5. UNCHANGED <<tables, stragglers, connected, request, history>>
        BY <1>24 DEF Complete
    <2> QED
        BY <2>2, <2>3, <2>4, <2>5 DEF tables, history, IInv, TypeOK
<1>25. ASSUME NEW s \in Slots, Fail(s) PROVE TypeOK'
    <2>1. /\ slot[s].execution \in Executions
          /\ job[slot[s].execution] \in Job
          /\ job[slot[s].execution].attempts < Attempts
        BY <1>25 DEF Fail, IInv, TypeOK, SlotsInv, BudgetInv, Busy
    <2>2. job' \in [Executions -> Job]
        BY <1>25, <2>1, JobType DEF Fail, IInv, TypeOK
    <2>3. slot' \in [Slots -> Slot]
        BY <1>25, IdleTypes DEF Fail, Leave, IInv, TypeOK
    <2>4. \A t \in Slots : slot'[t].pc # "idle" => slot'[t].execution \in Executions
        BY <1>25, IdleTypes DEF Fail, Leave, IInv, TypeOK
    <2>5. UNCHANGED <<tables, stragglers, connected, request, history>>
        BY <1>25 DEF Fail
    <2> QED
        BY <2>2, <2>3, <2>4, <2>5 DEF tables, history, IInv, TypeOK
<1>26. ASSUME NEW s \in Slots, LeaveActive(s) PROVE TypeOK'
    BY <1>26, IdleTypes, BoundsAssumption, WorkflowOfAssumption DEF LeaveActive, Leave,
       IdleSlot, tables, history, IInv, TypeOK, WorkflowRow, Job, Slot, Request, Status
<1>27. ASSUME NEW e \in Executions, Stall(e) PROVE TypeOK'
    <2>1. job' \in [Executions -> Job]
        BY <1>27, JobType DEF Stall, IInv, TypeOK
    <2>2. UNCHANGED <<tables, process, request, history>>
        BY <1>27 DEF Stall
    <2> QED
        BY <2>1, <2>2 DEF tables, process, history, IInv, TypeOK
<1>28. CASE Restart
    BY <1>28, IdleTypes, BoundsAssumption, WorkflowOfAssumption DEF Restart, tables,
       history, IInv, TypeOK, WorkflowRow, Job, Slot, Request, Status
<1>29. CASE Terminate
    <2>1. connected' \in BOOLEAN
        BY <1>29 DEF Terminate
    <2>2. disruptions' \in Nat
        BY <1>29 DEF Terminate, Disrupt, IInv, TypeOK
    <2>3. UNCHANGED <<tables, job, slot, stragglers, request, started, copied, trouble>>
        BY <1>29 DEF Terminate
    <2> QED
        BY <2>1, <2>2, <2>3 DEF tables, IInv, TypeOK
<1>30. CASE CrashWorker
    BY <1>30, IdleTypes, BoundsAssumption, WorkflowOfAssumption DEF CrashWorker,
       Disrupt, IdleSlot, tables, IInv, TypeOK, WorkflowRow, Job, Slot, Request, Status
<1>31. ASSUME NEW s \in Slots, FailStatement(s) PROVE TypeOK'
    <2>1. slot[s].execution \in Executions
        BY <1>31 DEF FailStatement, IInv, TypeOK
    <2>2. trouble' \in [Executions -> Nat] /\ disruptions' \in Nat
        BY <1>31, <2>1, CountType DEF FailStatement, Disrupt, IInv, TypeOK
    <2>3. metered' \in [Executions -> Nat]
        BY <1>31, <2>1, CountType DEF FailStatement, Update, Increment, tables, IInv, TypeOK
    <2>4. status' \in [Executions -> Status] /\ UNCHANGED <<workflow, born, rows, events>>
        BY <1>31 DEF FailStatement, Update, Increment, tables, IInv, TypeOK, Status
    <2>5. slot' \in [Slots -> Slot]
        BY <1>31 DEF FailStatement, Catch, Continue, IInv, TypeOK, Slot
    <2>6. \A t \in Slots : slot'[t].pc # "idle" => slot'[t].execution \in Executions
        BY <1>31, <2>1 DEF FailStatement, Catch, Continue, IInv, TypeOK
    <2>7. UNCHANGED <<job, stragglers, connected, request, started, copied>>
        BY <1>31 DEF FailStatement
    <2> QED
        BY <2>2, <2>3, <2>4, <2>5, <2>6, <2>7 DEF IInv, TypeOK
<1>32. ASSUME NEW r \in Requests, CrashRequest(r) PROVE TypeOK'
    BY <1>32, IdleTypes, BoundsAssumption, WorkflowOfAssumption DEF CrashRequest, Reply,
       IdleRequest, Disrupt, tables, process, IInv, TypeOK, WorkflowRow, Job, Slot,
       Request, Status
<1> QED
    BY <1>0, <1>1, <1>2, <1>3, <1>4, <1>5, <1>6, <1>7, <1>8, <1>9, <1>10, <1>11, <1>12,
       <1>13, <1>14, <1>15, <1>16, <1>17, <1>18, <1>19, <1>20, <1>21, <1>22, <1>23,
       <1>24, <1>25, <1>26, <1>27, <1>28, <1>29, <1>30, <1>31, <1>32 DEF Next,
       Administer, Arrive, Serve, Work, Disruption

(***************************************************************************)
(* Slots hold active jobs, each in one slot.                                *)
(***************************************************************************)

\* What BullMQ changes in a job.
LEMMA JobFields ==
    ASSUME NEW j \in Job
    PROVE  /\ AfterFailure(j).attempts = j.attempts + 1
           /\ AfterFailure(j).stalls = j.stalls
           /\ AfterFailure(j).actions = j.actions
           /\ AfterFailure(j).state =
                 IF j.attempts + 1 < Attempts THEN "waiting" ELSE "failed"
           /\ AfterStall(j).attempts = j.attempts
           /\ AfterStall(j).stalls = j.stalls + 1
           /\ AfterStall(j).actions = j.actions
           /\ AfterStall(j).state =
                 IF j.stalls < MaxStalledCount THEN "waiting" ELSE "failed"
BY DEF Job, AfterFailure, AfterStall

LEMMA BusySlot ==
    ASSUME IInv, NEW s \in Slots, Busy(s)
    PROVE  /\ slot[s].execution \in Executions
           /\ job[slot[s].execution] \in Job
           /\ slot[s] \in Slot
           /\ job[slot[s].execution].state = "active"
           /\ job[slot[s].execution].attempts < Attempts
BY DEF IInv, TypeOK, SlotsInv, BudgetInv, Busy

LEMMA SlotsFrame ==
    ASSUME SlotsInv, UNCHANGED <<slot, job>>
    PROVE  SlotsInv'
BY DEF SlotsInv, Busy

LEMMA SlotsStep ==
    ASSUME IInv, [Next]_vars
    PROVE  SlotsInv'
<1>0. CASE UNCHANGED vars
    BY <1>0, SlotsFrame DEF IInv, vars, tables, process, history
<1>1. ASSUME NEW w \in Workflows, NEW n \in 1..MaxActions, CreateWorkflow(w, n)
      PROVE  SlotsInv'
    BY <1>1, SlotsFrame DEF IInv, CreateWorkflow, process, history
<1>2. ASSUME NEW w \in Workflows, NEW n \in 1..MaxActions, UpdateWorkflow(w, n)
      PROVE  SlotsInv'
    BY <1>2, SlotsFrame DEF IInv, UpdateWorkflow, process, history, InTable
<1>3. ASSUME NEW w \in Workflows, NEW state \in {"enabled", "disabled"}, ToggleWorkflow(w, state)
      PROVE  SlotsInv'
    BY <1>3, SlotsFrame DEF IInv, ToggleWorkflow, process, history, InTable
<1>4. ASSUME NEW w \in Workflows, DeleteWorkflow(w) PROVE SlotsInv'
    BY <1>4, SlotsFrame DEF IInv, DeleteWorkflow, process, history, InTable
<1>5. ASSUME NEW r \in Requests, NEW e \in Executions, StartWebhook(r, e) PROVE SlotsInv'
    BY <1>5, SlotsFrame DEF IInv, StartWebhook, Handle, process, history
<1>6. ASSUME NEW r \in Requests, InsertEvent(r) PROVE SlotsInv'
    BY <1>6, SlotsFrame DEF IInv, InsertEvent, Goto, process, history, InTable
<1>7. ASSUME NEW r \in Requests, InsertExecution(r) PROVE SlotsInv'
    BY <1>7, SlotsFrame DEF IInv, InsertExecution, Goto, process, history, InTable
<1>8. ASSUME NEW r \in Requests, Enqueue(r) PROVE SlotsInv'
    BY <1>8, JobType DEF Enqueue, Reply, IdleRequest, NewJob, tables, process, history,
       IInv, TypeOK, SlotsInv, Slot, Busy, HandlersInv, Inserting
<1>9. ASSUME NEW r \in Requests, NEW original \in Executions, NEW e \in Executions, StartRetry(r, original, e)
      PROVE  SlotsInv'
    BY <1>9, SlotsFrame DEF IInv, StartRetry, Handle, process, history
<1>10. ASSUME NEW r \in Requests, InsertCopy(r) PROVE SlotsInv'
    BY <1>10, SlotsFrame DEF IInv, InsertCopy, Reply, IdleRequest, process, InTable
<1>11. ASSUME NEW r \in Requests, NEW e \in Executions, StartCancel(r, e) PROVE SlotsInv'
    BY <1>11, SlotsFrame DEF IInv, StartCancel, Handle, tables, process, history, Cancellable
<1>12. ASSUME NEW r \in Requests, CommitCancel(r) PROVE SlotsInv'
    BY <1>12, SlotsFrame DEF IInv, CommitCancel, Reply, IdleRequest, process, history
<1>13. ASSUME NEW r \in Requests, AbortRequest(r) PROVE SlotsInv'
    BY <1>13, SlotsFrame DEF IInv, AbortRequest, Reply, IdleRequest, tables, process, history,
       InTable
<1>14. ASSUME NEW s \in Slots, NEW e \in Executions, Begin(s, e) PROVE SlotsInv'
    BY <1>14 DEF Begin, tables, IInv, TypeOK, SlotsInv, Slot, Busy
<1>15. ASSUME NEW s \in Slots, MarkRunning(s) PROVE SlotsInv'
    <2>1. slot[s].done = 0 /\ 0 < job[slot[s].execution].actions
        BY <1>15, BusySlot DEF MarkRunning, IInv, SlotsInv, Busy, Job
    <2>2. slot' = [slot EXCEPT ![s].pc = "act"] /\ UNCHANGED job
        BY <1>15 DEF MarkRunning, Continue
    <2> QED
        BY <1>15, <2>1, <2>2 DEF MarkRunning, IInv, TypeOK, SlotsInv, Slot, Busy
<1>16. ASSUME NEW s \in Slots, FinishAction(s) PROVE SlotsInv'
    <2>1. /\ slot[s].done \in Nat
          /\ job[slot[s].execution].actions \in Nat
          /\ slot[s].done < job[slot[s].execution].actions
        BY <1>16, BusySlot DEF FinishAction, IInv, SlotsInv, Busy, Job, Slot
    <2>2. slot'[s].execution = slot[s].execution
        BY <1>16 DEF FinishAction, IInv, TypeOK, Slot
    <2>3. slot'[s].done = slot[s].done + 1
        BY <1>16 DEF FinishAction, IInv, TypeOK, Slot
    <2>4. /\ slot'[s].pc \in {"act", "succeed"}
          /\ slot'[s].pc = "act" => slot[s].done + 1 # job[slot[s].execution].actions
        BY <1>16 DEF FinishAction, IInv, TypeOK, Slot
    <2>5. slot'[s].pc = "act" => slot'[s].done < job[slot[s].execution].actions
        BY <2>1, <2>3, <2>4
    <2>6. (\A t \in Slots \ {s} : slot'[t] = slot[t]) /\ UNCHANGED job
        BY <1>16 DEF FinishAction, IInv, TypeOK
    <2> QED
        BY <1>16, <2>2, <2>4, <2>5, <2>6 DEF FinishAction, IInv, SlotsInv, Busy
<1>17. ASSUME NEW s \in Slots, FailAction(s) PROVE SlotsInv'
    BY <1>17 DEF FailAction, Continue, tables, history, IInv, TypeOK, SlotsInv, Slot,
       Busy
<1>18. ASSUME NEW s \in Slots, TimeOutAction(s) PROVE SlotsInv'
    BY <1>18 DEF TimeOutAction, Continue, tables, history, IInv, TypeOK, SlotsInv, Slot,
       Busy
<1>19. ASSUME NEW e \in Executions, EndStraggler(e) PROVE SlotsInv'
    BY <1>19, SlotsFrame DEF IInv, EndStraggler, tables, history
<1>20. ASSUME NEW s \in Slots, RecordSuccess(s) PROVE SlotsInv'
    BY <1>20 DEF RecordSuccess, Continue, Update, history, IInv, TypeOK, SlotsInv, Slot,
       Busy
<1>21. ASSUME NEW s \in Slots, Meter(s) PROVE SlotsInv'
    BY <1>21 DEF Meter, Continue, Increment, history, IInv, TypeOK, SlotsInv, Slot, Busy
<1>22. ASSUME NEW s \in Slots, RecordFailure(s) PROVE SlotsInv'
    BY <1>22 DEF RecordFailure, Continue, Update, history, IInv, TypeOK, SlotsInv, Slot,
       Busy
<1>23. ASSUME NEW s \in Slots, RowIsGone(s) PROVE SlotsInv'
    BY <1>23 DEF RowIsGone, Catch, Continue, tables, history, IInv, TypeOK, SlotsInv,
       Slot, Busy
<1>24. ASSUME NEW s \in Slots, Complete(s) PROVE SlotsInv'
    BY <1>24, BusySlot, IdleTypes DEF Complete, Leave, IdleSlot, tables, history, IInv,
       TypeOK, SlotsInv, Slot, Busy
<1>25. ASSUME NEW s \in Slots, Fail(s) PROVE SlotsInv'
    BY <1>25, BusySlot, IdleTypes, JobFields DEF Fail, Leave, IdleSlot, AfterFailure,
       tables, history, IInv, TypeOK, SlotsInv, Slot, Busy
<1>26. ASSUME NEW s \in Slots, LeaveActive(s) PROVE SlotsInv'
    BY <1>26, BusySlot, IdleTypes DEF LeaveActive, Leave, IdleSlot, tables, history,
       IInv, TypeOK, SlotsInv, Slot, Busy
<1>27. ASSUME NEW e \in Executions, Stall(e) PROVE SlotsInv'
    BY <1>27, JobFields DEF Stall, AfterStall, Orphaned, tables, process, history, IInv,
       TypeOK, SlotsInv, Slot, Busy
<1>28. CASE Restart
    BY <1>28, SlotsFrame DEF IInv, Restart, tables, history
<1>29. CASE Terminate
    BY <1>29, SlotsFrame DEF IInv, Terminate, Disrupt, tables
<1>30. CASE CrashWorker
    BY <1>30, IdleTypes DEF CrashWorker, Disrupt, IdleSlot, tables, IInv, TypeOK,
       SlotsInv, Slot, Busy
<1>31. ASSUME NEW s \in Slots, FailStatement(s) PROVE SlotsInv'
    BY <1>31 DEF FailStatement, Update, Increment, Catch, Continue, Disrupt, tables,
       IInv, TypeOK, SlotsInv, Slot, Busy
<1>32. ASSUME NEW r \in Requests, CrashRequest(r) PROVE SlotsInv'
    BY <1>32, SlotsFrame DEF IInv, CrashRequest, Reply, IdleRequest, Disrupt, tables, process
<1> QED
    BY <1>0, <1>1, <1>2, <1>3, <1>4, <1>5, <1>6, <1>7, <1>8, <1>9, <1>10, <1>11, <1>12,
       <1>13, <1>14, <1>15, <1>16, <1>17, <1>18, <1>19, <1>20, <1>21, <1>22, <1>23,
       <1>24, <1>25, <1>26, <1>27, <1>28, <1>29, <1>30, <1>31, <1>32 DEF Next,
       Administer, Arrive, Serve, Work, Disruption

(***************************************************************************)
(* Handlers that insert are alone, and before the job.                      *)
(***************************************************************************)

LEMMA HandlersInvFrame ==
    ASSUME HandlersInv, UNCHANGED <<born, job, request>>
    PROVE  HandlersInv'
BY DEF HandlersInv, Inserting

LEMMA HandlersStep ==
    ASSUME IInv, [Next]_vars
    PROVE  HandlersInv'
<1>0. CASE UNCHANGED vars
    BY <1>0, HandlersInvFrame DEF IInv, vars, tables, process, history
<1>1. ASSUME NEW w \in Workflows, NEW n \in 1..MaxActions, CreateWorkflow(w, n)
      PROVE  HandlersInv'
    BY <1>1, HandlersInvFrame DEF IInv, CreateWorkflow, process, history
<1>2. ASSUME NEW w \in Workflows, NEW n \in 1..MaxActions, UpdateWorkflow(w, n)
      PROVE  HandlersInv'
    BY <1>2, HandlersInvFrame DEF IInv, UpdateWorkflow, process, history, InTable
<1>3. ASSUME NEW w \in Workflows, NEW state \in {"enabled", "disabled"}, ToggleWorkflow(w, state)
      PROVE  HandlersInv'
    BY <1>3, HandlersInvFrame DEF IInv, ToggleWorkflow, process, history, InTable
<1>4. ASSUME NEW w \in Workflows, DeleteWorkflow(w) PROVE HandlersInv'
    BY <1>4, HandlersInvFrame DEF IInv, DeleteWorkflow, process, history, InTable
<1>5. ASSUME NEW r \in Requests, NEW e \in Executions, StartWebhook(r, e)
      PROVE  HandlersInv'
    BY <1>5, IdleTypes DEF StartWebhook, Handle, process, history, IInv, TypeOK,
       HandlersInv, Inserting
<1>6. ASSUME NEW r \in Requests, InsertEvent(r) PROVE HandlersInv'
    BY <1>6, IdleTypes DEF InsertEvent, Goto, process, history, InTable, IInv, TypeOK,
       HandlersInv, Inserting
<1>7. ASSUME NEW r \in Requests, InsertExecution(r) PROVE HandlersInv'
    BY <1>7, IdleTypes DEF InsertExecution, Goto, process, history, InTable, IInv,
       TypeOK, HandlersInv, Inserting
<1>8. ASSUME NEW r \in Requests, Enqueue(r) PROVE HandlersInv'
    BY <1>8, IdleTypes DEF Enqueue, Reply, IdleRequest, NewJob, tables, process,
       history, IInv, TypeOK, HandlersInv, Inserting
<1>9. ASSUME NEW r \in Requests, NEW original \in Executions, NEW e \in Executions, StartRetry(r, original, e)
      PROVE  HandlersInv'
    BY <1>9, IdleTypes DEF StartRetry, Handle, process, history, IInv, TypeOK,
       HandlersInv, Inserting
<1>10. ASSUME NEW r \in Requests, InsertCopy(r) PROVE HandlersInv'
    BY <1>10, IdleTypes DEF InsertCopy, Reply, IdleRequest, process, InTable, IInv,
       TypeOK, HandlersInv, Inserting
<1>11. ASSUME NEW r \in Requests, NEW e \in Executions, StartCancel(r, e)
      PROVE  HandlersInv'
    BY <1>11, IdleTypes DEF StartCancel, Handle, tables, process, history, Cancellable,
       IInv, TypeOK, HandlersInv, Inserting
<1>12. ASSUME NEW r \in Requests, CommitCancel(r) PROVE HandlersInv'
    BY <1>12, IdleTypes DEF CommitCancel, Reply, IdleRequest, process, history, IInv,
       TypeOK, HandlersInv, Inserting
<1>13. ASSUME NEW r \in Requests, AbortRequest(r) PROVE HandlersInv'
    BY <1>13, IdleTypes DEF AbortRequest, Reply, IdleRequest, tables, process, history,
       InTable, IInv, TypeOK, HandlersInv, Inserting
<1>14. ASSUME NEW s \in Slots, NEW e \in Executions, Begin(s, e) PROVE HandlersInv'
    BY <1>14, IdleTypes DEF Begin, tables, IInv, TypeOK, HandlersInv, Inserting
<1>15. ASSUME NEW s \in Slots, MarkRunning(s) PROVE HandlersInv'
    BY <1>15, HandlersInvFrame DEF IInv, MarkRunning, Continue, Update, history
<1>16. ASSUME NEW s \in Slots, FinishAction(s) PROVE HandlersInv'
    BY <1>16, HandlersInvFrame DEF IInv, FinishAction, tables, history
<1>17. ASSUME NEW s \in Slots, FailAction(s) PROVE HandlersInv'
    BY <1>17, HandlersInvFrame DEF IInv, FailAction, Continue, tables, history
<1>18. ASSUME NEW s \in Slots, TimeOutAction(s) PROVE HandlersInv'
    BY <1>18, HandlersInvFrame DEF IInv, TimeOutAction, Continue, tables, history
<1>19. ASSUME NEW e \in Executions, EndStraggler(e) PROVE HandlersInv'
    BY <1>19, HandlersInvFrame DEF IInv, EndStraggler, tables, history
<1>20. ASSUME NEW s \in Slots, RecordSuccess(s) PROVE HandlersInv'
    BY <1>20, HandlersInvFrame DEF IInv, RecordSuccess, Continue, Update, history
<1>21. ASSUME NEW s \in Slots, Meter(s) PROVE HandlersInv'
    BY <1>21, HandlersInvFrame DEF IInv, Meter, Continue, Increment, history
<1>22. ASSUME NEW s \in Slots, RecordFailure(s) PROVE HandlersInv'
    BY <1>22, HandlersInvFrame DEF IInv, RecordFailure, Continue, Update, history
<1>23. ASSUME NEW s \in Slots, RowIsGone(s) PROVE HandlersInv'
    BY <1>23, HandlersInvFrame DEF IInv, RowIsGone, Catch, Continue, tables, history
<1>24. ASSUME NEW s \in Slots, Complete(s) PROVE HandlersInv'
    BY <1>24, IdleTypes, BusySlot DEF Complete, Leave, IdleSlot, tables, history, IInv,
       TypeOK, HandlersInv, Inserting, Busy
<1>25. ASSUME NEW s \in Slots, Fail(s) PROVE HandlersInv'
    BY <1>25, IdleTypes, BusySlot, JobFields DEF Fail, Leave, IdleSlot, AfterFailure,
       tables, history, IInv, TypeOK, HandlersInv, Inserting, Busy
<1>26. ASSUME NEW s \in Slots, LeaveActive(s) PROVE HandlersInv'
    BY <1>26, HandlersInvFrame DEF IInv, LeaveActive, Leave, IdleSlot, tables, history
<1>27. ASSUME NEW e \in Executions, Stall(e) PROVE HandlersInv'
    BY <1>27, IdleTypes, JobFields DEF Stall, AfterStall, Orphaned, tables, process,
       history, IInv, TypeOK, HandlersInv, Inserting
<1>28. CASE Restart
    BY <1>28, HandlersInvFrame DEF IInv, Restart, tables, history
<1>29. CASE Terminate
    BY <1>29, HandlersInvFrame DEF IInv, Terminate, Disrupt, tables
<1>30. CASE CrashWorker
    BY <1>30, HandlersInvFrame DEF IInv, CrashWorker, Disrupt, IdleSlot, tables
<1>31. ASSUME NEW s \in Slots, FailStatement(s) PROVE HandlersInv'
    BY <1>31, HandlersInvFrame DEF IInv, FailStatement, Update, Increment, Catch, Continue,
       Disrupt, tables
<1>32. ASSUME NEW r \in Requests, CrashRequest(r) PROVE HandlersInv'
    BY <1>32, IdleTypes DEF CrashRequest, Reply, IdleRequest, Disrupt, tables, process,
       IInv, TypeOK, HandlersInv, Inserting
<1> QED
    BY <1>0, <1>1, <1>2, <1>3, <1>4, <1>5, <1>6, <1>7, <1>8, <1>9, <1>10, <1>11, <1>12,
       <1>13, <1>14, <1>15, <1>16, <1>17, <1>18, <1>19, <1>20, <1>21, <1>22, <1>23,
       <1>24, <1>25, <1>26, <1>27, <1>28, <1>29, <1>30, <1>31, <1>32 DEF Next,
       Administer, Arrive, Serve, Work, Disruption

(***************************************************************************)
(* Attempts and stalls pay for the runs.                                    *)
(***************************************************************************)

LEMMA BudgetInvFrame ==
    ASSUME BudgetInv, UNCHANGED <<job, slot, started, stragglers>>
    PROVE  BudgetInv'
BY DEF BudgetInv, Ongoing

LEMMA BudgetStep ==
    ASSUME IInv, [Next]_vars
    PROVE  BudgetInv'
<1>0. CASE UNCHANGED vars
    BY <1>0, BudgetInvFrame DEF IInv, vars, tables, process, history
<1>1. ASSUME NEW w \in Workflows, NEW n \in 1..MaxActions, CreateWorkflow(w, n)
      PROVE  BudgetInv'
    BY <1>1, BudgetInvFrame DEF IInv, CreateWorkflow, process, history
<1>2. ASSUME NEW w \in Workflows, NEW n \in 1..MaxActions, UpdateWorkflow(w, n)
      PROVE  BudgetInv'
    BY <1>2, BudgetInvFrame DEF IInv, UpdateWorkflow, process, history, InTable
<1>3. ASSUME NEW w \in Workflows, NEW state \in {"enabled", "disabled"}, ToggleWorkflow(w, state)
      PROVE  BudgetInv'
    BY <1>3, BudgetInvFrame DEF IInv, ToggleWorkflow, process, history, InTable
<1>4. ASSUME NEW w \in Workflows, DeleteWorkflow(w) PROVE BudgetInv'
    BY <1>4, BudgetInvFrame DEF IInv, DeleteWorkflow, process, history, InTable
<1>5. ASSUME NEW r \in Requests, NEW e \in Executions, StartWebhook(r, e) PROVE BudgetInv'
    BY <1>5, BudgetInvFrame DEF IInv, StartWebhook, Handle, process, history
<1>6. ASSUME NEW r \in Requests, InsertEvent(r) PROVE BudgetInv'
    BY <1>6, BudgetInvFrame DEF IInv, InsertEvent, Goto, process, history, InTable
<1>7. ASSUME NEW r \in Requests, InsertExecution(r) PROVE BudgetInv'
    BY <1>7, BudgetInvFrame DEF IInv, InsertExecution, Goto, process, history, InTable
<1>8. ASSUME NEW r \in Requests, Enqueue(r) PROVE BudgetInv'
    <2> DEFINE e == request[r].execution
    <2>1. job[e].state = "none" /\ started[e] = 0 /\ e \in Executions
        BY <1>8 DEF Enqueue, IInv, TypeOK, HandlersInv, Inserting, BudgetInv
    <2>2. /\ job' = [job EXCEPT ![e] = NewJob("waiting", request[r].actions)]
          /\ UNCHANGED <<slot, started, stragglers>>
        BY <1>8 DEF Enqueue, process, history
    <2>3. /\ job'[e].attempts = 0 /\ job'[e].stalls = 0 /\ job'[e].state = "waiting"
          /\ \A f \in Executions \ {e} : job'[f] = job[f]
        BY <2>1, <2>2 DEF NewJob, IInv, TypeOK
    <2> QED
        BY <2>1, <2>2, <2>3, BoundsAssumption DEF IInv, TypeOK, BudgetInv, Ongoing, Job
<1>9. ASSUME NEW r \in Requests, NEW original \in Executions, NEW e \in Executions, StartRetry(r, original, e)
      PROVE  BudgetInv'
    BY <1>9, BudgetInvFrame DEF IInv, StartRetry, Handle, process, history
<1>10. ASSUME NEW r \in Requests, InsertCopy(r) PROVE BudgetInv'
    BY <1>10, BudgetInvFrame DEF IInv, InsertCopy, Reply, IdleRequest, process, InTable
<1>11. ASSUME NEW r \in Requests, NEW e \in Executions, StartCancel(r, e) PROVE BudgetInv'
    BY <1>11, BudgetInvFrame DEF IInv, StartCancel, Handle, tables, process, history,
       Cancellable
<1>12. ASSUME NEW r \in Requests, CommitCancel(r) PROVE BudgetInv'
    BY <1>12, BudgetInvFrame DEF IInv, CommitCancel, Reply, IdleRequest, process, history
<1>13. ASSUME NEW r \in Requests, AbortRequest(r) PROVE BudgetInv'
    BY <1>13, BudgetInvFrame DEF IInv, AbortRequest, Reply, IdleRequest, tables, process,
       history, InTable
<1>14. ASSUME NEW s \in Slots, NEW e \in Executions, Begin(s, e) PROVE BudgetInv'
    BY <1>14, IdleTypes DEF Begin, tables, IInv, TypeOK, BudgetInv, Ongoing, Job, Slot
<1>15. ASSUME NEW s \in Slots, MarkRunning(s) PROVE BudgetInv'
    BY <1>15, IdleTypes DEF MarkRunning, Continue, Update, history, IInv, TypeOK,
       BudgetInv, Ongoing, Job, Slot
<1>16. ASSUME NEW s \in Slots, FinishAction(s) PROVE BudgetInv'
    BY <1>16, IdleTypes DEF FinishAction, tables, history, IInv, TypeOK, BudgetInv,
       Ongoing, Job, Slot
<1>17. ASSUME NEW s \in Slots, FailAction(s) PROVE BudgetInv'
    BY <1>17, IdleTypes DEF FailAction, Continue, tables, history, IInv, TypeOK,
       BudgetInv, Ongoing, Job, Slot
<1>18. ASSUME NEW s \in Slots, TimeOutAction(s) PROVE BudgetInv'
    <2>1. slot[s].execution \in Executions
        BY <1>18, BusySlot DEF TimeOutAction, Busy
    <2>2. /\ stragglers' = [stragglers EXCEPT ![slot[s].execution] = @ + 1]
          /\ slot' = [slot EXCEPT ![s].pc = "record"]
          /\ UNCHANGED <<job, started>>
        BY <1>18 DEF TimeOutAction, Continue, history
    <2>3. \A e \in Executions : stragglers'[e] <= started[e]
        BY <1>18, <2>1, <2>2 DEF TimeOutAction, IInv, TypeOK, BudgetInv
    <2>4. \A t \in Slots \ {s} : Busy(t) => slot[t].execution # slot[s].execution
        BY <1>18 DEF TimeOutAction, IInv, SlotsInv, Busy
    <2>5. ASSUME NEW t \in Slots, slot'[t].pc \in {"mark", "act"}
          PROVE  stragglers'[slot'[t].execution] < started[slot'[t].execution]
        <3>1. t # s /\ slot'[t] = slot[t]
            BY <2>2, <2>5 DEF IInv, TypeOK, Slot
        <3>2. slot[t].execution \in Executions /\ slot[t].execution # slot[s].execution
            BY <2>4, <2>5, <3>1, BusySlot DEF Busy
        <3> QED
            BY <2>2, <2>5, <3>1, <3>2 DEF IInv, TypeOK, BudgetInv
    <2> QED
        BY <2>2, <2>3, <2>5 DEF IInv, BudgetInv, Ongoing
<1>19. ASSUME NEW e \in Executions, EndStraggler(e) PROVE BudgetInv'
    BY <1>19, IdleTypes DEF EndStraggler, tables, history, IInv, TypeOK, BudgetInv,
       Ongoing, Job, Slot
<1>20. ASSUME NEW s \in Slots, RecordSuccess(s) PROVE BudgetInv'
    BY <1>20, IdleTypes DEF RecordSuccess, Continue, Update, history, IInv, TypeOK,
       BudgetInv, Ongoing, Job, Slot
<1>21. ASSUME NEW s \in Slots, Meter(s) PROVE BudgetInv'
    BY <1>21, IdleTypes DEF Meter, Continue, Increment, history, IInv, TypeOK,
       BudgetInv, Ongoing, Job, Slot
<1>22. ASSUME NEW s \in Slots, RecordFailure(s) PROVE BudgetInv'
    BY <1>22, IdleTypes DEF RecordFailure, Continue, Update, history, IInv, TypeOK,
       BudgetInv, Ongoing, Job, Slot
<1>23. ASSUME NEW s \in Slots, RowIsGone(s) PROVE BudgetInv'
    BY <1>23, IdleTypes DEF RowIsGone, Catch, Continue, tables, history, IInv, TypeOK,
       BudgetInv, Ongoing, Job, Slot
<1>24. ASSUME NEW s \in Slots, Complete(s) PROVE BudgetInv'
    BY <1>24, IdleTypes, BusySlot DEF Complete, Leave, IdleSlot, tables, history, IInv,
       TypeOK, BudgetInv, Ongoing, Job, Slot, Busy
<1>25. ASSUME NEW s \in Slots, Fail(s) PROVE BudgetInv'
    BY <1>25, IdleTypes DEF Fail, Leave, IdleSlot, AfterFailure, tables, history, IInv,
       TypeOK, BudgetInv, Ongoing, Job, Slot
<1>26. ASSUME NEW s \in Slots, LeaveActive(s) PROVE BudgetInv'
    BY <1>26, IdleTypes DEF LeaveActive, Leave, IdleSlot, tables, history, IInv, TypeOK,
       BudgetInv, Ongoing, Job, Slot
<1>27. ASSUME NEW e \in Executions, Stall(e) PROVE BudgetInv'
    BY <1>27, IdleTypes DEF Stall, AfterStall, Orphaned, tables, process, history, IInv,
       TypeOK, BudgetInv, Ongoing, Job, Slot
<1>28. CASE Restart
    BY <1>28, IdleTypes DEF Restart, tables, history, IInv, TypeOK, BudgetInv, Ongoing,
       Job, Slot
<1>29. CASE Terminate
    BY <1>29, BudgetInvFrame DEF IInv, Terminate, Disrupt, tables
<1>30. CASE CrashWorker
    BY <1>30, IdleTypes DEF CrashWorker, Disrupt, IdleSlot, tables, IInv, TypeOK,
       BudgetInv, Ongoing, Job, Slot
<1>31. ASSUME NEW s \in Slots, FailStatement(s) PROVE BudgetInv'
    BY <1>31, IdleTypes DEF FailStatement, Update, Increment, Catch, Continue, Disrupt,
       tables, IInv, TypeOK, BudgetInv, Ongoing, Job, Slot
<1>32. ASSUME NEW r \in Requests, CrashRequest(r) PROVE BudgetInv'
    BY <1>32, BudgetInvFrame DEF IInv, CrashRequest, Reply, IdleRequest, Disrupt, tables,
       process
<1> QED
    BY <1>0, <1>1, <1>2, <1>3, <1>4, <1>5, <1>6, <1>7, <1>8, <1>9, <1>10, <1>11, <1>12,
       <1>13, <1>14, <1>15, <1>16, <1>17, <1>18, <1>19, <1>20, <1>21, <1>22, <1>23,
       <1>24, <1>25, <1>26, <1>27, <1>28, <1>29, <1>30, <1>31, <1>32 DEF Next,
       Administer, Arrive, Serve, Work, Disruption

(***************************************************************************)
(* Charges.                                                                 *)
(***************************************************************************)

LEMMA ChargeInvFrame ==
    ASSUME ChargeInv, UNCHANGED <<job, slot, metered, trouble>>
    PROVE  ChargeInv'
BY DEF ChargeInv, Explained, Busy

LEMMA ChargeStep ==
    ASSUME IInv, [Next]_vars
    PROVE  ChargeInv'
<1>0. CASE UNCHANGED vars
    BY <1>0, ChargeInvFrame DEF IInv, vars, tables, process, history
<1>1. ASSUME NEW w \in Workflows, NEW n \in 1..MaxActions, CreateWorkflow(w, n)
      PROVE  ChargeInv'
    BY <1>1, ChargeInvFrame DEF IInv, CreateWorkflow, process, history
<1>2. ASSUME NEW w \in Workflows, NEW n \in 1..MaxActions, UpdateWorkflow(w, n)
      PROVE  ChargeInv'
    BY <1>2, ChargeInvFrame DEF IInv, UpdateWorkflow, process, history, InTable
<1>3. ASSUME NEW w \in Workflows, NEW state \in {"enabled", "disabled"}, ToggleWorkflow(w, state)
      PROVE  ChargeInv'
    BY <1>3, ChargeInvFrame DEF IInv, ToggleWorkflow, process, history, InTable
<1>4. ASSUME NEW w \in Workflows, DeleteWorkflow(w) PROVE ChargeInv'
    BY <1>4, ChargeInvFrame DEF IInv, DeleteWorkflow, process, history, InTable
<1>5. ASSUME NEW r \in Requests, NEW e \in Executions, StartWebhook(r, e) PROVE ChargeInv'
    BY <1>5, ChargeInvFrame DEF IInv, StartWebhook, Handle, process, history
<1>6. ASSUME NEW r \in Requests, InsertEvent(r) PROVE ChargeInv'
    BY <1>6, ChargeInvFrame DEF IInv, InsertEvent, Goto, process, history, InTable
<1>7. ASSUME NEW r \in Requests, InsertExecution(r) PROVE ChargeInv'
    BY <1>7, ChargeInvFrame DEF IInv, InsertExecution, Goto, process, history, InTable
<1>8. ASSUME NEW r \in Requests, Enqueue(r) PROVE ChargeInv'
    BY <1>8, IdleTypes, JobType DEF Enqueue, Reply, IdleRequest, NewJob, tables,
       process, history, IInv, TypeOK, ChargeInv, Explained, Busy, Job, Slot,
       HandlersInv, Inserting
<1>9. ASSUME NEW r \in Requests, NEW original \in Executions, NEW e \in Executions, StartRetry(r, original, e)
      PROVE  ChargeInv'
    BY <1>9, ChargeInvFrame DEF IInv, StartRetry, Handle, process, history
<1>10. ASSUME NEW r \in Requests, InsertCopy(r) PROVE ChargeInv'
    BY <1>10, ChargeInvFrame DEF IInv, InsertCopy, Reply, IdleRequest, process, InTable
<1>11. ASSUME NEW r \in Requests, NEW e \in Executions, StartCancel(r, e) PROVE ChargeInv'
    BY <1>11, ChargeInvFrame DEF IInv, StartCancel, Handle, tables, process, history,
       Cancellable
<1>12. ASSUME NEW r \in Requests, CommitCancel(r) PROVE ChargeInv'
    BY <1>12, ChargeInvFrame DEF IInv, CommitCancel, Reply, IdleRequest, process, history
<1>13. ASSUME NEW r \in Requests, AbortRequest(r) PROVE ChargeInv'
    BY <1>13, ChargeInvFrame DEF IInv, AbortRequest, Reply, IdleRequest, tables, process,
       history, InTable
<1>14. ASSUME NEW s \in Slots, NEW e \in Executions, Begin(s, e) PROVE ChargeInv'
    BY <1>14, IdleTypes DEF Begin, tables, IInv, TypeOK, ChargeInv, Explained, Busy,
       Job, Slot
<1>15. ASSUME NEW s \in Slots, MarkRunning(s) PROVE ChargeInv'
    BY <1>15, IdleTypes DEF MarkRunning, Continue, Update, history, IInv, TypeOK,
       ChargeInv, Explained, Busy, Job, Slot
<1>16. ASSUME NEW s \in Slots, FinishAction(s) PROVE ChargeInv'
    BY <1>16, IdleTypes DEF FinishAction, tables, history, IInv, TypeOK, ChargeInv,
       Explained, Busy, Job, Slot
<1>17. ASSUME NEW s \in Slots, FailAction(s) PROVE ChargeInv'
    BY <1>17, IdleTypes DEF FailAction, Continue, tables, history, IInv, TypeOK,
       ChargeInv, Explained, Busy, Job, Slot
<1>18. ASSUME NEW s \in Slots, TimeOutAction(s) PROVE ChargeInv'
    BY <1>18, IdleTypes DEF TimeOutAction, Continue, tables, history, IInv, TypeOK,
       ChargeInv, Explained, Busy, Job, Slot
<1>19. ASSUME NEW e \in Executions, EndStraggler(e) PROVE ChargeInv'
    BY <1>19, ChargeInvFrame DEF IInv, EndStraggler, tables, history
<1>20. ASSUME NEW s \in Slots, RecordSuccess(s) PROVE ChargeInv'
    BY <1>20, IdleTypes DEF RecordSuccess, Continue, Update, history, IInv, TypeOK,
       ChargeInv, Explained, Busy, Job, Slot
<1>21. ASSUME NEW s \in Slots, Meter(s) PROVE ChargeInv'
    BY <1>21, IdleTypes, BusySlot DEF Meter, Continue, Increment, history, IInv, TypeOK,
       ChargeInv, Explained, Busy, Job, Slot, SlotsInv
<1>22. ASSUME NEW s \in Slots, RecordFailure(s) PROVE ChargeInv'
    BY <1>22, IdleTypes DEF RecordFailure, Continue, Update, history, IInv, TypeOK,
       ChargeInv, Explained, Busy, Job, Slot
<1>23. ASSUME NEW s \in Slots, RowIsGone(s) PROVE ChargeInv'
    BY <1>23, IdleTypes DEF RowIsGone, Catch, Continue, tables, history, IInv, TypeOK,
       ChargeInv, Explained, Busy, Job, Slot
<1>24. ASSUME NEW s \in Slots, Complete(s) PROVE ChargeInv'
    BY <1>24, IdleTypes, BusySlot DEF Complete, Leave, IdleSlot, tables, history, IInv,
       TypeOK, ChargeInv, Explained, Busy, Job, Slot
<1>25. ASSUME NEW s \in Slots, Fail(s) PROVE ChargeInv'
    BY <1>25, IdleTypes, BusySlot, JobFields DEF Fail, Leave, IdleSlot, AfterFailure,
       tables, history, IInv, TypeOK, ChargeInv, Explained, Busy, Job, Slot
<1>26. ASSUME NEW s \in Slots, LeaveActive(s) PROVE ChargeInv'
    BY <1>26, IdleTypes DEF LeaveActive, Leave, IdleSlot, tables, history, IInv, TypeOK,
       ChargeInv, Explained, Busy, Job, Slot
<1>27. ASSUME NEW e \in Executions, Stall(e) PROVE ChargeInv'
    BY <1>27, IdleTypes, JobFields DEF Stall, AfterStall, Orphaned, tables, process,
       history, IInv, TypeOK, ChargeInv, Explained, Busy, Job, Slot
<1>28. CASE Restart
    BY <1>28, ChargeInvFrame DEF IInv, Restart, tables, history
<1>29. CASE Terminate
    BY <1>29, ChargeInvFrame DEF IInv, Terminate, Disrupt, tables
<1>30. CASE CrashWorker
    BY <1>30, IdleTypes DEF CrashWorker, Disrupt, IdleSlot, tables, IInv, TypeOK,
       ChargeInv, Explained, Busy, Job, Slot
<1>31. ASSUME NEW s \in Slots, FailStatement(s) PROVE ChargeInv'
    BY <1>31, IdleTypes, BusySlot DEF FailStatement, Update, Increment, Catch, Continue,
       Disrupt, tables, IInv, TypeOK, ChargeInv, Explained, Busy, Job, Slot, SlotsInv
<1>32. ASSUME NEW r \in Requests, CrashRequest(r) PROVE ChargeInv'
    BY <1>32, IdleTypes DEF CrashRequest, Reply, IdleRequest, Disrupt, tables, process,
       IInv, TypeOK, ChargeInv, Explained, Busy, Job, Slot
<1> QED
    BY <1>0, <1>1, <1>2, <1>3, <1>4, <1>5, <1>6, <1>7, <1>8, <1>9, <1>10, <1>11, <1>12,
       <1>13, <1>14, <1>15, <1>16, <1>17, <1>18, <1>19, <1>20, <1>21, <1>22, <1>23,
       <1>24, <1>25, <1>26, <1>27, <1>28, <1>29, <1>30, <1>31, <1>32 DEF Next,
       Administer, Arrive, Serve, Work, Disruption

(***************************************************************************)
(* The row shows how the job ended.                                         *)
(***************************************************************************)

LEMMA RecordInvFrame ==
    ASSUME RecordInv, UNCHANGED <<rows, status, job, slot, trouble>>
    PROVE  RecordInv'
BY DEF RecordInv, EndedJobIsRecorded, StalledOut

LEMMA RecordStep ==
    ASSUME IInv, [Next]_vars
    PROVE  RecordInv'
<1>0. CASE UNCHANGED vars
    BY <1>0, RecordInvFrame DEF IInv, vars, tables, process, history
<1>1. ASSUME NEW w \in Workflows, NEW n \in 1..MaxActions, CreateWorkflow(w, n)
      PROVE  RecordInv'
    BY <1>1, RecordInvFrame DEF IInv, CreateWorkflow, process, history
<1>2. ASSUME NEW w \in Workflows, NEW n \in 1..MaxActions, UpdateWorkflow(w, n)
      PROVE  RecordInv'
    BY <1>2, RecordInvFrame DEF IInv, UpdateWorkflow, process, history, InTable
<1>3. ASSUME NEW w \in Workflows, NEW state \in {"enabled", "disabled"}, ToggleWorkflow(w, state)
      PROVE  RecordInv'
    BY <1>3, RecordInvFrame DEF IInv, ToggleWorkflow, process, history, InTable
<1>4. ASSUME NEW w \in Workflows, DeleteWorkflow(w) PROVE RecordInv'
    BY <1>4, IdleTypes DEF DeleteWorkflow, process, history, InTable, IInv, TypeOK,
       RecordInv, EndedJobIsRecorded, StalledOut, Job, Slot
<1>5. ASSUME NEW r \in Requests, NEW e \in Executions, StartWebhook(r, e) PROVE RecordInv'
    BY <1>5, RecordInvFrame DEF IInv, StartWebhook, Handle, process, history
<1>6. ASSUME NEW r \in Requests, InsertEvent(r) PROVE RecordInv'
    BY <1>6, RecordInvFrame DEF IInv, InsertEvent, Goto, process, history, InTable
<1>7. ASSUME NEW r \in Requests, InsertExecution(r) PROVE RecordInv'
    BY <1>7, IdleTypes DEF InsertExecution, Goto, process, history, InTable, IInv,
       TypeOK, RecordInv, EndedJobIsRecorded, StalledOut, Job, Slot, HandlersInv,
       Inserting, SlotsInv, Busy
<1>8. ASSUME NEW r \in Requests, Enqueue(r) PROVE RecordInv'
    BY <1>8, IdleTypes DEF Enqueue, Reply, IdleRequest, NewJob, tables, process,
       history, IInv, TypeOK, RecordInv, EndedJobIsRecorded, StalledOut, Job, Slot
<1>9. ASSUME NEW r \in Requests, NEW original \in Executions, NEW e \in Executions, StartRetry(r, original, e)
      PROVE  RecordInv'
    BY <1>9, RecordInvFrame DEF IInv, StartRetry, Handle, process, history
<1>10. ASSUME NEW r \in Requests, InsertCopy(r) PROVE RecordInv'
    BY <1>10, IdleTypes DEF InsertCopy, Reply, IdleRequest, process, InTable, IInv,
       TypeOK, RecordInv, EndedJobIsRecorded, StalledOut, Job, Slot, HandlersInv,
       Inserting, SlotsInv, Busy
<1>11. ASSUME NEW r \in Requests, NEW e \in Executions, StartCancel(r, e) PROVE RecordInv'
    BY <1>11, RecordInvFrame DEF IInv, StartCancel, Handle, tables, process, history,
       Cancellable
<1>12. ASSUME NEW r \in Requests, CommitCancel(r) PROVE RecordInv'
    BY <1>12, IdleTypes DEF CommitCancel, Reply, IdleRequest, process, history, IInv,
       TypeOK, RecordInv, EndedJobIsRecorded, StalledOut, Job, Slot
<1>13. ASSUME NEW r \in Requests, AbortRequest(r) PROVE RecordInv'
    BY <1>13, RecordInvFrame DEF IInv, AbortRequest, Reply, IdleRequest, tables, process,
       history, InTable
<1>14. ASSUME NEW s \in Slots, NEW e \in Executions, Begin(s, e) PROVE RecordInv'
    BY <1>14, IdleTypes DEF Begin, tables, IInv, TypeOK, RecordInv, EndedJobIsRecorded,
       StalledOut, Job, Slot
<1>15. ASSUME NEW s \in Slots, MarkRunning(s) PROVE RecordInv'
    BY <1>15, IdleTypes, BusySlot DEF MarkRunning, Continue, Update, history, IInv,
       TypeOK, RecordInv, EndedJobIsRecorded, StalledOut, Job, Slot, SlotsInv, Busy
<1>16. ASSUME NEW s \in Slots, FinishAction(s) PROVE RecordInv'
    BY <1>16, IdleTypes DEF FinishAction, tables, history, IInv, TypeOK, RecordInv,
       EndedJobIsRecorded, StalledOut, Job, Slot
<1>17. ASSUME NEW s \in Slots, FailAction(s) PROVE RecordInv'
    BY <1>17, IdleTypes DEF FailAction, Continue, tables, history, IInv, TypeOK,
       RecordInv, EndedJobIsRecorded, StalledOut, Job, Slot
<1>18. ASSUME NEW s \in Slots, TimeOutAction(s) PROVE RecordInv'
    BY <1>18, IdleTypes DEF TimeOutAction, Continue, tables, history, IInv, TypeOK,
       RecordInv, EndedJobIsRecorded, StalledOut, Job, Slot
<1>19. ASSUME NEW e \in Executions, EndStraggler(e) PROVE RecordInv'
    BY <1>19, RecordInvFrame DEF IInv, EndStraggler, tables, history
<1>20. ASSUME NEW s \in Slots, RecordSuccess(s) PROVE RecordInv'
    BY <1>20, IdleTypes, BusySlot DEF RecordSuccess, Continue, Update, history, IInv,
       TypeOK, RecordInv, EndedJobIsRecorded, StalledOut, Job, Slot, SlotsInv, Busy
<1>21. ASSUME NEW s \in Slots, Meter(s) PROVE RecordInv'
    BY <1>21, IdleTypes DEF Meter, Continue, Increment, history, IInv, TypeOK,
       RecordInv, EndedJobIsRecorded, StalledOut, Job, Slot
<1>22. ASSUME NEW s \in Slots, RecordFailure(s) PROVE RecordInv'
    BY <1>22, IdleTypes, BusySlot DEF RecordFailure, Continue, Update, history, IInv,
       TypeOK, RecordInv, EndedJobIsRecorded, StalledOut, Job, Slot, SlotsInv, Busy
<1>23. ASSUME NEW s \in Slots, RowIsGone(s) PROVE RecordInv'
    BY <1>23, IdleTypes DEF RowIsGone, Catch, Continue, tables, history, IInv, TypeOK,
       RecordInv, EndedJobIsRecorded, StalledOut, Job, Slot
<1>24. ASSUME NEW s \in Slots, Complete(s) PROVE RecordInv'
    BY <1>24, IdleTypes, BusySlot DEF Complete, Leave, IdleSlot, tables, history, IInv,
       TypeOK, RecordInv, EndedJobIsRecorded, StalledOut, Job, Slot, Busy, SlotsInv
<1>25. ASSUME NEW s \in Slots, Fail(s) PROVE RecordInv'
    BY <1>25, IdleTypes, BusySlot, JobFields DEF Fail, Leave, IdleSlot, AfterFailure,
       tables, history, IInv, TypeOK, RecordInv, EndedJobIsRecorded, StalledOut, Job,
       Slot, Busy, SlotsInv
<1>26. ASSUME NEW s \in Slots, LeaveActive(s) PROVE RecordInv'
    BY <1>26, IdleTypes DEF LeaveActive, Leave, IdleSlot, tables, history, IInv, TypeOK,
       RecordInv, EndedJobIsRecorded, StalledOut, Job, Slot
<1>27. ASSUME NEW e \in Executions, Stall(e) PROVE RecordInv'
    BY <1>27, IdleTypes, JobFields DEF Stall, AfterStall, Orphaned, tables, process,
       history, IInv, TypeOK, RecordInv, EndedJobIsRecorded, StalledOut, Job, Slot,
       BudgetInv
<1>28. CASE Restart
    BY <1>28, RecordInvFrame DEF IInv, Restart, tables, history
<1>29. CASE Terminate
    BY <1>29, RecordInvFrame DEF IInv, Terminate, Disrupt, tables
<1>30. CASE CrashWorker
    BY <1>30, IdleTypes DEF CrashWorker, Disrupt, IdleSlot, tables, IInv, TypeOK,
       RecordInv, EndedJobIsRecorded, StalledOut, Job, Slot
<1>31. ASSUME NEW s \in Slots, FailStatement(s) PROVE RecordInv'
    BY <1>31, IdleTypes DEF FailStatement, Update, Increment, Catch, Continue, Disrupt,
       tables, IInv, TypeOK, RecordInv, EndedJobIsRecorded, StalledOut, Job, Slot
<1>32. ASSUME NEW r \in Requests, CrashRequest(r) PROVE RecordInv'
    BY <1>32, IdleTypes DEF CrashRequest, Reply, IdleRequest, Disrupt, tables, process,
       IInv, TypeOK, RecordInv, EndedJobIsRecorded, StalledOut, Job, Slot
<1> QED
    BY <1>0, <1>1, <1>2, <1>3, <1>4, <1>5, <1>6, <1>7, <1>8, <1>9, <1>10, <1>11, <1>12,
       <1>13, <1>14, <1>15, <1>16, <1>17, <1>18, <1>19, <1>20, <1>21, <1>22, <1>23,
       <1>24, <1>25, <1>26, <1>27, <1>28, <1>29, <1>30, <1>31, <1>32 DEF Next,
       Administer, Arrive, Serve, Work, Disruption

(***************************************************************************)
(* Unfinished executions are in somebody's hands.                           *)
(***************************************************************************)

LEMMA UnfinishedIsOwnedFrame ==
    ASSUME UnfinishedIsOwned, UNCHANGED <<rows, status, job, request, copied, trouble>>
    PROVE  UnfinishedIsOwned'
BY DEF UnfinishedIsOwned, StalledOut

LEMMA OwnedStep ==
    ASSUME IInv, [Next]_vars
    PROVE  UnfinishedIsOwned'
<1>0. CASE UNCHANGED vars
    BY <1>0, UnfinishedIsOwnedFrame DEF IInv, vars, tables, process, history
<1>1. ASSUME NEW w \in Workflows, NEW n \in 1..MaxActions, CreateWorkflow(w, n)
      PROVE  UnfinishedIsOwned'
    BY <1>1, UnfinishedIsOwnedFrame DEF IInv, CreateWorkflow, process, history
<1>2. ASSUME NEW w \in Workflows, NEW n \in 1..MaxActions, UpdateWorkflow(w, n)
      PROVE  UnfinishedIsOwned'
    BY <1>2, UnfinishedIsOwnedFrame DEF IInv, UpdateWorkflow, process, history, InTable
<1>3. ASSUME NEW w \in Workflows, NEW state \in {"enabled", "disabled"}, ToggleWorkflow(w, state)
      PROVE  UnfinishedIsOwned'
    BY <1>3, UnfinishedIsOwnedFrame DEF IInv, ToggleWorkflow, process, history, InTable
<1>4. ASSUME NEW w \in Workflows, DeleteWorkflow(w) PROVE UnfinishedIsOwned'
    BY <1>4, IdleTypes DEF DeleteWorkflow, process, history, InTable, IInv, TypeOK,
       UnfinishedIsOwned, StalledOut, Cancellable
<1>5. ASSUME NEW r \in Requests, NEW e \in Executions, StartWebhook(r, e)
      PROVE  UnfinishedIsOwned'
    BY <1>5, IdleTypes DEF StartWebhook, Handle, process, history, IInv, TypeOK,
       UnfinishedIsOwned, StalledOut, Cancellable
<1>6. ASSUME NEW r \in Requests, InsertEvent(r) PROVE UnfinishedIsOwned'
    BY <1>6, IdleTypes DEF InsertEvent, Goto, process, history, InTable, IInv, TypeOK,
       UnfinishedIsOwned, StalledOut, Cancellable
<1>7. ASSUME NEW r \in Requests, InsertExecution(r) PROVE UnfinishedIsOwned'
    BY <1>7, IdleTypes DEF InsertExecution, Goto, process, history, InTable, IInv,
       TypeOK, UnfinishedIsOwned, StalledOut, Cancellable
<1>8. ASSUME NEW r \in Requests, Enqueue(r) PROVE UnfinishedIsOwned'
    BY <1>8, IdleTypes DEF Enqueue, Reply, IdleRequest, NewJob, tables, process,
       history, IInv, TypeOK, UnfinishedIsOwned, StalledOut, Cancellable
<1>9. ASSUME NEW r \in Requests, NEW original \in Executions, NEW e \in Executions, StartRetry(r, original, e)
      PROVE  UnfinishedIsOwned'
    BY <1>9, IdleTypes DEF StartRetry, Handle, process, history, IInv, TypeOK,
       UnfinishedIsOwned, StalledOut, Cancellable
<1>10. ASSUME NEW r \in Requests, InsertCopy(r) PROVE UnfinishedIsOwned'
    BY <1>10, IdleTypes DEF InsertCopy, Reply, IdleRequest, process, InTable, IInv,
       TypeOK, UnfinishedIsOwned, StalledOut, Cancellable
<1>11. ASSUME NEW r \in Requests, NEW e \in Executions, StartCancel(r, e)
      PROVE  UnfinishedIsOwned'
    BY <1>11, IdleTypes DEF StartCancel, Handle, tables, process, history, Cancellable,
       IInv, TypeOK, UnfinishedIsOwned, StalledOut, Cancellable
<1>12. ASSUME NEW r \in Requests, CommitCancel(r) PROVE UnfinishedIsOwned'
    BY <1>12, IdleTypes DEF CommitCancel, Reply, IdleRequest, process, history, IInv,
       TypeOK, UnfinishedIsOwned, StalledOut, Cancellable
<1>13. ASSUME NEW r \in Requests, AbortRequest(r) PROVE UnfinishedIsOwned'
    BY <1>13, IdleTypes DEF AbortRequest, Reply, IdleRequest, tables, process, history,
       InTable, IInv, TypeOK, UnfinishedIsOwned, StalledOut, Cancellable
<1>14. ASSUME NEW s \in Slots, NEW e \in Executions, Begin(s, e) PROVE UnfinishedIsOwned'
    BY <1>14, IdleTypes DEF Begin, tables, IInv, TypeOK, UnfinishedIsOwned, StalledOut,
       Cancellable
<1>15. ASSUME NEW s \in Slots, MarkRunning(s) PROVE UnfinishedIsOwned'
    BY <1>15, IdleTypes, BusySlot DEF MarkRunning, Continue, Update, history, IInv,
       TypeOK, UnfinishedIsOwned, StalledOut, Cancellable, Busy
<1>16. ASSUME NEW s \in Slots, FinishAction(s) PROVE UnfinishedIsOwned'
    BY <1>16, UnfinishedIsOwnedFrame DEF IInv, FinishAction, tables, history
<1>17. ASSUME NEW s \in Slots, FailAction(s) PROVE UnfinishedIsOwned'
    BY <1>17, UnfinishedIsOwnedFrame DEF IInv, FailAction, Continue, tables, history
<1>18. ASSUME NEW s \in Slots, TimeOutAction(s) PROVE UnfinishedIsOwned'
    BY <1>18, UnfinishedIsOwnedFrame DEF IInv, TimeOutAction, Continue, tables, history
<1>19. ASSUME NEW e \in Executions, EndStraggler(e) PROVE UnfinishedIsOwned'
    BY <1>19, UnfinishedIsOwnedFrame DEF IInv, EndStraggler, tables, history
<1>20. ASSUME NEW s \in Slots, RecordSuccess(s) PROVE UnfinishedIsOwned'
    BY <1>20, IdleTypes DEF RecordSuccess, Continue, Update, history, IInv, TypeOK,
       UnfinishedIsOwned, StalledOut, Cancellable
<1>21. ASSUME NEW s \in Slots, Meter(s) PROVE UnfinishedIsOwned'
    BY <1>21, UnfinishedIsOwnedFrame DEF IInv, Meter, Continue, Increment, history
<1>22. ASSUME NEW s \in Slots, RecordFailure(s) PROVE UnfinishedIsOwned'
    BY <1>22, IdleTypes DEF RecordFailure, Continue, Update, history, IInv, TypeOK,
       UnfinishedIsOwned, StalledOut, Cancellable
<1>23. ASSUME NEW s \in Slots, RowIsGone(s) PROVE UnfinishedIsOwned'
    BY <1>23, UnfinishedIsOwnedFrame DEF IInv, RowIsGone, Catch, Continue, tables, history
<1>24. ASSUME NEW s \in Slots, Complete(s) PROVE UnfinishedIsOwned'
    BY <1>24, IdleTypes, BusySlot DEF Complete, Leave, IdleSlot, tables, history, IInv,
       TypeOK, UnfinishedIsOwned, StalledOut, Cancellable, Busy, RecordInv, SlotsInv
<1>25. ASSUME NEW s \in Slots, Fail(s) PROVE UnfinishedIsOwned'
    BY <1>25, IdleTypes, BusySlot, JobFields DEF Fail, Leave, IdleSlot, AfterFailure,
       tables, history, IInv, TypeOK, UnfinishedIsOwned, StalledOut, Cancellable, Busy,
       RecordInv, SlotsInv
<1>26. ASSUME NEW s \in Slots, LeaveActive(s) PROVE UnfinishedIsOwned'
    BY <1>26, UnfinishedIsOwnedFrame DEF IInv, LeaveActive, Leave, IdleSlot, tables, history
<1>27. ASSUME NEW e \in Executions, Stall(e) PROVE UnfinishedIsOwned'
    BY <1>27, IdleTypes, JobFields DEF Stall, AfterStall, Orphaned, tables, process,
       history, IInv, TypeOK, UnfinishedIsOwned, StalledOut, Cancellable, BudgetInv
<1>28. CASE Restart
    BY <1>28, UnfinishedIsOwnedFrame DEF IInv, Restart, tables, history
<1>29. CASE Terminate
    BY <1>29, UnfinishedIsOwnedFrame DEF IInv, Terminate, Disrupt, tables
<1>30. CASE CrashWorker
    BY <1>30, UnfinishedIsOwnedFrame DEF IInv, CrashWorker, Disrupt, IdleSlot, tables
<1>31. ASSUME NEW s \in Slots, FailStatement(s) PROVE UnfinishedIsOwned'
    BY <1>31, IdleTypes DEF FailStatement, Update, Increment, Catch, Continue, Disrupt,
       tables, IInv, TypeOK, UnfinishedIsOwned, StalledOut, Cancellable
<1>32. ASSUME NEW r \in Requests, CrashRequest(r) PROVE UnfinishedIsOwned'
    BY <1>32, IdleTypes DEF CrashRequest, Reply, IdleRequest, Disrupt, tables, process,
       IInv, TypeOK, UnfinishedIsOwned, StalledOut, Cancellable
<1> QED
    BY <1>0, <1>1, <1>2, <1>3, <1>4, <1>5, <1>6, <1>7, <1>8, <1>9, <1>10, <1>11, <1>12,
       <1>13, <1>14, <1>15, <1>16, <1>17, <1>18, <1>19, <1>20, <1>21, <1>22, <1>23,
       <1>24, <1>25, <1>26, <1>27, <1>28, <1>29, <1>30, <1>31, <1>32 DEF Next,
       Administer, Arrive, Serve, Work, Disruption

(***************************************************************************)
(* SUCCESS is final.                                                        *)
(***************************************************************************)

LEMMA FinalInvFrame ==
    ASSUME FinalInv, UNCHANGED <<rows, status, job, slot, trouble, request>>
    PROVE  FinalInv'
BY DEF FinalInv, Undisturbed

LEMMA FinalStep ==
    ASSUME IInv, [Next]_vars
    PROVE  FinalInv'
<1>0. CASE UNCHANGED vars
    BY <1>0, FinalInvFrame DEF IInv, vars, tables, process, history
<1>1. ASSUME NEW w \in Workflows, NEW n \in 1..MaxActions, CreateWorkflow(w, n)
      PROVE  FinalInv'
    BY <1>1, FinalInvFrame DEF IInv, CreateWorkflow, process, history
<1>2. ASSUME NEW w \in Workflows, NEW n \in 1..MaxActions, UpdateWorkflow(w, n)
      PROVE  FinalInv'
    BY <1>2, FinalInvFrame DEF IInv, UpdateWorkflow, process, history, InTable
<1>3. ASSUME NEW w \in Workflows, NEW state \in {"enabled", "disabled"}, ToggleWorkflow(w, state)
      PROVE  FinalInv'
    BY <1>3, FinalInvFrame DEF IInv, ToggleWorkflow, process, history, InTable
<1>4. ASSUME NEW w \in Workflows, DeleteWorkflow(w) PROVE FinalInv'
    BY <1>4, IdleTypes DEF DeleteWorkflow, process, history, InTable, IInv, TypeOK,
       FinalInv, Undisturbed, Job, Slot
<1>5. ASSUME NEW r \in Requests, NEW e \in Executions, StartWebhook(r, e) PROVE FinalInv'
    BY <1>5, IdleTypes DEF StartWebhook, Handle, process, history, IInv, TypeOK,
       FinalInv, Undisturbed, Job, Slot, HandlersInv, Inserting, SlotsInv, Busy
<1>6. ASSUME NEW r \in Requests, InsertEvent(r) PROVE FinalInv'
    BY <1>6, IdleTypes DEF InsertEvent, Goto, process, history, InTable, IInv, TypeOK,
       FinalInv, Undisturbed, Job, Slot
<1>7. ASSUME NEW r \in Requests, InsertExecution(r) PROVE FinalInv'
    BY <1>7, IdleTypes DEF InsertExecution, Goto, process, history, InTable, IInv,
       TypeOK, FinalInv, Undisturbed, Job, Slot, HandlersInv, Inserting, SlotsInv, Busy
<1>8. ASSUME NEW r \in Requests, Enqueue(r) PROVE FinalInv'
    BY <1>8, IdleTypes, JobType DEF Enqueue, Reply, IdleRequest, NewJob, tables,
       process, history, IInv, TypeOK, FinalInv, Undisturbed, Job, Slot, HandlersInv,
       Inserting, SlotsInv, BudgetInv, Busy
<1>9. ASSUME NEW r \in Requests, NEW original \in Executions, NEW e \in Executions, StartRetry(r, original, e)
      PROVE  FinalInv'
    BY <1>9, IdleTypes DEF StartRetry, Handle, process, history, IInv, TypeOK, FinalInv,
       Undisturbed, Job, Slot, HandlersInv, Inserting, SlotsInv, Busy
<1>10. ASSUME NEW r \in Requests, InsertCopy(r) PROVE FinalInv'
    BY <1>10, IdleTypes DEF InsertCopy, Reply, IdleRequest, process, InTable, IInv,
       TypeOK, FinalInv, Undisturbed, Job, Slot, HandlersInv, Inserting, SlotsInv, Busy
<1>11. ASSUME NEW r \in Requests, NEW e \in Executions, StartCancel(r, e) PROVE FinalInv'
    BY <1>11, IdleTypes DEF StartCancel, Handle, tables, process, history, Cancellable,
       IInv, TypeOK, FinalInv, Undisturbed, Job, Slot
<1>12. ASSUME NEW r \in Requests, CommitCancel(r) PROVE FinalInv'
    BY <1>12, IdleTypes DEF CommitCancel, Reply, IdleRequest, process, history, IInv,
       TypeOK, FinalInv, Undisturbed, Job, Slot
<1>13. ASSUME NEW r \in Requests, AbortRequest(r) PROVE FinalInv'
    BY <1>13, IdleTypes DEF AbortRequest, Reply, IdleRequest, tables, process, history,
       InTable, IInv, TypeOK, FinalInv, Undisturbed, Job, Slot
<1>14. ASSUME NEW s \in Slots, NEW e \in Executions, Begin(s, e) PROVE FinalInv'
    BY <1>14, IdleTypes DEF Begin, tables, IInv, TypeOK, FinalInv, Undisturbed, Job,
       Slot
<1>15. ASSUME NEW s \in Slots, MarkRunning(s) PROVE FinalInv'
    BY <1>15, IdleTypes, BusySlot DEF MarkRunning, Continue, Update, history, IInv,
       TypeOK, FinalInv, Undisturbed, Job, Slot, SlotsInv, Busy
<1>16. ASSUME NEW s \in Slots, FinishAction(s) PROVE FinalInv'
    BY <1>16, IdleTypes DEF FinishAction, tables, history, IInv, TypeOK, FinalInv,
       Undisturbed, Job, Slot
<1>17. ASSUME NEW s \in Slots, FailAction(s) PROVE FinalInv'
    BY <1>17, IdleTypes DEF FailAction, Continue, tables, history, IInv, TypeOK,
       FinalInv, Undisturbed, Job, Slot
<1>18. ASSUME NEW s \in Slots, TimeOutAction(s) PROVE FinalInv'
    BY <1>18, IdleTypes DEF TimeOutAction, Continue, tables, history, IInv, TypeOK,
       FinalInv, Undisturbed, Job, Slot
<1>19. ASSUME NEW e \in Executions, EndStraggler(e) PROVE FinalInv'
    BY <1>19, FinalInvFrame DEF IInv, EndStraggler, tables, history
<1>20. ASSUME NEW s \in Slots, RecordSuccess(s) PROVE FinalInv'
    BY <1>20, IdleTypes, BusySlot DEF RecordSuccess, Continue, Update, history, IInv,
       TypeOK, FinalInv, Undisturbed, Job, Slot, SlotsInv, Busy
<1>21. ASSUME NEW s \in Slots, Meter(s) PROVE FinalInv'
    BY <1>21, IdleTypes DEF Meter, Continue, Increment, history, IInv, TypeOK, FinalInv,
       Undisturbed, Job, Slot
<1>22. ASSUME NEW s \in Slots, RecordFailure(s) PROVE FinalInv'
    BY <1>22, IdleTypes, BusySlot DEF RecordFailure, Continue, Update, history, IInv,
       TypeOK, FinalInv, Undisturbed, Job, Slot, SlotsInv, Busy
<1>23. ASSUME NEW s \in Slots, RowIsGone(s) PROVE FinalInv'
    BY <1>23, IdleTypes DEF RowIsGone, Catch, Continue, tables, history, IInv, TypeOK,
       FinalInv, Undisturbed, Job, Slot
<1>24. ASSUME NEW s \in Slots, Complete(s) PROVE FinalInv'
    BY <1>24, IdleTypes, BusySlot DEF Complete, Leave, IdleSlot, tables, history, IInv,
       TypeOK, FinalInv, Undisturbed, Job, Slot, SlotsInv, Busy
<1>25. ASSUME NEW s \in Slots, Fail(s) PROVE FinalInv'
    BY <1>25, IdleTypes, BusySlot, JobFields DEF Fail, Leave, IdleSlot, AfterFailure,
       tables, history, IInv, TypeOK, FinalInv, Undisturbed, Job, Slot, SlotsInv, Busy
<1>26. ASSUME NEW s \in Slots, LeaveActive(s) PROVE FinalInv'
    BY <1>26, IdleTypes DEF LeaveActive, Leave, IdleSlot, tables, history, IInv, TypeOK,
       FinalInv, Undisturbed, Job, Slot
<1>27. ASSUME NEW e \in Executions, Stall(e) PROVE FinalInv'
    BY <1>27, IdleTypes, JobFields DEF Stall, AfterStall, Orphaned, tables, process,
       history, IInv, TypeOK, FinalInv, Undisturbed, Job, Slot
<1>28. CASE Restart
    BY <1>28, FinalInvFrame DEF IInv, Restart, tables, history
<1>29. CASE Terminate
    BY <1>29, FinalInvFrame DEF IInv, Terminate, Disrupt, tables
<1>30. CASE CrashWorker
    BY <1>30, IdleTypes DEF CrashWorker, Disrupt, IdleSlot, tables, IInv, TypeOK,
       FinalInv, Undisturbed, Job, Slot
<1>31. ASSUME NEW s \in Slots, FailStatement(s) PROVE FinalInv'
    BY <1>31, IdleTypes DEF FailStatement, Update, Increment, Catch, Continue, Disrupt,
       tables, IInv, TypeOK, FinalInv, Undisturbed, Job, Slot
<1>32. ASSUME NEW r \in Requests, CrashRequest(r) PROVE FinalInv'
    BY <1>32, IdleTypes DEF CrashRequest, Reply, IdleRequest, Disrupt, tables, process,
       IInv, TypeOK, FinalInv, Undisturbed, Job, Slot
<1> QED
    BY <1>0, <1>1, <1>2, <1>3, <1>4, <1>5, <1>6, <1>7, <1>8, <1>9, <1>10, <1>11, <1>12,
       <1>13, <1>14, <1>15, <1>16, <1>17, <1>18, <1>19, <1>20, <1>21, <1>22, <1>23,
       <1>24, <1>25, <1>26, <1>27, <1>28, <1>29, <1>30, <1>31, <1>32 DEF Next,
       Administer, Arrive, Serve, Work, Disruption

(***************************************************************************)
(* The theorems.                                                            *)
(***************************************************************************)

LEMMA InitIInv == Init => IInv
<1> SUFFICES ASSUME Init PROVE IInv
    OBVIOUS
<1>1. TypeOK
    BY TypeInit
<1>2. \A s \in Slots : slot[s].pc = "idle" /\ slot[s].execution = NoExecution
    BY IdleTypes DEF Init
<1>3. \A r \in Requests : request[r].pc = "idle"
    BY IdleTypes DEF Init
<1>4. \A e \in Executions :
          /\ job[e].state = "none" /\ job[e].attempts = 0 /\ job[e].stalls = 0
          /\ started[e] = 0 /\ stragglers[e] = 0 /\ metered[e] = 0 /\ trouble[e] = 0
    BY DEF Init, NewJob
<1>5. rows = {}
    BY DEF Init
<1> QED
    BY <1>1, <1>2, <1>3, <1>4, <1>5, BoundsAssumption
    DEF IInv, SlotsInv, HandlersInv, BudgetInv, ChargeInv, RecordInv, FinalInv,
        UnfinishedIsOwned, EndedJobIsRecorded, Busy, Inserting, Ongoing, Explained

LEMMA Inductive == Spec => []IInv
<1>1. IInv /\ [Next]_vars => IInv'
    <2> SUFFICES ASSUME IInv, [Next]_vars PROVE IInv'
        OBVIOUS
    <2> QED
        BY TypeStep, SlotsStep, HandlersStep, BudgetStep, ChargeStep, RecordStep,
           FinalStep, OwnedStep DEF IInv
<1> QED
    BY InitIInv, <1>1, PTL DEF Spec

\* Every reachable state is well typed; only five of the schema's six statuses are
\* ever written, and no job counts more than `attempts` attempts (executeWorkflow,
\* workflow.queue.ts).
THEOREM LegacyTypeCorrect == Spec => []TypeOK
<1>1. IInv => TypeOK
    BY DEF IInv
<1> QED
    BY <1>1, Inductive, PTL

\* An unfinished execution is in the queue, in the worker or about to be queued,
\* with the exceptions that UnfinishedIsOwned names (triggerWebhook, executeWorkflow).
THEOREM LegacyExecutionIsOwned == Spec => []UnfinishedIsOwned
<1>1. IInv => UnfinishedIsOwned
    BY DEF IInv
<1> QED
    BY <1>1, Inductive, PTL

\* The row of an execution shows how its job ended (executeWorkflow).
THEOREM JobsAreRecorded == Spec => []EndedJobIsRecorded
<1>1. IInv => EndedJobIsRecorded
    BY DEF IInv, RecordInv
<1> QED
    BY <1>1, Inductive, PTL

\* A completed execution is charged once and a failed one never, but for stalls and
\* failed statements (updateUsageMetrics).
THEOREM ChargesAreExplained == Spec => []ChargedOnce
<1>1. IInv => ChargedOnce
    <2> SUFFICES ASSUME IInv PROVE ChargedOnce
        OBVIOUS
    <2> QED
        BY DEF IInv, ChargeInv, Explained, ChargedOnce
<1> QED
    BY <1>1, Inductive, PTL

\* executeWorkflow is called at most `attempts` times, and once more for every time
\* the job was taken back; each call leaves at most one straggler.
THEOREM RunsAreBounded == Spec => []AttemptsAreBounded
<1>1. IInv => AttemptsAreBounded
    <2> SUFFICES ASSUME IInv, NEW e \in Executions
                 PROVE  started[e] <= Attempts + job[e].stalls /\ stragglers[e] <= started[e]
        BY DEF AttemptsAreBounded
    <2>1. job[e] \in Job /\ started[e] \in Nat
        BY DEF IInv, TypeOK
    <2>2. job[e].attempts + Ongoing(e) <= Attempts
        BY <2>1, BoundsAssumption DEF IInv, BudgetInv, Ongoing, Job
    <2> QED
        BY <2>1, <2>2, BoundsAssumption DEF IInv, BudgetInv, Ongoing, Job
<1> QED
    BY <1>1, Inductive, PTL

\* What SuccessIsFinal says of a step.
StaysSuccessful(e) ==
    \/ status'[e] = "SUCCESS"
    \/ \E r \in Requests : request[r].pc = "cancel" /\ request[r].execution = e
    \/ trouble'[e] > 0
    \/ job[e].stalls > 0

\* A step overwrites SUCCESS in the three cases only.
LEMMA SuccessStep ==
    ASSUME IInv, NEW f \in rows, status[f] = "SUCCESS", IInv', [Next]_vars
    PROVE  StaysSuccessful(f)
<1>0. CASE UNCHANGED vars
    BY <1>0 DEF StaysSuccessful, vars, tables
<1>1. ASSUME NEW w \in Workflows, NEW n \in 1..MaxActions, CreateWorkflow(w, n)
      PROVE  StaysSuccessful(f)
    BY <1>1 DEF StaysSuccessful, tables,  CreateWorkflow, process, history
<1>2. ASSUME NEW w \in Workflows, NEW n \in 1..MaxActions, UpdateWorkflow(w, n)
      PROVE  StaysSuccessful(f)
    BY <1>2 DEF StaysSuccessful, tables,  UpdateWorkflow, process, history, InTable
<1>3. ASSUME NEW w \in Workflows, NEW state \in {"enabled", "disabled"}, ToggleWorkflow(w, state)
      PROVE  StaysSuccessful(f)
    BY <1>3 DEF StaysSuccessful, tables,  ToggleWorkflow, process, history, InTable
<1>4. ASSUME NEW w \in Workflows, DeleteWorkflow(w) PROVE StaysSuccessful(f)
    BY <1>4 DEF DeleteWorkflow, process, history, InTable, IInv, TypeOK, StaysSuccessful
<1>5. ASSUME NEW r \in Requests, NEW e \in Executions, StartWebhook(r, e)
      PROVE  StaysSuccessful(f)
    BY <1>5 DEF StaysSuccessful, tables,  StartWebhook, Handle, process, history
<1>6. ASSUME NEW r \in Requests, InsertEvent(r) PROVE StaysSuccessful(f)
    BY <1>6 DEF StaysSuccessful, tables,  InsertEvent, Goto, process, history, InTable
<1>7. ASSUME NEW r \in Requests, InsertExecution(r) PROVE StaysSuccessful(f)
    BY <1>7 DEF InsertExecution, Goto, process, history, InTable, IInv, TypeOK,
       StaysSuccessful, FinalInv
<1>8. ASSUME NEW r \in Requests, Enqueue(r) PROVE StaysSuccessful(f)
    BY <1>8 DEF StaysSuccessful, tables,  Enqueue, Reply, IdleRequest, NewJob, tables, process, history
<1>9. ASSUME NEW r \in Requests, NEW original \in Executions, NEW e \in Executions, StartRetry(r, original, e)
      PROVE  StaysSuccessful(f)
    BY <1>9 DEF StaysSuccessful, tables,  StartRetry, Handle, process, history
<1>10. ASSUME NEW r \in Requests, InsertCopy(r) PROVE StaysSuccessful(f)
    BY <1>10 DEF InsertCopy, Reply, IdleRequest, process, InTable, IInv, TypeOK,
       StaysSuccessful, FinalInv
<1>11. ASSUME NEW r \in Requests, NEW e \in Executions, StartCancel(r, e)
      PROVE  StaysSuccessful(f)
    BY <1>11 DEF StaysSuccessful, tables,  StartCancel, Handle, tables, process, history, Cancellable
<1>12. ASSUME NEW r \in Requests, CommitCancel(r) PROVE StaysSuccessful(f)
    BY <1>12 DEF CommitCancel, Reply, IdleRequest, process, history, IInv, TypeOK,
       StaysSuccessful
<1>13. ASSUME NEW r \in Requests, AbortRequest(r) PROVE StaysSuccessful(f)
    BY <1>13 DEF StaysSuccessful, tables,  AbortRequest, Reply, IdleRequest, tables, process, history, InTable
<1>14. ASSUME NEW s \in Slots, NEW e \in Executions, Begin(s, e) PROVE StaysSuccessful(f)
    BY <1>14 DEF StaysSuccessful, tables,  Begin, tables
<1>15. ASSUME NEW s \in Slots, MarkRunning(s) PROVE StaysSuccessful(f)
    BY <1>15, BusySlot DEF MarkRunning, Continue, Update, history, IInv, TypeOK,
       StaysSuccessful, FinalInv, Undisturbed, Busy, Job
<1>16. ASSUME NEW s \in Slots, FinishAction(s) PROVE StaysSuccessful(f)
    BY <1>16 DEF StaysSuccessful, tables,  FinishAction, tables, history
<1>17. ASSUME NEW s \in Slots, FailAction(s) PROVE StaysSuccessful(f)
    BY <1>17 DEF StaysSuccessful, tables,  FailAction, Continue, tables, history
<1>18. ASSUME NEW s \in Slots, TimeOutAction(s) PROVE StaysSuccessful(f)
    BY <1>18 DEF StaysSuccessful, tables,  TimeOutAction, Continue, tables, history
<1>19. ASSUME NEW e \in Executions, EndStraggler(e) PROVE StaysSuccessful(f)
    BY <1>19 DEF StaysSuccessful, tables,  EndStraggler, tables, history
<1>20. ASSUME NEW s \in Slots, RecordSuccess(s) PROVE StaysSuccessful(f)
    BY <1>20 DEF RecordSuccess, Continue, Update, history, IInv, TypeOK, StaysSuccessful
<1>21. ASSUME NEW s \in Slots, Meter(s) PROVE StaysSuccessful(f)
    BY <1>21 DEF StaysSuccessful, tables,  Meter, Continue, Increment, history
<1>22. ASSUME NEW s \in Slots, RecordFailure(s) PROVE StaysSuccessful(f)
    BY <1>22, BusySlot DEF RecordFailure, Continue, Update, history, IInv, TypeOK,
       StaysSuccessful, FinalInv, Undisturbed, Busy, Job
<1>23. ASSUME NEW s \in Slots, RowIsGone(s) PROVE StaysSuccessful(f)
    BY <1>23 DEF StaysSuccessful, tables,  RowIsGone, Catch, Continue, tables, history
<1>24. ASSUME NEW s \in Slots, Complete(s) PROVE StaysSuccessful(f)
    BY <1>24 DEF StaysSuccessful, tables,  Complete, Leave, IdleSlot, tables, history
<1>25. ASSUME NEW s \in Slots, Fail(s) PROVE StaysSuccessful(f)
    BY <1>25 DEF StaysSuccessful, tables,  Fail, Leave, IdleSlot, AfterFailure, tables, history
<1>26. ASSUME NEW s \in Slots, LeaveActive(s) PROVE StaysSuccessful(f)
    BY <1>26 DEF StaysSuccessful, tables,  LeaveActive, Leave, IdleSlot, tables, history
<1>27. ASSUME NEW e \in Executions, Stall(e) PROVE StaysSuccessful(f)
    BY <1>27 DEF StaysSuccessful, tables,  Stall, AfterStall, Orphaned, tables, process, history
<1>28. CASE Restart
    BY <1>28 DEF StaysSuccessful, tables,  Restart, tables, history
<1>29. CASE Terminate
    BY <1>29 DEF StaysSuccessful, tables,  Terminate, Disrupt, tables
<1>30. CASE CrashWorker
    BY <1>30 DEF StaysSuccessful, tables,  CrashWorker, Disrupt, IdleSlot, tables
<1>31. ASSUME NEW s \in Slots, FailStatement(s) PROVE StaysSuccessful(f)
    BY <1>31 DEF FailStatement, Update, Increment, Catch, Continue, Disrupt, tables,
       IInv, TypeOK, StaysSuccessful
<1>32. ASSUME NEW r \in Requests, CrashRequest(r) PROVE StaysSuccessful(f)
    BY <1>32 DEF StaysSuccessful, tables,  CrashRequest, Reply, IdleRequest, Disrupt, tables, process
<1> QED
    BY <1>0, <1>1, <1>2, <1>3, <1>4, <1>5, <1>6, <1>7, <1>8, <1>9, <1>10, <1>11, <1>12,
       <1>13, <1>14, <1>15, <1>16, <1>17, <1>18, <1>19, <1>20, <1>21, <1>22, <1>23,
       <1>24, <1>25, <1>26, <1>27, <1>28, <1>29, <1>30, <1>31, <1>32 DEF Next,
       Administer, Arrive, Serve, Work, Disruption

\* SUCCESS is overwritten only by a cancellation that began before, after a failed
\* statement, or when the job runs again because Redis did not hear of its end.
THEOREM LegacySuccessIsFinal == Spec => SuccessIsFinal
<1>1. ASSUME IInv, IInv', [Next]_vars
      PROVE  [\A e \in rows :
                \/ status[e] # "SUCCESS"
                \/ status'[e] = "SUCCESS"
                \/ \E r \in Requests : request[r].pc = "cancel" /\ request[r].execution = e
                \/ trouble'[e] > 0
                \/ job[e].stalls > 0]_vars
    BY <1>1, SuccessStep DEF StaysSuccessful
<1> QED
    BY <1>1, Inductive, PTL DEF Spec, SuccessIsFinal
=============================================================================
