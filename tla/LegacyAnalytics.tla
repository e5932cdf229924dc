---------------------------- MODULE LegacyAnalytics ----------------------------
(***************************************************************************)
(* The figures that the TypeScript back end reports of one organisation:    *)
(* execution statistics (analytics.service.ts and execution.service.ts),    *)
(* pages of executions, the platform's statistics, and the month's plan and *)
(* bill.                                                                    *)
(*                                                                         *)
(* A report is put together from several queries, one after the other or    *)
(* side by side, while the pipeline inserts, changes and deletes what they  *)
(* count.  LegacyExecutions has the pipeline itself; here it is what the    *)
(* tables may do.                                                          *)
(***************************************************************************)
EXTENDS Integers, FiniteSets, Functions

CONSTANTS
    Workflows,
    Executions,
    WorkflowOf,         \* execution -> workflow
    FreeRuns, FreeTokens, FreeCalls,    \* PLANS.free
    ProRuns, ProTokens,                 \* PLANS.pro
    ProPrice, EnterprisePrice,          \* in cents
    PageSize,           \* limit of listExecutions
    DaysPerMonth,
    LastDay,            \* bound: days, counted from 0
    TokensOfRun,        \* bound: the tokens one run may use
    MaxCharges          \* bound: runs charged

ASSUME AnalyticsSetsAssumption ==
    /\ IsFiniteSet(Executions)
    /\ IsFiniteSet(Workflows)
    /\ WorkflowOf \in [Executions -> Workflows]
ASSUME QueriesAssumption == Workflows \cap {"workflows", "groups", "total", "page"} = {}
ASSUME PlansAssumption ==
    /\ {FreeRuns, FreeTokens, FreeCalls, ProRuns, ProTokens, ProPrice, EnterprisePrice} \subseteq Nat
    /\ FreeRuns <= ProRuns
    /\ FreeTokens <= ProTokens
    /\ ProPrice <= EnterprisePrice
ASSUME AnalyticsBoundsAssumption ==
    /\ PageSize \in Nat \ {0}
    /\ DaysPerMonth \in Nat \ {0}
    /\ LastDay \in Nat
    /\ TokensOfRun \subseteq Nat
    /\ MaxCharges \in Nat

VARIABLES
    workflows,  \* table workflows
    status,     \* table executions: the status, "none" without a row
    usage,      \* table usage_metrics: day -> its counters
    unmetered,  \* runs whose SUCCESS is recorded and whose usage is not yet
    today,
    report      \* the report in progress

pipeline == <<workflows, status, usage, unmetered, today>>
analyticsVars == <<pipeline, report>>

-----------------------------------------------------------------------------
(* Counting. *)

Status == {"PENDING", "RUNNING", "SUCCESS", "FAILED", "CANCELLED"}

\* `scope` are the executions whose startedAt lies in the period of the report.
RowsOf(ws) == {e \in report.scope : status[e] # "none" /\ WorkflowOf[e] \in ws}

\* Mutant: the CANCELLED group is left out.
GroupByUncancelled(ws) ==
    [s \in Status |-> IF s = "CANCELLED" THEN 0 ELSE Cardinality({e \in RowsOf(ws) : status[e] = s})]

GroupBy(ws) == [s \in Status |-> Cardinality({e \in RowsOf(ws) : status[e] = s})]
SumOf(group) == FoldFunction(+, 0, group)

\* successRate and failureRate, in hundredths of a per cent: toFixed(2) rounds to the nearest.
Rate(part, total) == IF total > 0 THEN (20000 * part + total) \div (2 * total) ELSE 0

-----------------------------------------------------------------------------
(* Usage and billing: functions of usage_metrics. *)

Metric == [apiCalls : Nat, workflowRuns : Nat, aiTokens : Nat]
NoMetric == [apiCalls |-> 0, workflowRuns |-> 0, aiTokens |-> 0]

\* The month's rows of the table, added up counter by counter.
Totals(metrics, days) ==
    LET Total(counter) == FoldFunctionOnSet(+, 0, [d \in days |-> metrics[d][counter]], days)
    IN [apiCalls |-> Total("apiCalls"), workflowRuns |-> Total("workflowRuns"),
        aiTokens |-> Total("aiTokens")]

\* getBillingInfo.
MonthOf(d) == d \div DaysPerMonth
MonthUsage == Totals(usage, {d \in 0 .. today : MonthOf(d) = MonthOf(today)})

CurrentPlan(u) ==
    IF u.workflowRuns > ProRuns \/ u.aiTokens > ProTokens THEN "enterprise"
    ELSE IF u.workflowRuns > FreeRuns \/ u.aiTokens > FreeTokens THEN "pro"
    ELSE "free"

Over(n, limit) == IF n > limit THEN n - limit ELSE 0
\* In cents, from the rates in hundredths of a cent; toFixed(2) rounds to the nearest.
Overage(u) == (10 * Over(u.apiCalls, FreeCalls) + 100 * Over(u.workflowRuns, FreeRuns)
                  + Over(u.aiTokens, FreeTokens) + 50) \div 100
EstimatedBill(u) ==
    CASE CurrentPlan(u) = "free" -> Overage(u)
      [] CurrentPlan(u) = "pro" -> ProPrice
      [] CurrentPlan(u) = "enterprise" -> EnterprisePrice

-----------------------------------------------------------------------------
(* Reports in progress. *)

\* What is still to be queried, and what has been found.  quiet, kept: no row was inserted,
\* changed or deleted, or none deleted, since the report began.
Queries == {"workflows", "groups", "total", "page"} \cup Workflows
NoGroup == [s \in Status |-> 0]
NoReport ==
    [kind |-> "none", todo |-> {}, scope |-> Executions, workflows |-> {}, groups |-> NoGroup,
     each |-> [w \in Workflows |-> NoGroup], total |-> 0, page |-> 0, quiet |-> TRUE, kept |-> TRUE]
Kinds == {"none", "analytics", "stats", "list", "system"}
Count == 0 .. Cardinality(Executions)

AnalyticsTypeOK ==
    /\ workflows \subseteq Workflows
    /\ status \in [Executions -> Status \cup {"none"}]
    /\ usage \in [0 .. LastDay -> Metric]
    /\ unmetered \subseteq Executions
    /\ today \in 0 .. LastDay
    /\ report \in [kind : Kinds, todo : SUBSET Queries, scope : SUBSET Executions, workflows : SUBSET Workflows,
                   groups : [Status -> Count], each : [Workflows -> [Status -> Count]],
                   total : Count, page : Count, quiet : BOOLEAN, kept : BOOLEAN]

AnalyticsInit ==
    /\ workflows = Workflows
    /\ status = [e \in Executions |-> "none"]
    /\ usage = [d \in 0 .. LastDay |-> NoMetric]
    /\ unmetered = {}
    /\ today = 0
    /\ report = NoReport

\* A period that ends now has the executions there are; one with a later end, or none, has
\* those to come as well.
Scopes == {Executions, {e \in Executions : status[e] # "none"}}

Open(kind, todo, scopes) ==
    /\ report.kind = "none"
    /\ \E scope \in scopes : report' = [NoReport EXCEPT !.kind = kind, !.todo = todo, !.scope = scope]
    /\ UNCHANGED pipeline

\* One query is answered, and the rest is r.
Answer(q, r) ==
    /\ q \in report.todo
    /\ report' = [r EXCEPT !.todo = @ \ {q}]
    /\ UNCHANGED pipeline

\* Mutant: the total before the groups.
AnalyticsTotalFirst ==
    \/ Open("analytics", {"workflows", "groups", "total"}, Scopes)
    \/ /\ report.kind = "analytics"
       /\ \/ Answer("workflows", [report EXCEPT !.workflows = workflows])
          \/ /\ "workflows" \notin report.todo
             /\ Answer("total", [report EXCEPT !.total = Cardinality(RowsOf(report.workflows))])
          \/ /\ "total" \notin report.todo
             /\ Answer("groups", [report EXCEPT
                    !.groups = GroupBy(report.workflows),
                    !.each = [w \in Workflows |-> IF w \in report.workflows THEN GroupBy({w}) ELSE NoGroup]])

\* analytics.service.ts: the workflows, the groups, the total, in this order.
AnalyticsExecutionStats ==
    \/ Open("analytics", {"workflows", "groups", "total"}, Scopes)
    \/ /\ report.kind = "analytics"
       /\ \/ Answer("workflows", [report EXCEPT !.workflows = workflows])
          \/ /\ "workflows" \notin report.todo
             /\ Answer("groups", [report EXCEPT
                    !.groups = GroupBy(report.workflows),
                    !.each = [w \in Workflows |-> IF w \in report.workflows THEN GroupBy({w}) ELSE NoGroup]])
          \/ /\ "groups" \notin report.todo
             /\ Answer("total", [report EXCEPT !.total = Cardinality(RowsOf(report.workflows))])

\* execution.service.ts: first the workflows, then everything else at once, with a query
\* for every workflow.
ExecutionStats ==
    \/ Open("stats", {"workflows"}, Scopes)
    \/ /\ report.kind = "stats"
       /\ \/ /\ "workflows" \in report.todo
             /\ report' = [report EXCEPT !.workflows = workflows, !.todo = {"groups", "total"} \cup workflows]
             /\ UNCHANGED pipeline
          \/ Answer("total", [report EXCEPT !.total = Cardinality(RowsOf(report.workflows))])
          \/ Answer("groups", [report EXCEPT !.groups = GroupBy(report.workflows)])
          \/ \E w \in report.workflows : Answer(w, [report EXCEPT !.each[w] = GroupBy({w})])

\* A page of executions from offset 0, and how many there are, at once.
ListExecutions ==
    \/ Open("list", {"workflows", "page", "total"}, Scopes)
    \/ /\ report.kind = "list"
       /\ \/ Answer("workflows", [report EXCEPT !.workflows = workflows])
          \/ /\ "workflows" \notin report.todo
             /\ \/ Answer("total", [report EXCEPT !.total = Cardinality(RowsOf(report.workflows))])
                \/ Answer("page", [report EXCEPT
                       !.page = LET n == Cardinality(RowsOf(report.workflows)) IN IF n > PageSize THEN PageSize ELSE n])

HasMore == report.page < report.total

\* Mutant: the groups before the total.
SystemGroupsFirst ==
    \/ Open("system", {"total", "groups"}, {Executions})
    \/ /\ report.kind = "system"
       /\ \/ Answer("groups", [report EXCEPT !.groups = GroupBy(Workflows)])
          \/ /\ "groups" \notin report.todo
             /\ Answer("total", [report EXCEPT !.total = Cardinality(RowsOf(Workflows))])

\* The platform's figures: the total first, the groups after it.
SystemStats ==
    \/ Open("system", {"total", "groups"}, {Executions})
    \/ /\ report.kind = "system"
       /\ \/ Answer("total", [report EXCEPT !.total = Cardinality(RowsOf(Workflows))])
          \/ /\ "total" \notin report.todo
             /\ Answer("groups", [report EXCEPT !.groups = GroupBy(Workflows)])

Done == report.kind # "none" /\ report.todo = {}
Send == Done /\ report' = NoReport /\ UNCHANGED pipeline

-----------------------------------------------------------------------------
(* What happens meanwhile. *)

Disturb(deletes) ==
    report' = IF report.kind = "none" THEN report
              ELSE [report EXCEPT !.quiet = FALSE, !.kept = @ /\ ~deletes]

InsertExecution(e) ==
    /\ WorkflowOf[e] \in workflows
    /\ status[e] = "none"
    /\ status' = [status EXCEPT ![e] = "PENDING"]
    /\ Disturb(FALSE)
    /\ UNCHANGED <<workflows, usage, unmetered, today>>

\* Attempts, stragglers and cancellations write over each other, also when the execution had
\* ended; every SUCCESS is to be charged.
ChangeStatus(e, s) ==
    /\ status[e] \notin {"none", s}
    /\ s # "PENDING"
    /\ s = "SUCCESS" => status[e] # "PENDING"
    /\ status' = [status EXCEPT ![e] = s]
    /\ unmetered' = IF s = "SUCCESS" THEN unmetered \cup {e} ELSE unmetered
    /\ Disturb(FALSE)
    /\ UNCHANGED <<workflows, usage, today>>

\* Mutants: the upsert sets the counters; it subtracts.
MeteredAnew(metric, tokens) == [metric EXCEPT !.workflowRuns = 1, !.aiTokens = tokens]
MeteredBack(metric, tokens) == [metric EXCEPT !.workflowRuns = @ + 1, !.aiTokens = @ - tokens]

\* updateUsageMetrics increments the counters of the day it runs on, which need not be the
\* day of the SUCCESS; nothing ever counts API calls.
Metered(metric, tokens) ==
    [metric EXCEPT !.workflowRuns = @ + 1, !.aiTokens = @ + tokens]

UpdateUsageMetrics(e, tokens) ==
    /\ e \in unmetered
    /\ Totals(usage, 0 .. LastDay).workflowRuns < MaxCharges
    /\ unmetered' = unmetered \ {e}
    /\ usage' = [usage EXCEPT ![today] = Metered(@, tokens)]
    /\ UNCHANGED <<workflows, status, today, report>>

\* The executions go with their workflow, the usage stays.
DeleteWorkflow(w) ==
    /\ w \in workflows
    /\ workflows' = workflows \ {w}
    /\ status' = [e \in Executions |-> IF WorkflowOf[e] = w THEN "none" ELSE status[e]]
    /\ Disturb(TRUE)
    /\ UNCHANGED <<usage, unmetered, today>>

NextDay ==
    /\ today < LastDay
    /\ today' = today + 1
    /\ UNCHANGED <<workflows, status, usage, unmetered, report>>

AnalyticsNext ==
    \/ AnalyticsExecutionStats \/ ExecutionStats \/ ListExecutions \/ SystemStats \/ Send
    \/ \E e \in Executions : InsertExecution(e)
    \/ \E e \in Executions, s \in Status : ChangeStatus(e, s)
    \/ \E e \in Executions, tokens \in TokensOfRun : UpdateUsageMetrics(e, tokens)
    \/ \E w \in Workflows : DeleteWorkflow(w)
    \/ NextDay

AnalyticsSpec == AnalyticsInit /\ [][AnalyticsNext]_analyticsVars

-----------------------------------------------------------------------------
(* Properties. *)

\* A report that nothing disturbs adds up, whatever order its queries ran in: the groups to
\* the total, the workflows' figures to the organisation's, and the page says rightly
\* whether there is more.
QuietReportsAddUp ==
    Done /\ report.quiet =>
        /\ report.kind # "list" => SumOf(report.groups) = report.total
        /\ report.kind \in {"analytics", "stats"} =>
               \A s \in Status :
                   report.groups[s] = FoldFunctionOnSet(+, 0, [w \in Workflows |-> report.each[w][s]], Workflows)
        /\ report.kind = "list" => (HasMore <=> Cardinality(RowsOf(report.workflows)) > PageSize)

\* The analytics page counts the groups before the total, so success and failure rate stay
\* percentages however many executions arrive and end meanwhile; only the deletion of a
\* workflow can push them over 100.  Rounding both may add one hundredth (3.13 + 96.88).
RatesArePercentages ==
    Done /\ report.kind = "analytics" /\ report.kept =>
        Rate(report.groups["SUCCESS"], report.total) + Rate(report.groups["FAILED"], report.total) <= 10001

\* The system page counts the other way round: its groups never fall short of its total
\* unless executions were deleted.
GroupsCoverTotal ==
    Done /\ report.kind = "system" /\ report.kept => SumOf(report.groups) >= report.total

\* Within a month the estimated bill never falls, also where the plan changes from one
\* whose overage is charged to one with a price.
BillNeverFalls ==
    [][MonthOf(today') = MonthOf(today) => EstimatedBill(MonthUsage') >= EstimatedBill(MonthUsage)]_analyticsVars
=============================================================================
