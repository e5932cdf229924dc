# FlowForge: a TLA+ verification project

FlowForge runs workflows that are triggered by webhooks.  The repository holds
two back ends, the current one in Python (`apps/backend`: FastAPI, SQLAlchemy,
Celery over Redis) and its TypeScript predecessor (`infra/api-legacy`: Express,
Prisma, BullMQ over Redis), and a Next.js front end (`apps/frontend`).  This
directory models the parts whose correctness depends on the order in which
several processes read and write shared state, checks them with TLC, and proves
the most important facts with TLAPS.

## 1. Inventory

| component | state it keeps | operations | what makes it hard | what makes it correct | module |
|---|---|---|---|---|---|
| FastAPI webhook and execution pipeline (`workflow_service.py`, `api/executions.py`) | tables `workflows`, `logs` | webhook, retry, cancel, create, update, (de)activate, delete a workflow | every endpoint reads, decides, then commits, with other sessions in between; row and message are written to two systems | no accepted execution is forgotten; a result is not lost | `Executions` |
| Celery worker (`worker/tasks.py`) | the row `logs`, the message's `request.retries` | `process_log_task`, `self.retry` | two worker processes, early acknowledgement, republication with a countdown, stale ORM state, rows deleted underneath | attempts are bounded; an execution is settled once | `Executions` |
| Usage and quota (`usage_service.py`, `_increment_usage`, `enqueue_webhook`) | table `usage_summary` | increment, create on demand, check | read-modify-write without a lock; quota checked before the count moves | never bills what did not happen; exact when serial; every user's tenant has its row | `Executions`, `Accounts` |
| FastAPI sessions and accounts (`auth_service.py`, `deps.py`, `security.py`) | `tenants`, `users`, `refresh_tokens`, `token_blacklist` | seed, register, login, refresh, logout, change password, delete account | checks and inserts in different commits; two API processes that both seed | a registration leaves all or nothing; a change of password ends the sessions it has seen | `Accounts`, `ClientSessions` |
| FastAPI team, organisations and console (`api/team.py`, `api/organizations.py`, `api/admin.py`) | `users.role`, `users.is_active`, `tenants` | invite, change role, remove, leave, (de)activate, create | the role read by `get_current_user` is acted on later; the console reaches all tenants | only the platform's users are administrators | `Accounts` |
| FastAPI API keys (`api_key_service.py`) | `api_keys` | create, revoke, regenerate | regenerate is two commits | a regenerated key is dead before its replacement lives | `Accounts` |
| Legacy pipeline (`workflow.controller.ts`, `workflow.queue.ts`, `workflow.worker.ts`, `execution.service.ts`) | `ExecutionLog`, `WebhookEvent`, `UsageMetric`, the BullMQ jobs | webhook, run, retry by BullMQ, cancel, retry by hand | five concurrent jobs, time-outs that do not stop the action, failures after SUCCESS | one result, one charge | `LegacyExecutions` |
| Legacy sessions and password reset (`auth.service.ts`) | `User`, `RefreshToken`, `PasswordResetToken`, the browser's cookie | register, login, refresh, logout, request and do a reset | check, then transaction; late and lost responses set and clear cookies, or do not | sessions belong to users that are there and end by their own logout; a spent reset token lets nobody in later | `LegacySessions` |
| Legacy membership (`team.service.ts`, `organization.service.ts`, `adminSeed.service.ts`) | `Membership`, `Organization` | add, remove, change role, leave, found, close, seed, delete a user | count, then delete | only a request that acts on stale data takes the last admin | `LegacyTenancy` |
| Legacy API keys (`api-key.service.ts`) | `ApiKey` | create, revoke, delete, regenerate | find, then write; regenerate is two statements | a replaced key is dead | `LegacyTenancy` |
| Legacy reports and billing (`analytics.service.ts`, `execution.service.ts`) | none: functions of `ExecutionLog` and `UsageMetric` | statistics, pages, plan and bill | several queries without a transaction; boundaries of the plans | reports add up when nothing moves; rates are percentages; the bill never falls | `LegacyAnalytics` |
| Front end client (`services/api.ts`, `authStore.ts`, `layout.tsx`, login page) | token in `localStorage`, cookie, a store per tab | 401, refresh, repeat; hydrate; sign in and out | concurrent 401s, several tabs, late answers, headers that take effect before their body | the token belongs to the cookie's session; every request ends | `ClientSessions` |
| Executions page (`executions/page.tsx`) | page number, rows | fetch, poll, turn, leave | overlapping fetches | the table settles on the page shown | `ExecutionsPage` |
| Other pages, AI calls, rate limits, configuration, routing | none that matters here | | | | |

How they interact.  A webhook call goes through the API process to PostgreSQL
(row `logs`) and to Redis (task message).  A worker takes the message and writes
the row and the tenant's `usage_summary`.  The API reads both: `usage_summary` for
the quota, `logs` for retry and cancel.  Deleting a workflow deletes its rows
while messages and workers still refer to them.  There are two API processes
(`apps/backend/Dockerfile`) and two worker processes (`docker-compose.yml`).  Each API
process seeds the administrator when it starts.  The front end talks to the FastAPI service; its
session is a token in `localStorage`, which all tabs share, and a cookie, which only answers of the
service change.  In the TypeScript back end the same tables are written by services that each check
in one statement and write in another.

`PROJECT.json` lists every component with its status and, under `hazards`, the
lines where concurrency, ordering, failure and limits bite.

## 2. Plan

| order | module | what | status |
|---|---|---|---|
| 1 | `Executions` | pipeline, worker, usage and quota | done |
| 2 | `ExecutionLifecycle`, `ExecutionRefinement` | what the pipeline promises, and the refinement | done |
| 3 | `ExecutionsProofs`, `ExecutionLifecycleProofs` | types, ownership, usage, no duplicate runs; quotas, final SUCCESS, the refinement's steps, the budget of attempts; all safety properties proved | done |
| 4 | `LegacyExecutions`, `LegacyExecutionsProofs` | the BullMQ pipeline: attempts, time-outs, stalls, shutdown, cancel, usage metrics; all its safety properties proved | done |
| 5 | `Accounts`, `AccountsProofs` | tenants, users, sessions, roles and API keys of the FastAPI back end, two API processes; all its properties proved | done |
| 6 | `LegacyApi`, `LegacySessions`, `LegacyTenancy`, with `LegacySessionsProofs`, `LegacyTenancyProofs` | the legacy check-then-act services: reset and refresh tokens, memberships, API keys; all their properties proved | done |
| 7 | `LegacyAnalytics`, `LegacyAnalyticsProofs` | reports of several queries, plan and bill; all properties proved, with induction over finite sets for the sums | done |
| 8 | `ClientSessions`, `ClientSessionsProofs` | the interceptors, the store and several tabs, against the service's sessions | done |
| 9 | `ExecutionsPage` | the polling table | done |
| 10 | `ExecutionLifecycleProofs`, `LegacyAnalyticsProofs` | the proofs about counts and sums: `AttemptsBudget`, `QuietReports`, `SystemGroups`, `MonthlyBill` | done |

## 3. Executions

### State and steps

| variable | code |
|---|---|
| `workflow` | rows of `workflows`: is it there, `is_active`, and whether running `definition` returns or raises |
| `born`, `rows`, `log` | ids of `logs` handed out; the ids in the table; `status`, `error_message`, `attempts` of a row |
| `usage` | `usage_summary`: presence and the three counters |
| `queue` | the broker: how many messages there are for an execution and a value of `request.retries` |
| `worker` | per worker process: where in `process_log_task` it is, the row as its session has loaded it, the usage row it has read |
| `request` | per API handler in progress: which endpoint, where it is, the row its session has loaded |
| `retried`, `finished`, `lost`, `faults` | history, for properties and bounds only |

A step is one database round trip, a SELECT or a flush with its COMMIT, or one call of
the broker.  Sessions run at READ COMMITTED and `SessionLocal` has autoflush off,
so the code between a SELECT and its COMMIT works on a snapshot: that is what
`seen` and `tally` hold.  SQLAlchemy's UPDATE names only the columns whose new
value differs from the loaded one; `Flush` does just that.  The effect is real: a
worker that has loaded SUCCESS writes no status when it succeeds, over whatever
another session wrote meanwhile.  A commit expires the session's objects, which is why
`Load` reads the row again after `Mark`.

| action | code |
|---|---|
| `StartWebhook`, `InsertLog`, `Publish` | `enqueue_webhook`: checks, INSERT, `process_log_task.delay` |
| `StartRetry`, `CommitRetry`, `Publish` | `retry_execution` |
| `StartCancel`, `CommitCancel` | `cancel_execution` |
| `AbortRequest` | a handler whose row or workflow is gone when it writes or reloads it |
| `Fetch`, `Discard` | a worker takes a message; `if not log: return` |
| `Mark`, `Load`, `Tally`, `Commit` | PROCESSING and `attempts += 1`; reload and read the workflow; read the usage row; write result and counters |
| `Republish` | `raise self.retry(...)` |
| `Abandon` | the row is gone: the UPDATE raises, the except branch finds no row and raises |
| `CreateWorkflow`, `UpdateWorkflow`, `DeleteWorkflow`, `GetUsage` | the services of those names; deletion cascades to `logs` |
| `CrashWorker`, `CrashRequest` | a process dies, or Redis refuses the message |

Abstractions.  The id of a log is a UUID that is fixed when the handler builds the
object (`born`).  Which workflow and tenant an execution belongs to never changes, so
`WorkflowOf` and `TenantOf` are constants over ids.  The text that is summarised is
left out; a definition either returns or raises, every time alike, until it is
updated: it raises when it has an `http` step or an `ai` step whose operation is not
`summarize` (`AIService` itself falls back and never raises).  All exceptions have one text.
Access checks only decide which user may call, so any client may.  Two SELECTs in a row with nothing
decided in between are one step (log and workflow in `retry_execution`, workflow and
usage in `enqueue_webhook`).  The queue is a counted bag without order: retries carry a
countdown, workers prefetch, and there are several.  The broker loses a message only
with the process that holds it (`CrashWorker`); redelivery after Redis's visibility time-out is not
modelled: it puts a second message for one execution in the queue, as a manual retry
does.  `plan` is always `FREE`: no code sets it.

### Runs (all of module `MCExecutions`)

| run | instance | checks |
|---|---|---|
| `races` | 1 execution, 2 workers, 2 handlers; retry (once), cancel, delete; 1 fault; `MaxRetries = 1` | `TypeOK`, `UnfinishedIsOwned`, `AttemptsWithinBudget`, `AloneUnlessRetried`, `SuccessIsFinal` |
| `usage_serial` | 2 executions, 1 worker, 1 handler; retry, update, delete; 1 fault; limit 1 | `SerialUsageIsExact`, `SerialQuotaStaysClosed` |
| `lifecycle` | 2 executions, 2 workers, 2 handlers; update, delete; 1 fault; `MaxRetries = 3` as in the code; fair | `ImplementsLifecycle` |
| `settles` | 1 execution, 2 workers, 1 handler; retry, cancel, delete; 1 fault; a tenant without a usage row; fair | `EveryExecutionSettles`, `UsageNeverOvercounts` |

What they show.

- `UnfinishedIsOwned` and `EveryExecutionSettles`: a row that shows PENDING or PROCESSING
  has a message, a handler or a worker that will move it on, in every interleaving of
  retry, cancel, deletion and stale writes; only a fault can strand it.
- `AttemptsWithinBudget`: the webhook and each manual retry pay for at most
  `max_retries + 1` runs, although `attempts` and `request.retries` count differently.
- `AloneUnlessRetried`: only a manual retry can make two workers run one execution.
- `SuccessIsFinal`: only a retry, or a cancellation that started before, overwrites SUCCESS.
- `UsageNeverOvercounts`: lost updates only ever lose.  `SerialUsageIsExact`: with one worker
  process nothing is lost.  `SerialQuotaStaysClosed`: then a used-up quota stays used up.
- `ImplementsLifecycle`: without manual retries and cancellations the table goes through the
  lifecycle of `ExecutionLifecycle` (accepted once, at most `max_retries + 1` attempts,
  settled once, FAILED only after the last attempt, counted when settled), also with a crash; as
  long as no fault occurs it gets to the end.

Bounds.  One execution with two workers and two handlers already has a duplicate
run, a stale write of each kind, and a handler that races two workers; a second execution matters only to
the usage row, which all executions of a tenant share, so `usage_serial` has two; in `settles` it is
the duplicate runs of one execution that race on the usage row.  One manual retry gives two messages with different `request.retries`.
`MaxRetries = 1` has a first, a last and a republished attempt; `lifecycle` uses the
code's 3.  One fault at any step shows every place a crash can strand an execution.
`FreePlanLimit` is 1 or 2 so that the quota is reached.  Deadlock checking is off: the
system rests when no client calls.

Fairness (`Fairness`).  Worker processes consume and finish what they have started
(`WF` of `Take` and of `Work` for each), and a handler that has begun runs to its reply (`WF` of
`Serve`).  Clients, administrators and faults have none.

### Where code and documents differ

Two runs of `MCExecutions` expect a violation; each is a finding in `PROJECT.json`.

| run | text | what happens |
|---|---|---|
| `lost_update` | "Each execution increments usage." (`README.md:259`) | two workers read the same counters, one increment is lost |
| `crash` | "Execution is updated to `SUCCESS` or `FAILED`." (`README.md:49`) | a crash between row and message, or in the worker, leaves the row unfinished for ever |

Three smaller ones follow from properties that hold: the budget of `max_retries + 1 = 4` attempts,
where a comment says three (`tasks.py:69`); the quota, which counts finished executions only,
so that any number can be accepted before the first one finishes; and a late cancellation, which
`SuccessIsFinal` has to except: "Completed execution cannot be cancelled" (`executions.py:123`) is
decided on a status read earlier, and a SUCCESS committed between the check and the write is overwritten
by FAILED, "Cancelled by user".

## 4. LegacyExecutions

### State and steps

| variable | code |
|---|---|
| `workflow` | rows of `workflows`: `isEnabled`, and how many actions there are |
| `born`, `rows`, `status`, `events` | ids handed out; rows of `executions` and their `status`; webhook events |
| `metered` | the increments of `workflowRuns` in `usage_metrics`, by the execution that caused them: the upsert is one atomic statement, so the row of a day is their sum |
| `job` | BullMQ: state of the job whose id is the execution's, `attemptsMade`, stalls, and `job.data.actions` |
| `slot` | the jobs `executeWorkflow` works on: where it is and how many actions are done |
| `stragglers` | actions that `withTimeout` has given up on and that still run |
| `connected` | whether the worker process still has its Redis connection |
| `request` | API handlers in progress, at the statement they issue next |
| `started`, `copied`, `trouble`, `disruptions` | history |

| action | code |
|---|---|
| `StartWebhook`, `InsertEvent`, `InsertExecution`, `Enqueue` | `triggerWebhook` |
| `StartRetry`, `InsertCopy` | `retryExecution` |
| `StartCancel`, `CommitCancel` | `cancelExecution` |
| `AbortRequest` | a foreign key violation or an UPDATE of a deleted row |
| `Begin`, `Complete`, `Fail`, `Stall` | BullMQ: hands out, completes, puts back or fails, takes back a job |
| `MarkRunning`, `FinishAction`, `FailAction`, `TimeOutAction`, `RecordSuccess`, `Meter`, `RecordFailure` | `executeWorkflow`, statement by statement |
| `RowIsGone`, `FailStatement` | a statement throws: the catch block, whose own UPDATE may throw too |
| `Terminate`, `LeaveActive`, `Restart` | SIGTERM: `redis.ts` quits the connection at once, while `workers/index.ts` waits for the jobs in progress, whose ends Redis then does not learn |
| `CrashWorker`, `CrashRequest` | a process dies |
| `CreateWorkflow`, `UpdateWorkflow`, `ToggleWorkflow`, `DeleteWorkflow` | `workflow.service.ts`; deletion cascades to executions and events |

Abstractions.  What an action computes is left out: it ends in time, throws or times out.
Token counts and costs go where `workflowRuns` goes.  BullMQ's `waiting` and `delayed` are one
state, because the back-off only takes time.  BullMQ and its behaviour (jobs locked, three attempts as
configured, `maxStalledCount` 1, a stall is not an attempt) are external.  There is one worker
process.  A statement that fails may have been executed all the same.  Ended jobs are
removed by age and number; no id is ever added twice, so they stay in the model.  Organisations
are not deleted.

### Runs (all of module `MCLegacyExecutions`)

| run | instance | checks |
|---|---|---|
| `legacy_races` | 1 execution, 2 slots, 2 handlers, up to 2 actions, 3 attempts as in the code; cancel, update, delete; 2 disruptions of any kind | `TypeOK`, `UnfinishedIsOwned`, `EndedJobIsRecorded`, `ChargedOnce`, `AttemptsAreBounded`, `SuccessIsFinal` |
| `legacy_ends` | 2 executions, 1 slot, 1 handler, 2 attempts; cancel, retry, update, delete; 1 disruption of any kind; fair | `EveryJobEnds` |
| `legacy_sequential` | 1 execution, no disruption | `ActionsAreSequential`, violated |

What they show.  Job and row agree at the end of every job (`EndedJobIsRecorded`), although the
worker updates the row without looking at it; a completed execution is charged exactly once
unless its job stalled or a statement failed, and then at most once more for each (`ChargedOnce`);
`executeWorkflow` runs at most three times plus once per stall (`AttemptsAreBounded`);
SUCCESS is overwritten in three cases only (`SuccessIsFinal`); every job ends (`EveryJobEnds`).
Two stalls are enough for BullMQ to give a job up without running it, which leaves RUNNING
in the row: two disruptions reach this, and `UnfinishedIsOwned` names it (`StalledOut`).
The other exceptions it names are the rows of `retryExecution`, which the code never queues
(`execution.service.ts:312`, a TODO), and lost handlers and failed statements.  A cancelled execution
is run all the same, since the job stays in the queue: CANCELLED survives only if it is written
last.

`ActionsAreSequential` is what `WORKFLOW_SCHEMA.md:322` says ("Actions are executed
sequentially"); an AI action that times out goes on while the next attempt starts the first
action again.

Fairness.  The worker works on (`WF` of `Work` for each slot; `withTimeout` ends every action), is
started again after it stops (`Restart`), and BullMQ looks for stalled jobs (`Stall`); handlers run to
their reply.  Stragglers may hang for ever.

## 5. The Express services: LegacySessions, LegacyTenancy, LegacyAnalytics

All three share `LegacyApi` (the handlers that may be in progress at once) and are checked by one
run.  They have no state in common, so a behaviour of `MCLegacyServices` is one of them.  A step is one Prisma
call; the calls that decide whether a request is let in, and whose refusal changes nothing, are one
step with the first effect after them.

### LegacySessions

| variable | code |
|---|---|
| `account` | table `users`, by address: there, `isActive`, password; `id` tells apart the accounts that an address has had |
| `refresh`, `reset` | tables `refresh_tokens` and `password_reset_tokens`; a reset token names an address, not a user |
| `cookie` | per browser: the refresh token in its cookie |
| `request` | per handler: the operation, at the statement it issues next |
| `spent`, `requests` | history |

| action | code |
|---|---|
| `StartRegister`, `InsertAccount`, `CreateRefreshToken`, `SignedIn` | `register`: the query, the transaction, the row of the session, the answer with its cookie |
| `StartLogin`, `CreateRefreshToken`, `SignedIn` | `login`: the query and the comparison of hashes, the row, the answer |
| `StartLogout`, `DeleteRefreshToken`, `SignedOut` | `logout`: the row is deleted, or the delete throws, or there is no cookie and nothing to delete; `clearCookie` names no token |
| `StartForgot`, `IssueResetToken` | `forgotPassword` |
| `StartReset`, `CommitReset` | `resetPassword`: `used = false` is asked for, the new password is hashed, then one transaction |
| `UpdateAccount`, `StartDeleteAccount`, `DeleteAccount` | `updateUser`, `deleteUser` of `admin.service.ts`; refresh tokens cascade |
| `ExpireResetToken` | time |
| `Fail` | the process dies, a statement fails or the response is lost: a request in progress ends where it is, and what it has written stays |

Passwords stand for their hashes, and only those that pass `validatePasswordStrength` are sent.
A request whose first query refuses it changes nothing and is left out.  So is `POST /auth/refresh`: it
reads a row and a user and answers with an access token, which nothing in this module looks at; it neither
replaces the row nor sets a cookie.  Logout is modelled with the token of the cookie; one that a client
puts in the body instead (`auth.controller.ts:108`) ends the row it names, as a cookie would.  Expiry of a
refresh token leaves the row in the table, and is left out with the refresh that would notice it.

### LegacyTenancy

| variable | code |
|---|---|
| `user`, `organization`, `role`, `key` | tables `users`, `organizations`, `memberships`, `api_keys` |
| `change` | per handler: the operation, its next statement, whom it is about, what it has read |
| `changes`, `workload` | history; the operations of this behaviour |

`Post...`, `Patch...` and `Delete...` are the controllers with their checks
(`CheckOrganizationAccess`, `CheckOrganizationAdmin`; `RequireAdmin` looks for the organisation where
the route does not put it); `AddMember`, `RemoveMember`,
`UpdateMemberRole`, `LeaveOrganization`, the `Team...` operations, `CreateApiKey`, `RevokeApiKey`, `DeleteApiKey`,
`RegenerateApiKey` are the services: each is a chain of the statements `FindStranger`, `FindMember`,
`CountAdmins`, `InsertMembership`, `WriteMembership`, `FindKey`, `InsertKey`, `WriteKey`, with the unique
constraint and the foreign keys of the Prisma schema in them.  `SeedAdminIfMissing` runs at every start of a server.
`Crash` ends a handler anywhere.

Left out: notifications, e-mail and names; whether an organisation is active is not
looked at by any modelled check, and only closed and opened.

### LegacyAnalytics

The tables `workflows`, `executions` (`status`) and `usage_metrics` (`usage`) move as the pipeline moves them
(also over an ended execution: the next attempt writes RUNNING over FAILED or CANCELLED, and a failure after
SUCCESS, or a late cancellation, writes over that), and a `report` collects the answers of its queries: in sequence in
`AnalyticsExecutionStats` and `SystemStats`, side by side in `ExecutionStats` and
`ListExecutions`.  `Metered` is the upsert of `updateUsageMetrics`; `CurrentPlan` and `EstimatedBill` are `getBillingInfo`.
Rates are in hundredths of a per cent and money is in cents, to which the code rounds them;
the limits of the plans are constants, small in the run.  `Totals` adds the month's rows of
`usage_metrics` counter by counter, as `reduce` does in `getBillingInfo`.  The names of the queries are no workflows
(`QueriesAssumption`), because `todo` holds both.

### Run `legacy_services` (module `MCLegacyServices`)

| part | instance | checks |
|---|---|---|
| sessions | 1 address registered up to twice, 2 passwords, 2 browsers, 2 handlers, 2 refresh tokens, 1 reset token, 5 requests | `SessionsTypeOK`, `ResetReusesWereUnderWay`, `ResetIsAtomic`, `SessionsBelongToUsers`, `SessionsEndByOwnLogout` |
| tenancy | 2 users, 3 organisations, 2 keys, 2 handlers, 3 requests, four sets of operations, four initial memberships | `TenancyTypeOK`, `ReferencesAreSound`, `LastAdminGoesOnStaleData`, `ReplacedKeyIsDead` |
| reports | 2 workflows with an execution each, pages of one row | `AnalyticsTypeOK`, `QuietReportsAddUp`, `RatesArePercentages`, `GroupsCoverTotal` |
| billing | the same executions, runs of 1 or 2 tokens, months of 2 days, 4 days, 3 charges; free plan up to 1 run and 1 token, pro up to 2 and 3 | `BillNeverFalls` |

What they show.

- `resetPassword` can spend one token several times, but only in requests that have all looked
  before the first one commits: whoever presents a spent token later is refused, and each of the
  former uses it once (`ResetReusesWereUnderWay`); the mark and the password always go together,
  also when the account is deleted in between (`ResetIsAtomic`).
- No session survives its user or passes to the next account of the address
  (`SessionsBelongToUsers`).  A browser keeps the row of its cookie until it logs out itself, and the
  cookie until a newer sign-in or a late answer to a logout it had sent before, wherever requests die
  or lose their answers (`SessionsEndByOwnLogout`).  The other way round a cookie can outlive its row: when the
  process dies after the DELETE, or the answer with `clearCookie` is lost, the browser keeps the cookie,
  and every later logout with it throws in Prisma's `delete` before it comes to clear it.
- An organisation loses its last admin only through a request that was overtaken between
  check and write, or with the user (`LastAdminGoesOnStaleData`); this does happen, since two
  admins who leave together both count two.
- Memberships and keys refer to users that are there (`ReferencesAreSound`): the foreign keys save
  what the checks miss.  A regenerated key and its replacement are never valid together
  (`ReplacedKeyIsDead`).
- Reports add up when nothing moves (`QuietReportsAddUp`).  When executions come and end meanwhile, the order of the
  queries keeps the rates of the organisation's page at most 100 per cent, but for rounding
  (`RatesArePercentages`), and the platform's groups at least its total (`GroupsCoverTotal`): the two
  functions query in opposite orders.  Deletions can break both.
- The bill never falls within a month, also where it changes from an overage to a price
  (`BillNeverFalls`): runs and tokens over the free plan make it the pro plan, and API calls, the only
  overage a free plan could have, are never counted.

Bounds.  Two handlers have every pair of check and write; a third adds repetition, and the
proofs cover any number.  One address with two accounts has the re-registration; two refresh tokens have a
newer sign-in beside an older one.  Three requests in `tenancy` are two that race and one that
prepares them; the initial memberships spare more.  Two executions have every
difference between a group and a total, and four days are two months of two.  Browsers, handlers and
passwords are symmetric, and so are the two workflows with their executions.  Three charges are one more than
the pro plan has runs.  Deadlock checking is off: the bounds end every behaviour.

### Where code and documents differ

`legacy_one_time` expects a violation: `docs/ARCHITECTURE.md:248` says of the password reset "One-time use
tokens", and `ResetTokensAreOneTime` is what that means.  Two requests that both ask for `used = false`
(`auth.service.ts:262`) before either has hashed its password change the password twice with one token;
`ResetReusesWereUnderWay` says how far this goes.

Another claim has no property, because there is no state for it to be about: "Token rotation on refresh"
(`docs/ARCHITECTURE.md:112`) and "Refresh token rotation" (`docs/ARCHITECTURE.md:285`).  Neither back end
rotates: `refreshToken` of the TypeScript one and `refresh` of the FastAPI one leave the row and the
cookie as they are (`ServeRefresh` in `ClientSessions`).

## 6. Accounts

| variable | code |
|---|---|
| `process` | the lifespan of each uvicorn process: down, seeding, up, failed |
| `user`, `tenants`, `summaries`, `tokens`, `keys` | tables `users`, `tenants`, `usage_summary`, `refresh_tokens`, `api_keys` |
| `request` | per thread: the endpoint, and what it has read of its user |
| `operations` | the operations of this behaviour |

| action | code |
|---|---|
| `Lifespan`, `IssueAdminBootstrap`, `Stop` | `lifespan` in `main.py`, `issue_admin_bootstrap`: tenant, usage row and user in one commit, which the unique address and slug may refuse |
| `StartRegister`, `CommitRegister` | `register`: the search for a free slug, one commit |
| `StartLogin`, `PersistRefreshToken` | `login`; a registration goes on as a login |
| `GetCurrentUser` | the dependency of all other endpoints: what it reads is what they act on |
| `ReadTokens`, `ChangePassword` | `change_password`: reads the user's live tokens, commits the password and revokes those |
| `DeleteAccount`, `LeaveOrg` | the account is deactivated |
| `CreateKey`, `RevokeKey`, `RegenerateKey` | `api_key_service.py`; `regenerate_key` is two commits, of which `CreateKey` is the second |
| `InviteMember`, `UpdateMember`, `RemoveMember` | `api/team.py`, for users of the caller's tenant |
| `SetUserActive`, `DeleteUser`, `CreateOrg` | the console (`api/admin.py`, `api/organizations.py`) |
| `Abort` | an error, or the end of a thread, before the commit |

Refresh and logout only revoke or read the row of one session and are in
`ClientSessions`.  Left out: renaming an organisation, lists and
figures.  Passwords are numbers that grow with each change.  `overtaken` and `replaces` are history.

`TenantsAreWhole` says that a tenant has a usage row exactly when it has a user: `get_usage` and the
worker never have to insert one for a user, so their race for it never happens; two registrations of one address or name
leave nothing of the loser; and two processes that seed at once leave one administrator (the loser's
`lifespan` raises).  `AdminsBelongToThePlatform` answers whether the role that the team endpoints hand out
opens the console to others: it does not, because registration makes no administrator, so nobody outside
the platform's tenant can hand the role out.  For the same reason a tenant made by
`register` never gets an administrator, and one made by `create_org` never a
user.  `OldSessionsWereOvertaken` bounds the hazard of `change_password`: the sessions it misses
are those inserted after its query.  `RegeneratedKeysAreRevoked` holds wherever a request dies.

## 7. ClientSessions and ExecutionsPage

`ClientSessions` composes the browser with the part of the service it depends on.

| variable | code |
|---|---|
| `session` | table `refresh_tokens` of one user after another: new, live, ended |
| `token` | the access tokens in circulation, with the session that issued them, and whether they are valid |
| `storage`, `cookie` | `localStorage.accessToken`, the `refreshToken` cookie: one for all tabs; `torn` and `overtaken` (of a request) are history |
| `tab` | what the auth store of each tab lets it show |
| `call` | requests in flight, from the request interceptor to the page |

| action | code |
|---|---|
| `Load`, `HydrateAuth`, `Hydrated`, `HydrationFails` | `Providers`, `hydrateAuth` |
| `Send`, `CallEnds` | requests of the pages, the buttons for login and logout |
| `ServeLogin`, `RefuseLogin`, `ServeCall`, `ServeLogout`, `ServeRefresh` | the service: `login`, `get_current_user`, `logout`, `refresh` |
| `StartRefresh`, `Retry`, `GiveUp` | the response interceptor |
| `Headers` | the browser takes `Set-Cookie` from the headers of an answer to login or logout |
| `SetAuth`, `LoginFails`, `ClearAuth` | when the page has the body: login page, layout of the dashboard, `authStore.ts` |
| `Fail`, `EndToken`, `EndSession`, `Forget` | network, also between headers and body; expiry, deactivation; answers nobody waits for |

An ended token may be expired, on the blacklist, or that of an inactive user: the service refuses
all alike.  Registration signs in as login does.  The pages import a client `@/lib/api` that the
repository does not contain; `services/api.ts` is the only one there is.  A page that is loaded anew, or left for the
login page, drops what it waited for, but the service still answers.

The cookie changes in `Headers` and `localStorage` later, in `SetAuth` or `ClearAuth`: other tabs, other
answers, a reload or the loss of the body may come in between.  `StorageFollowsCookie` says how far the two may then
be apart.  The token that all tabs send was issued under the session of the cookie, except while
the page of the latest sign-in or sign-out has its headers and not its body, and after two answers were torn apart:
one was overtaken by the headers of another (also a refresh, which stores its token whatever
cookie there is by then), or its page did not live to see its body.  The code excludes none of these, and nothing
mends them before the next token is stored: the browser then sends the token of a session that was logged out or
replaced.  Without such an overlap the two never part, whatever is refused, refreshed, expires or fails.
`ClientSettles`: every request and every spinner of `hydrateAuth` ends.

`ExecutionsPage` has the table, its page number, the timer and fetches that overlap; `Poll`
captures the page number of the render that set the timer.  `PageSettles`: when the user stays and the executions
rest, the table comes to show them, whatever late answers did in between.

### Run `platform` (module `MCPlatform`)

| part | instance | checks |
|---|---|---|
| accounts | 2 processes, 2 threads, 2 addresses of which one is seeded, 2 names with 2 suffixes, 2 tokens, 2 keys, 2 changes of password, five sets of operations | `AccountsTypeOK`, `TenantsAreWhole`, `AdminsBelongToThePlatform`, `OldSessionsWereOvertaken`, `RegeneratedKeysAreRevoked` |
| client | 2 tabs, 2 requests in flight, 2 sessions, 3 access tokens, 3 visits | `ClientTypeOK`, `StorageFollowsCookie`, `ClientSettles` |
| page | 3 pages, 2 fetches, 3 turns, 1 change, 1 failure | `PageSettles` |

A behaviour is one of the three.  Bounds.  Two requests in flight have every overtaking, and two tabs a sign-out in one under the
other; two sessions are an old and a new one, and a token that nobody holds any more is reused, so that three
are enough.  Three visits are a sign-in, and two more things.  The sets of operations split what
has to race together: registrations and seeding; roles and tenants; passwords and logins;
the console; keys.  Deadlock checking is off: the bounds end every behaviour.

Fairness.  `ClientFairness`: as long as requests are in flight, one of them gets an answer or an error, and
the event loop handles it; a single one may be late while others come and go.  `PageFairness`: the timer
fires, and of the fetches in flight some are answered and delivered.  Users, clocks and failures have none.

## 8. Proofs

`ExecutionsProofs` proves, for all values of the constants that satisfy the assumptions
of `Executions` (finitely many workers; `TenantOf`, `WorkflowOf` functions; natural bounds):

| theorem | states | argument |
|---|---|---|
| `TypeCorrect` | `Spec => []TypeOK` | inductive as it stands |
| `NoExecutionIsForgotten` | `Spec => []UnfinishedIsOwned` | inductive together with `TypeOK`: `PendingIsOwned` and `ProcessingIsOwned` name, for each step of a worker or handler, the owner the next step hands the execution to; the clause on `seen.status` is what makes it inductive under `Flush` |
| `UsageIsNeverInvented` | `Spec => []UsageNeverOvercounts` | `UsageInv`: what any worker has read of the usage row is also bounded by the committed results, so a stale write is too |
| `SerialUsage` | `Spec => []SerialUsageIsExact` | `SerialInv`: while the only worker is at `commit`, what it has read equals the usage row |
| `NoDuplicateRun` | `Spec => []AloneUnlessRetried` | `AloneInv`: as long as an execution is not retried by hand, messages, publishing handlers and workers that hold it add up to at most one |

Each proof has an initial step, a lemma with one step per action, and a temporal step.
Actions that leave the relevant variables alone go through one frame lemma per invariant.
Helper lemmas state what `Enqueue`, `Dequeue`, `Flush` and `IncrementUsage` do.

`ExecutionLifecycleProofs` goes on from there:

| theorem | states | argument |
|---|---|---|
| `ClosedQuotas` | `Spec => SerialQuotaStaysClosed` | `TallyInv`: what the only worker has read of a usage row that was there is still what it shows; unlike `SerialInv` it covers tenants that got their row from `get_usage` |
| `FinalSuccess` | `Spec => SuccessIsFinal` | `SettledInv`: no message, worker or webhook handler has a SUCCESS that nobody retried; `InsertInv`: the row a handler is about to insert is not there yet |
| `LifecycleImplemented` | `Spec => Lifecycle!Spec`, assuming `NoIntervention` (`Operations` has neither `retry` nor `cancel`) | `LifeInv`: the number of attempts in the row is the `retries` of its one message, or that of its worker, plus one from `Mark` on, and a worker that holds a row has loaded what the row shows; `StepImplements` then maps `InsertLog` to `Accept`, `Mark` to `Attempt`, `Commit` to `Settle`, a deleted workflow and an aborted insertion to `Remove`, and every other step to a stutter |

| `AttemptsBudget` | `Spec => []AttemptsWithinBudget` | `BudgetInv`: the attempts in the row, and also those a worker at `Mark` would write over them from a stale row, leave room in the budget for all runs that are still ahead |

`AloneInv` is what makes `FinalSuccess` and `LifecycleImplemented` inductive: the one task of an execution passes from the
handler to the message to the worker, so no other step meddles with its row.

`AttemptsWithinBudget` is about duplicates, of which `AloneInv` only says that a new execution has none.  `BudgetInv` counts what may still be
counted, `RunsAhead`: the runs that a message with `request.retries = k`, a worker, or a
handler that will publish leads to, namely one for each number of a retry from the next one up to `max_retries`.
They are pairs of an actor and a number, so that the sum over actors is the size of a set
(`MessageRuns`, `WorkerRuns`, `HandlerRuns`), and a step moves one actor's block (`RunsChange`, `MessagesMore`,
`MessagesFewer`).  `Fetch`, `Republish` and `Publish` move a block from one set to another, `Mark` counts one
attempt and uses one run up, `StartWebhook` and `StartRetry` add a block together with the budget for it, and all
other steps only lose runs.

`LegacyExecutionsProofs` proves all safety properties of `LegacyExecutions`, for all values of
the constants that satisfy its assumptions:

| theorem | states |
|---|---|
| `LegacyTypeCorrect` | `Spec => []TypeOK` |
| `LegacyExecutionIsOwned` | `Spec => []UnfinishedIsOwned` |
| `JobsAreRecorded` | `Spec => []EndedJobIsRecorded` |
| `ChargesAreExplained` | `Spec => []ChargedOnce` |
| `RunsAreBounded` | `Spec => []AttemptsAreBounded` |
| `LegacySuccessIsFinal` | `Spec => SuccessIsFinal` |

They share the inductive invariant `IInv`.  Its parts say that a busy slot holds an active job
that no other slot holds (`SlotsInv`), that a handler which inserts an execution is alone and before the
job (`HandlersInv`), that each run is paid for by an attempt, a stall or the run in progress
(`BudgetInv`), that a charge not explained by stalls and failed statements belongs to a job that has
completed, is about to, or was left active (`ChargeInv`), what the row shows once the result is
written (`RecordInv`) and before (`FinalInv`).  Types alone are not inductive: that `attempts` and
`done` stay within their bounds needs `BudgetInv` and `SlotsInv`.  Each part has a frame lemma and
a lemma with one step per action.

`AccountsProofs` proves all invariants of `Accounts`:

| theorem | states | argument |
|---|---|---|
| `AccountsTypeCorrect` | `AccountsSpec => []AccountsTypeOK` | needs `RequestsSound`: what a request has found is still there, because rows of users are never deleted and never change their tenant |
| `TenantsWhole` | `AccountsSpec => []TenantsAreWhole` | `TenantsInv`: a user's tenant is in the table, so an invitation never fills a tenant without users |
| `AdminsOfThePlatform` | `AccountsSpec => []AdminsBelongToThePlatform` | `RequestsSound`: a request that has read ADMIN acts for a user of the platform's tenant |
| `OldSessions` | `AccountsSpec => []OldSessionsWereOvertaken` | `SessionsInv`: a live session that was not overtaken has the current password and is on the list of every change under way |
| `RegeneratedKeys` | `AccountsSpec => []RegeneratedKeysAreRevoked` | `KeysInv`: between its two commits the request holds a dead key, and dead keys stay dead |

`LegacyTenancyProofs` proves all properties of `LegacyTenancy`:

| theorem | states | argument |
|---|---|---|
| `TenancyTypeCorrect` | `TenancySpec => []TenancyTypeOK` | with `RequestsSound`, which says what each operation's request carries |
| `References` | `TenancySpec => []ReferencesAreSound` | the foreign keys in the statements; a deleted user owns no key |
| `LastAdmin` | `TenancySpec => LastAdminGoesOnStaleData` | a step lemma (`AdminStep`): whoever writes a membership and has not been overtaken is an admin who stays, or is not the only one counted |
| `ReplacedKeys` | `TenancySpec => []ReplacedKeyIsDead` | `KeysInv`: the key a request is about to replace is revoked or gone, and stays so |

There is one lemma for each statement, and one for each operation, which is a chain of them.

`LegacySessionsProofs` proves all properties of `LegacySessions`:

| theorem | states | argument |
|---|---|---|
| `SessionsTypeCorrect` | `SessionsSpec => []SessionsTypeOK` | with `RequestsSound` |
| `ResetReuses` | `SessionsSpec => ResetReusesWereUnderWay` | `ResetInv`: a token is spent exactly when its row says used, so `ValidReset` refuses everybody who asks after the first use; `ReuseStep` has one step per action: each further use ends a reader, and nobody becomes one |
| `ResetAtomic` | `SessionsSpec => []ResetIsAtomic` | part of `ResetInv` |
| `SessionsBelong` | `SessionsSpec => []SessionsBelongToUsers` | `TokensInv`: a row's `id` is at most that of the address's present account, so a new account has no rows |
| `OwnLogout` | `SessionsSpec => SessionsEndByOwnLogout` | `CookiesInv`: a token is on its way to one browser or in one cookie, only that browser can be logging out with it, and once such a logout is answered the row is gone; `SessionStep` has one step per action |

The invariant is kept by one lemma per action; `ResetKept`, `TokensKept` and `CookiesKept` say what
steps keep that do not touch its parts.

`LegacyAnalyticsProofs` proves, for all numbers, prices and periods:

| theorem | states | argument |
|---|---|---|
| `AnalyticsTypeCorrect` | `AnalyticsSpec => []AnalyticsTypeOK` | inductive as it stands; a count of rows is at most the number of executions |
| `QuietReports` | `AnalyticsSpec => []QuietReportsAddUp` | `QuietInv`: while nothing has moved, each answer that a report has is what its query would answer now; then the groups sum to the total because the statuses partition the rows |
| `SystemGroups` | `AnalyticsSpec => []GroupsCoverTotal` | `CoverInv`: the rows the total has counted are still there when the groups are counted, in whatever status |
| `MonthlyBill` | `AnalyticsSpec => BillNeverFalls` | `BillMonotone`: a larger use of the month has no smaller bill, provided that no API calls are counted, which is `BillInv`; with them the change from an overage to the price of the pro plan could make the bill fall |
| `AnalyticsRates` | `AnalyticsSpec => []RatesArePercentages` | `RatesInv`: once the groups are counted, the ended executions among them are at most the rows that the total will count, for rows only come while no workflow is deleted (`RatesFrame`); `RatesBound` is the arithmetic of the rounding |

`ClientSessionsProofs` proves the safety properties of `ClientSessions`:

| theorem | states | argument |
|---|---|---|
| `ClientTypeCorrect` | `ClientSpec => []ClientTypeOK` | with `CallSound`: the tokens a request carries are in the table of issued tokens |
| `TokenFollowsCookie` | `ClientSpec => []StorageFollowsCookie` | `CallSound`: a token that a refresh brought was issued under the session whose cookie the refresh was sent, and as long as neither it nor an answer with its headers was overtaken, that is the cookie there is; `StorageSound` says the same of what is stored and not torn, unless the latest headers wait for their page (`LatestPending`) |

The lemma `KeptSound` carries both over to any table of tokens that keeps what somebody holds
(`Keeps`); `Forgotten` shows that forgetting the tokens nobody holds is such a step.

The sums are folds, and what a fold computes is proved by induction over the set that is folded.  The
library's induction theorems take a predicate, which the provers cannot instantiate, so the lemma
`SetInduction` takes in its place the set `G` of the subsets that have the property: if `{}` is in `G`, and
with each set the one with an element more, then the whole finite set is.  It follows from the well-founded order of the finite
subsets.  `SumDef` unfolds a sum by the element that the fold chooses, `SumRemove` and `SumAdd` by any other; `SumNat`, `SumMonotone`, `SumZero` and
`SumOfCounts` are what the proofs use.

Only model-checked.  What holds under fairness (`EveryExecutionSettles`, `EveryJobEnds`, `ClientSettles`,
`PageSettles`, the fairness of `ImplementsLifecycle`) is out of TLAPS's reach, and the runs that expect a
violation, two in `MCExecutions`, one in `MCLegacyExecutions` and one in `MCLegacyServices`, are counterexamples, not theorems.  Every other
property that a run checks is proved: the safety part of `ImplementsLifecycle` as `LifecycleImplemented`, the others by name.

## 9. Not modelled

- AI services: one remote call with a fallback; `Executions` has its outcome.
- Configuration, logging, response envelopes, routing: no state of their own.
- Rate limits, notifications and e-mail: library middleware and output.
- Lists, searches and figures that one query reads.  Daily averages, token analytics and the
  health page of `analytics.service.ts`.
- The other pages of the front end, which fetch once or submit a form.
- `validateApiKey` of the TypeScript back end, which nothing calls; no code of the FastAPI back end accepts a key.
- The uniqueness of organisation names in `organization.service.ts`, which looks for the slug
  without the time stamp that it is written with, and so never finds it.
- Renaming of users, keys and organisations.
- A seeded user that was deleted and is created anew as another user; a changed `ADMIN_SEED_EMAIL`.
- No code keeps the last administrator of a FastAPI tenant from demoting or
  removing themselves, so there is no property to state.
- The error that `team.service.ts:92` answers after the member was added is an answer only: the membership
  is written, and modelled.
