--------------------------- MODULE ExecutionsPage ---------------------------
(***************************************************************************)
(* The execution logs of the dashboard (app/dashboard/executions/page.tsx): *)
(* a table of one page of rows, fetched when the page is opened or turned   *)
(* and again every five seconds.  A fetch keeps the page number it was      *)
(* started with, fetches overlap, and the one whose answer comes last wins. *)
(***************************************************************************)
EXTENDS Naturals

CONSTANTS
    Fetches,            \* slots for requests in flight
    LastPage,
    MaxVersion,         \* bound: changes of the executions that are listed
    MaxTurns,           \* bound: what the user does
    MaxFailures         \* bound: fetches that fail

ASSUME PageAssumption ==
    /\ LastPage \in Nat \ {0}
    /\ MaxVersion \in Nat /\ MaxTurns \in Nat /\ MaxFailures \in Nat

VARIABLES
    page,       \* the page number, 0 while the user is elsewhere
    rows,       \* what the table shows: a version of a page
    fetch,      \* the requests in flight
    version,    \* what the service has
    turns,      \* history: what the user has done
    failures    \* history: fetches that have failed

pageVars == <<page, rows, fetch, version, turns, failures>>

-----------------------------------------------------------------------------

NoFetch == [page |-> 0, version |-> 0, answered |-> FALSE]

PageInit ==
    /\ page = 0
    /\ rows = [page |-> 0, version |-> 0]
    /\ fetch = [i \in Fetches |-> NoFetch]
    /\ version = 0
    /\ turns = 0
    /\ failures = 0

FetchExecutions(i, p) ==
    /\ fetch[i] = NoFetch
    /\ fetch' = [fetch EXCEPT ![i].page = p]

\* The first effect: opening the page, Previous and Next.
Turn(i, p) ==
    /\ turns < MaxTurns
    /\ turns' = turns + 1
    /\ p \in IF page = 0 THEN {1} ELSE {page - 1, page + 1} \cap (1..LastPage)
    /\ page' = p
    /\ FetchExecutions(i, p)
    /\ UNCHANGED <<rows, version, failures>>

\* What a component that is gone waits for is dropped.
Leave ==
    /\ turns < MaxTurns
    /\ turns' = turns + 1
    /\ page # 0
    /\ page' = 0
    /\ rows' = [page |-> 0, version |-> 0]
    /\ fetch' = [i \in Fetches |-> NoFetch]
    /\ UNCHANGED <<version, failures>>

\* Mutant: [organization?.id] for [organization?.id, page], so that the timer keeps the first page.
PollFirst(i) ==
    /\ page # 0
    /\ FetchExecutions(i, 1)
    /\ UNCHANGED <<page, rows, version, turns, failures>>

\* The second effect: turning the page sets a new timer.
Poll(i) ==
    /\ page # 0
    /\ FetchExecutions(i, page)
    /\ UNCHANGED <<page, rows, version, turns, failures>>

\* list_executions, which reads the rows of the page as they are.
ListLogs(i) ==
    /\ fetch[i].page # 0 /\ ~fetch[i].answered
    /\ fetch' = [fetch EXCEPT ![i] = [page |-> @.page, version |-> version, answered |-> TRUE]]
    /\ UNCHANGED <<page, rows, version, turns, failures>>

SetRows(i) ==
    /\ fetch[i].answered
    /\ rows' = [page |-> fetch[i].page, version |-> fetch[i].version]
    /\ fetch' = [fetch EXCEPT ![i] = NoFetch]
    /\ UNCHANGED <<page, version, turns, failures>>

\* A toast, and the rows stay.
FetchFails(i) ==
    /\ failures < MaxFailures
    /\ failures' = failures + 1
    /\ fetch[i].page # 0
    /\ fetch' = [fetch EXCEPT ![i] = NoFetch]
    /\ UNCHANGED <<page, rows, version, turns>>

ChangeExecutions ==
    /\ version < MaxVersion
    /\ version' = version + 1
    /\ UNCHANGED <<page, rows, fetch, turns, failures>>

PageNext ==
    \/ \E i \in Fetches, p \in 1..LastPage : Turn(i, p)
    \/ Leave
    \/ \E i \in Fetches : Poll(i) \/ ListLogs(i) \/ SetRows(i) \/ FetchFails(i)
    \/ ChangeExecutions

\* The timer fires, and of what is in flight something is answered and delivered, if not in
\* order; a single answer may be late for ever.
PageFairness ==
    /\ WF_pageVars(\E i \in Fetches : Poll(i))
    /\ WF_pageVars(\E i \in Fetches : ListLogs(i) \/ SetRows(i))

PageSpec == PageInit /\ [][PageNext]_pageVars /\ PageFairness

-----------------------------------------------------------------------------
(* Properties. *)

\* Late answers show the rows of another page, or older rows, for a while; but when the user
\* stays and the executions rest, the table comes to show the page's rows as they are, and
\* no answer still on its way undoes that.
PageSettles == <>[](page # 0 => rows = [page |-> page, version |-> version])
=============================================================================
