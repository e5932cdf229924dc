------------------------ MODULE ExecutionLifecycle ------------------------
(***************************************************************************)
(* What the platform promises of an execution that nobody retries or        *)
(* cancels: it is accepted once, attempted a bounded number of times, and   *)
(* settled at most once, as FAILED only when its attempts are used up; its  *)
(* result is counted when it settles and at no other time.                  *)
(***************************************************************************)
EXTENDS Naturals

CONSTANTS Executions, Tenants, TenantOfExecution, MaxAttempts

VARIABLES phase, tries, results

vars == <<phase, tries, results>>

Phases == {"absent", "PENDING", "PROCESSING", "SUCCESS", "FAILED", "removed"}

Init ==
    /\ phase = [e \in Executions |-> "absent"]
    /\ tries = [e \in Executions |-> 0]
    /\ results = [t \in Tenants |-> 0]

Accept(e) ==
    /\ phase[e] = "absent"
    /\ phase' = [phase EXCEPT ![e] = "PENDING"]
    /\ UNCHANGED <<tries, results>>

Attempt(e) ==
    /\ phase[e] \in {"PENDING", "PROCESSING"}
    /\ tries[e] < MaxAttempts
    /\ phase' = [phase EXCEPT ![e] = "PROCESSING"]
    /\ tries' = [tries EXCEPT ![e] = @ + 1]
    /\ UNCHANGED results

Settle(e, outcome) ==
    /\ phase[e] = "PROCESSING"
    /\ outcome = "FAILED" => tries[e] = MaxAttempts
    /\ phase' = [phase EXCEPT ![e] = outcome]
    /\ results' = [results EXCEPT ![TenantOfExecution[e]] = @ + 1]
    /\ UNCHANGED tries

\* A workflow takes all its executions with it, those about to be accepted too.
Remove(S) ==
    /\ \E e \in S : phase[e] # "removed"
    /\ phase' = [e \in Executions |-> IF e \in S THEN "removed" ELSE phase[e]]
    /\ UNCHANGED <<tries, results>>

Advance(e) == Attempt(e) \/ \E outcome \in {"SUCCESS", "FAILED"} : Settle(e, outcome)

Next ==
    \/ \E e \in Executions : Accept(e) \/ Advance(e)
    \/ \E S \in SUBSET Executions : Remove(S)

Spec == Init /\ [][Next]_vars

\* An execution that can advance does.
Fairness == \A e \in Executions : WF_vars(Advance(e))
=============================================================================
