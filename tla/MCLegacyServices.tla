--------------------------- MODULE MCLegacyServices ---------------------------
(***************************************************************************)
(* The three models of the Express services that share no table in what     *)
(* they check: a behaviour is one of them, chosen at the start.             *)
(***************************************************************************)
EXTENDS LegacySessions, LegacyTenancy, LegacyAnalytics, TLC

CONSTANTS e1, p1, p2, b1, b2, h1, h2, t1, t2, r1, u1, u2, o1, o2, o3, k1, k2, w1, w2, x1, x2

VARIABLE service

\* Who is in the first organisation; a user outside it, and the second user without an
\* organisation, has not registered.
Members(a1, a2, a3) == (o1 :> (u1 :> "ADMIN" @@ u2 :> a1)) @@ (o2 :> (u1 :> a2 @@ u2 :> a3))
                       @@ (o3 :> (u1 :> "none" @@ u2 :> "none"))
Start == {Members("none", "none", "none"), Members("none", "none", "ADMIN"),
          Members("MEMBER", "none", "none"), Members("ADMIN", "none", "none")}
Workload ==
    {{"add", "remove", "role", "team leave", "delete"},
     {"team add", "team remove", "team role", "leave", "found", "delete"},
     {"create key", "revoke key", "delete key", "regenerate key", "delete"},
     {"seed", "leave", "delete", "close", "disable"}}
WorkflowOfExecution == (x1 :> w1) @@ (x2 :> w2)

Init ==
    /\ service \in {"sessions", "tenancy", "reports", "billing"}
    /\ SessionsInit /\ TenancyInit /\ AnalyticsInit
    /\ service # "tenancy" => "seed" \in workload /\ role = Members("none", "none", "none")

Next ==
    \/ service = "sessions" /\ SessionsNext /\ UNCHANGED <<tenancyVars, analyticsVars, service>>
    \/ service = "tenancy" /\ TenancyNext /\ UNCHANGED <<sessionVars, analyticsVars, service>>
    \/ /\ service \in {"reports", "billing"}     \* reports while nothing is metered, bills while nothing is reported
       /\ AnalyticsNext
       /\ IF service = "reports" THEN UNCHANGED <<usage, today>> ELSE UNCHANGED report
       /\ UNCHANGED <<sessionVars, tenancyVars, service>>

Spec == Init /\ [][Next]_<<sessionVars, tenancyVars, analyticsVars, service>>

\* Each workflow has one execution: they are exchanged together.
Symmetry == Permutations({b1, b2}) \cup Permutations({h1, h2}) \cup Permutations({p1, p2})
            \cup {w1 :> w2 @@ w2 :> w1 @@ x1 :> x2 @@ x2 :> x1}
=============================================================================
