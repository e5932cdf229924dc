------------------------------ MODULE MCPlatform ------------------------------
(***************************************************************************)
(* The models of the FastAPI service's accounts, of the browser's session   *)
(* with it and of the executions page, which share no state: a behaviour is *)
(* one of them, chosen at the start.                                        *)
(***************************************************************************)
EXTENDS Accounts, ClientSessions, ExecutionsPage

CONSTANTS h1, h2, p1, p2, seed, e1, t1, t2, f1, f2, workspace, platform

VARIABLE side

Workload ==
    {{"restart", "register", "create org"},
     {"register", "invite", "update", "remove", "leave", "delete account"},
     {"login", "read tokens"},
     {"invite", "set active", "suspend"},
     {"invite", "create key", "revoke key", "regenerate key"}}

Init ==
    /\ side \in {"accounts", "client", "page"}
    /\ AccountsInit /\ ClientInit /\ PageInit
    /\ side # "accounts" => "login" \in operations

Next ==
    \/ side = "accounts" /\ AccountsNext /\ UNCHANGED <<clientVars, pageVars, side>>
    \/ side = "client" /\ ClientNext /\ UNCHANGED <<accountVars, pageVars, side>>
    \/ side = "page" /\ PageNext /\ UNCHANGED <<accountVars, clientVars, side>>

\* What is fair is disabled in the initial states, and so in the behaviours of another side.
Spec == Init /\ [][Next]_<<accountVars, clientVars, pageVars, side>> /\ ClientFairness /\ PageFairness
=============================================================================
