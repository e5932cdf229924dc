------------------------------- MODULE LegacyApi -------------------------------
(***************************************************************************)
(* What the models of the Express services share: the requests that the API *)
(* process works on at the same time, and the absent value.                 *)
(***************************************************************************)
EXTENDS FiniteSets

CONSTANTS
    Handlers,           \* API handlers that may be in progress at once
    None                \* no row, no cookie, no user

ASSUME HandlersAssumption == IsFiniteSet(Handlers)
=============================================================================
