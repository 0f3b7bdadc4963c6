---------------------------- MODULE MCTokenUsage ----------------------------
(***************************************************************************)
(* TokenUsage for TLC.                                                     *)
(***************************************************************************)
EXTENDS UsageInvariant

\* Bound: changes of the environment and errors share one budget.
Budget == used.changes + used.errors <= MaxChanges
=============================================================================
