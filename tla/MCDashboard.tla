---------------------------- MODULE MCDashboard ----------------------------
(* Small instances of Dashboard for TLC. *)
EXTENDS DashboardInvariant, TLC

\* Calls are only compared for equality.
Symmetry == Permutations(Calls)

=============================================================================
