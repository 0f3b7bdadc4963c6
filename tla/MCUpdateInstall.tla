-------------------------- MODULE MCUpdateInstall --------------------------
(* Small instances of UpdateInstall for TLC. *)
EXTENDS UpdateInstall, TLC

\* Attempts are only compared for equality.
Symmetry == Permutations(Attempts)

=============================================================================
