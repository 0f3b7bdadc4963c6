---------------------------- MODULE MCLocalData ----------------------------
(***************************************************************************)
(* LocalData for TLC.                                                      *)
(***************************************************************************)
EXTENDS LocalData, TLC

\* Bound: the documents share nothing, so a history is about one of them.
OneDocument ==
    \/ used.configuration = 0 /\ file["configuration"] = NoFile
    \/ used.bindings = 0 /\ file["bindings"] = NoFile /\ \A o \in Owners : origin[o] = None

\* Bound: a second fault only where it meets the recovery of the first.
TwoFaults == used.faults <= 1 \/ (windows /\ used.bindings = 0)

\* Processes, owners and ids are only compared for equality.
Symmetry == Permutations(Procs) \cup Permutations(Owners) \cup Permutations(Repos)
=============================================================================
