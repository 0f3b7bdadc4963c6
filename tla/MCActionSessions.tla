-------------------------- MODULE MCActionSessions --------------------------
(* Small instances of ActionSessions for TLC. *)
EXTENDS SessionInvariant, TLC

\* Ids and keys are only compared for equality.
Symmetry == Permutations(Ids) \cup Permutations(Keys)

UsedKeys == {key[i] : i \in Ids} \ {None}

\* A bound for SessionKeys: with two keys in use nothing is edited, removed
\* or damaged.
OneKeyDisturbed ==
    IF Cardinality(UsedKeys) <= 1 THEN \A k \in Keys \ UsedKeys : registered[k]
    ELSE faults.damage = 0 /\ \A k \in Keys : registered[k]

\* A bound for SessionFault: one fault, of any kind; with it and a key that is
\* not registered there is one session.
OneFault ==
    LET happened == faults.crash + faults.kill + faults.damage + faults.write
    IN  /\ happened <= 1
        /\ \/ happened = 0
           \/ \A k \in Keys : registered[k]
           \/ Cardinality({i \in Ids : key[i] # None}) <= 1

=============================================================================
