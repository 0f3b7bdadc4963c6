SPECIFICATION Spec
CONSTANT Attempts = {a1, a2}
SYMMETRY Symmetry
\* After the last attempt, with no whole bundle in place, nothing can start.
CHECK_DEADLOCK FALSE
INVARIANTS FlagHeld InstallationKept
PROPERTY ReportHolds
