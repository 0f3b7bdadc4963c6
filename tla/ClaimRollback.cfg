SPECIFICATION Spec
CONSTANT Attempts = {a1}
SYMMETRY Symmetry
CHECK_DEADLOCK FALSE
PROPERTY RollbackRestores
