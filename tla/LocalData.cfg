CONSTANTS
    Repos = {i, j}
    Paths = {x}
    Actions = {act}
    Owners = {o, q}
    Worktrees = {w}
    Containers = {c}
    Procs = {p1, p2}
    None = None
    Unusable = Unusable
    NoFile = NoFile
    Damaged = Damaged
    Cleaner = Cleaner
    MaxCalls = 2
    MaxFaults = 2
SPECIFICATION Spec
SYMMETRY Symmetry
CONSTRAINTS OneDocument TwoFaults
CHECK_DEADLOCK FALSE
PROPERTIES  DatabaseInUseStays
