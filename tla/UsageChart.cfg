CONSTANTS
    Day = 4
    Horizon = 12
    Shifts = {4, 5, 6, 7}
    MaxEvents = 2
    MaxFilled = 5
    MaxEstimate = 8
    Projects = {p, q}
    Models = {m, n}
    None = None
SPECIFICATION Spec
CHECK_DEADLOCK FALSE
SYMMETRY Symmetry
CONSTRAINT OneVariety
INVARIANTS ChartExact DashboardSound
