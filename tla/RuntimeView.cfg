CONSTANTS
    Pids = {1, 2, 3, 4}
    Places <- MCPlaces
    MaxBirths = 4
    MaxReuse = 1
    MaxMoves = 1
    Heads = {"main", "x", "y"}
    RecentLimit = 2
    MaxChanges = 1
    Definitions = {1, 2}
    MaxReviews = 2
    MaxCalls = 4
    MaxRegistrations = 2
    MaxStops = 2
SPECIFICATION MCSpec
CHECK_DEADLOCK FALSE
INVARIANTS
    StopConfined
    StopComplete
    NavigationSound
    OrderKept
PROPERTIES
    LaunchReviewed
