SPECIFICATION Spec
CONSTANTS
    MaxFile = 2
    MaxArrivals = 1
    MaxApplies = 2
    MaxDamages = 1
INVARIANTS
    ArchiveKept
PROPERTIES
    OthersSurvive
    ReportExact
CHECK_DEADLOCK FALSE
