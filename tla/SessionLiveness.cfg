CONSTANTS
    Ids = {s1}
    Keys = {k1}
    None = None
    PidReuse = TRUE
    MaxAppCrashes = 1
    MaxKills = 1
    MaxDamages = 0
    MaxWriteErrors = 0
SPECIFICATION FairSpec
INVARIANTS
    SlotInv
PROPERTIES
    OperationEnds
    WatchedRunEnds
    DeadRecordSwept
