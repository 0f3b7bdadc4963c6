CONSTANTS
    Ids = {s1, s2}
    Keys = {k1}
    None = None
    PidReuse = TRUE
    MaxAppCrashes = 1
    MaxKills = 1
    MaxDamages = 0
    MaxWriteErrors = 1
SPECIFICATION Spec
SYMMETRY Symmetry
CONSTRAINT OneFault
INVARIANTS
    CancelledNeverRuns
    LiveIsRecorded
    ExclusiveRun
PROPERTIES
    StopSound
    EditSound
    ForgottenRunIsOver
    ImplementsSlots
