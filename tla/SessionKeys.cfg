CONSTANTS
    Ids = {s1, s2}
    Keys = {k1, k2}
    None = None
    PidReuse = FALSE
    MaxAppCrashes = 0
    MaxKills = 0
    MaxDamages = 1
    MaxWriteErrors = 0
SPECIFICATION Spec
SYMMETRY Symmetry
CONSTRAINT OneKeyDisturbed
PROPERTIES
    ShutdownSound
    RunningFilesStay
