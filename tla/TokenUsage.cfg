CONSTANTS
    NoFile = NoFile
    Hosts = {a}
    Names = {f}
    Projects = {g}
    Meters = {s}
    Ledgers = {1, 2}
    MaxLines = 2
    MaxMeter = 2
    MaxScans = 2
    MaxChanges = 2
    MaxErrors = 1
SPECIFICATION Spec
CONSTRAINT Budget
CHECK_DEADLOCK FALSE
INVARIANTS CountedExactly ImportExact ExportComplete StoresSound
