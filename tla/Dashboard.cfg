CONSTANTS
    Calls = {c1, c2}
    None = None
    MaxWindow = 2
    MaxChanges = 2
SPECIFICATION FairSpec
\* When every call has returned nothing is left to do.
CHECK_DEADLOCK FALSE
INVARIANTS
    ScanCurrent
    QueryOwned
PROPERTIES
    AnswerRight
    AccountNotStale
    QueryEnds
    CallsReturn
